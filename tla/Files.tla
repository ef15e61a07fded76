-------------------------------- MODULE Files --------------------------------
(***************************************************************************)
(* What the file calls promise, without sectors: a file is a sequence of   *)
(* bytes, an open file is a name with an offset, a read returns what is    *)
(* there and a write changes the bytes it covers and no others.            *)
(*                                                                         *)
(* FileSystem shows that SimpleFS and the VFS keep this promise.           *)
(***************************************************************************)
EXTENDS Integers, Sequences

CONSTANTS Name, Handle, Buffer, Count,
          NoFile,   \* the content of a name that is not in the directory
          Closed    \* a handle nobody has open

VARIABLES content,  \* name -> bytes
          open,     \* handle -> [name, off, r, w]
          got       \* what the last call read

Smaller(m, n) == IF m < n THEN m ELSE n
Larger(m, n)  == IF m > n THEN m ELSE n

(***************************************************************************)
(* s written over c at offset o; a gap between the two reads as zeros.     *)
(***************************************************************************)
Splice(c, o, s) ==
    [i \in 1 .. Larger(Len(c), o + Len(s)) |->
        IF i \in o + 1 .. o + Len(s) THEN s[i - o]
        ELSE IF i <= Len(c) THEN c[i] ELSE 0]

Slice(c, o, n) == SubSeq(c, o + 1, Smaller(o + n, Len(c)))

Init ==
    /\ content = [n \in Name |-> NoFile]
    /\ open = [h \in Handle |-> Closed]
    /\ got = <<>>

(***************************************************************************)
(* Opening finds the file as it is, or makes or leaves an empty one; the   *)
(* caller that cannot be given a descriptor has no handle either.          *)
(***************************************************************************)
Emptied(n) == content' = [content EXCEPT ![n] = <<>>]
Found(n)   == content[n] # NoFile /\ UNCHANGED content

Open(h, n) ==
    /\ open[h] = Closed
    /\ Emptied(n) \/ Found(n)
    /\ \/ \E r, w \in BOOLEAN :
             open' = [open EXCEPT ![h] = [name |-> n, off |-> 0, r |-> r, w |-> w]]
       \/ UNCHANGED open
    /\ got' = <<>>

Read(h, n) ==
    /\ open[h] # Closed
    /\ open[h].r
    /\ got' = Slice(content[open[h].name], open[h].off, n)
    /\ open' = [open EXCEPT ![h].off = @ + Len(got')]
    /\ UNCHANGED content

Write(h, s) ==
    /\ open[h] # Closed
    /\ open[h].w
    /\ content' = [content EXCEPT ![open[h].name] = Splice(@, open[h].off, s)]
    /\ open' = [open EXCEPT ![h].off = @ + Len(s)]
    /\ got' = <<>>

(***************************************************************************)
(* Descriptors come and go: some handles are closed, what they named and   *)
(* where the others stand does not change.                                 *)
(***************************************************************************)
Close(H) ==
    /\ open' = [h \in Handle |-> IF h \in H THEN Closed ELSE open[h]]
    /\ got' = <<>>
    /\ UNCHANGED content

Next ==
    \/ \E h \in Handle, n \in Name : Open(h, n)
    \/ \E h \in Handle, n \in Count : Read(h, n)
    \/ \E h \in Handle, s \in Buffer : Write(h, s)
    \/ \E H \in SUBSET Handle : Close(H)

Spec == Init /\ [][Next]_<<content, open, got>>

=============================================================================
