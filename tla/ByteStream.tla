----------------------------- MODULE ByteStream -----------------------------
(***************************************************************************)
(* What a pipe promises the programs that hold its ends: the bytes come    *)
(* out once each, in the order in which they were accepted; a write of at  *)
(* most Atomic bytes is accepted whole or not at all; end of file, a       *)
(* broken pipe and "try again" are said only when they are true.           *)
(*                                                                         *)
(* A byte is named by its writer and its number among the bytes accepted   *)
(* from that writer.  A program that is told "try again" offers the same   *)
(* bytes again.  PipeBytes shows that the ring buffer keeps this promise.  *)
(***************************************************************************)
EXTENDS Integers, Sequences

CONSTANTS Process,   \* those that may hold an end
          Capacity,  \* the bytes in transit at most
          Atomic,    \* the largest write that is never split
          Counts,    \* how many bytes a call may ask for
          EAGAIN, EPIPE

VARIABLES ends,      \* ends[p]: the ends p holds, a subset of {"r", "w"}
          chan,      \* the bytes in transit
          sent,      \* sent[p]: how many bytes of p were accepted
          answer     \* what the step just taken told a process, if anything

NoAnswer == [by |-> 0, want |-> 0, res |-> 0, data |-> <<>>]

Answer(p, want, res, data) == [by |-> p, want |-> want, res |-> res, data |-> data]

Open(e) == \E p \in Process : e \in ends[p]

Init ==
    /\ ends = [p \in Process |-> {}]
    /\ chan = <<>>
    /\ sent = [p \in Process |-> 0]
    /\ answer = NoAnswer

Accept(p, want, n) ==
    /\ "w" \in ends[p]
    /\ Open("r")
    /\ Len(chan) + n <= Capacity
    /\ want <= Atomic => n = want
    /\ chan' = chan \o [i \in 1 .. n |-> <<p, sent[p] + i>>]
    /\ sent' = [sent EXCEPT ![p] = @ + n]
    /\ answer' = Answer(p, want, n, <<>>)
    /\ UNCHANGED ends

Take(p, want, n) ==
    /\ "r" \in ends[p]
    /\ n <= Len(chan)
    /\ chan' = SubSeq(chan, n + 1, Len(chan))
    /\ answer' = Answer(p, want, n, SubSeq(chan, 1, n))
    /\ UNCHANGED <<ends, sent>>

(***************************************************************************)
(* Answers that move no byte.                                              *)
(***************************************************************************)
EndOfFile(p, want) ==
    /\ "r" \in ends[p]
    /\ chan = <<>>
    /\ ~Open("w")
    /\ answer' = Answer(p, want, 0, <<>>)

Nothing(p, want) ==
    /\ ends[p] # {}
    /\ want = 0
    /\ answer' = Answer(p, 0, 0, <<>>)

Broken(p, want) ==
    /\ "w" \in ends[p]
    /\ ~Open("r")
    /\ answer' = Answer(p, want, EPIPE, <<>>)

TryAgain(p, want) ==
    /\ \/ "r" \in ends[p] /\ Open("w") /\ chan = <<>>
       \/ "w" \in ends[p] /\ Open("r") /\ Len(chan) + want > Capacity
    /\ answer' = Answer(p, want, EAGAIN, <<>>)

(***************************************************************************)
(* A new pipe when nobody holds an end of one; a child that inherits; an   *)
(* end let go, and with the last one what was in transit.                  *)
(***************************************************************************)
Create(p) ==
    /\ \A q \in Process : ends[q] = {}
    /\ ends' = [ends EXCEPT ![p] = {"r", "w"}]
    /\ UNCHANGED chan

Share(p, child) ==
    /\ ends[child] = {}
    /\ ends' = [ends EXCEPT ![child] = ends[p]]
    /\ UNCHANGED chan

Close(p, e) ==
    /\ ends' = [ends EXCEPT ![p] = @ \ {e}]
    /\ chan' = IF \A q \in Process : ends'[q] = {} THEN <<>> ELSE chan

Quiet == answer' = NoAnswer /\ UNCHANGED <<ends, chan, sent>>

Next ==
    \/ \E p \in Process, want \in Counts :
          \/ \E n \in 1 .. want : Accept(p, want, n) \/ Take(p, want, n)
          \/ /\ \/ EndOfFile(p, want) \/ Broken(p, want)
                \/ TryAgain(p, want) \/ Nothing(p, want)
             /\ UNCHANGED <<ends, chan, sent>>
    \/ /\ \E p \in Process :
             \/ Create(p)
             \/ \E q \in Process : Share(p, q)
             \/ \E e \in {"r", "w"} : Close(p, e)
       /\ answer' = NoAnswer
       /\ UNCHANGED sent
    \/ Quiet

Spec == Init /\ [][Next]_<<ends, chan, sent, answer>>

=============================================================================
