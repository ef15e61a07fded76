---------------------------- MODULE PrivateMemory ----------------------------
(***************************************************************************)
(* What the memory system promises a user program: the pages it can see    *)
(* are its own.  A process starts as a copy of the one that forked it, new *)
(* heap pages are zero, and only what it does itself while it runs changes *)
(* what it reads.                                                          *)
(*                                                                         *)
(* Memory shows that sharing frames copy-on-write keeps this promise.      *)
(***************************************************************************)
EXTENDS Integers

CONSTANTS Process,  \* slots of the process table
          Cell,     \* the user pages of an address space
          Content,  \* what a page may hold; 0 is a zeroed page
          NoPage,   \* nothing is mapped there; not a Content
          Boot      \* the first process

VARIABLES mem,      \* mem[p][c]: what process p reads at page c
          running   \* the process that runs, if any

Nothing == [c \in Cell |-> NoPage]

Image(C) == [c \in Cell |-> IF c \in C THEN 0 ELSE NoPage]

Init ==
    /\ running = Boot
    /\ \E C \in SUBSET Cell :
          mem = [p \in Process |-> IF p = Boot THEN Image(C) ELSE Nothing]

(***************************************************************************)
(* A store by the running process, or by the kernel on its behalf; a fresh *)
(* heap page appears with 0 or with what the kernel stores there at once.  *)
(***************************************************************************)
Store(c, v) == mem' = [mem EXCEPT ![running][c] = v]

Unmap(C) ==
    mem' = [mem EXCEPT ![running] = [c \in Cell |-> IF c \in C THEN NoPage ELSE @[c]]]

(***************************************************************************)
(* The child has no memory before it is born and its parent's after.       *)
(***************************************************************************)
Fork(child) ==
    /\ mem[child] = Nothing
    /\ mem' = [mem EXCEPT ![child] = mem[running]]

Exec(C) == mem' = [mem EXCEPT ![running] = Image(C)]

Free(p) == mem' = [mem EXCEPT ![p] = Nothing]

Access ==
    /\ running \in Process
    /\ \/ \E c \in Cell, v \in Content : Store(c, v)
       \/ \E C \in SUBSET Cell : Unmap(C) \/ Exec(C)
       \/ \E p \in Process \ {running} : Fork(p) \/ Free(p)
    /\ UNCHANGED running

(***************************************************************************)
(* Another process runs: nobody's memory changes.                          *)
(***************************************************************************)
Switch == running' # running /\ UNCHANGED mem

Next == Access \/ Switch

Spec == Init /\ [][Next]_<<mem, running>>

=============================================================================
