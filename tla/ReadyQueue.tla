----------------------------- MODULE ReadyQueue -----------------------------
(***************************************************************************)
(* The ready queue of kernel/scheduler.c as a value.                       *)
(*                                                                         *)
(* The code keeps a singly linked list threaded through process::next.     *)
(* Here it is a sequence q of process slots, and dyn maps every slot to    *)
(* its dynamic_priority.  A list that is linked twice through one process  *)
(* is not a sequence; QueueIsReady of the modules that use the queue       *)
(* (enqueue only ever meets a process that is not queued) is what makes    *)
(* the two views agree.                                                    *)
(***************************************************************************)
EXTENDS Integers, Sequences

CONSTANTS PROCESS_DEFAULT_PRIORITY,  \* 1 in include/process.h
          PROCESS_MAX_PRIORITY       \* 16 in include/process.h

ASSUME PriorityAssumption ==
    /\ PROCESS_DEFAULT_PRIORITY \in Nat \ {0}
    /\ PROCESS_MAX_PRIORITY \in Nat
    /\ PROCESS_DEFAULT_PRIORITY <= PROCESS_MAX_PRIORITY

Priority == 1 .. PROCESS_MAX_PRIORITY

(***************************************************************************)
(* The slots on the list, and that no slot is on it twice.                 *)
(***************************************************************************)
Queued(q) == {q[i] : i \in DOMAIN q}

NoRepeat(q) == \A i, j \in DOMAIN q : q[i] = q[j] => i = j

(***************************************************************************)
(* enqueue: walk to the tail and link the process there.  (The branch for  *)
(* a dynamic_priority of 0 is dead for a process of the table: it gets its *)
(* priority before the first enqueue, and it is never lowered below 1.     *)
(* Tasks meets it, for a task that is not of the table.)                   *)
(***************************************************************************)
Enqueue(q, p) == Append(q, p)

(***************************************************************************)
(* find_best_ready: the scan keeps the first process of the strictly       *)
(* greatest dynamic_priority, so ties go to the one queued longest.        *)
(***************************************************************************)
IsBestNewest(q, dyn, i) ==
    /\ \A j \in DOMAIN q : dyn[q[j]] <= dyn[q[i]]
    /\ \A j \in DOMAIN q : j > i => dyn[q[j]] < dyn[q[i]]

IsBest(q, dyn, i) ==
    /\ \A j \in DOMAIN q : dyn[q[j]] <= dyn[q[i]]
    /\ \A j \in DOMAIN q : j < i => dyn[q[j]] < dyn[q[i]]

BestIndex(q, dyn) == CHOOSE i \in DOMAIN q : IsBest(q, dyn, i)

find_best_ready(q, dyn) == q[BestIndex(q, dyn)]

(***************************************************************************)
(* Unlinking the process at position i.                                    *)
(***************************************************************************)
Unlink(q, i) == [j \in 1 .. Len(q) - 1 |-> IF j < i THEN q[j] ELSE q[j + 1]]

(***************************************************************************)
(* dequeue_best: what is left of the queue.                                *)
(***************************************************************************)
DequeueStaysLinked(q, dyn) == q

dequeue_best(q, dyn) == Unlink(q, BestIndex(q, dyn))

(***************************************************************************)
(* scheduler_remove: unlink the first occurrence of p, if there is one.    *)
(***************************************************************************)
IndexOf(q, p) == CHOOSE i \in DOMAIN q : q[i] = p

scheduler_remove(q, p) ==
    IF p \in Queued(q) THEN Unlink(q, IndexOf(q, p)) ELSE q

(***************************************************************************)
(* age_ready_queue: every waiting process gains one, up to the maximum.    *)
(***************************************************************************)
AgeUncapped(q, dyn) ==
    [p \in DOMAIN dyn |-> IF p \in Queued(q) THEN dyn[p] + 1 ELSE dyn[p]]

AgeNobody(q, dyn) == dyn

age_ready_queue(q, dyn) ==
    [p \in DOMAIN dyn |->
        IF p \in Queued(q) /\ dyn[p] < PROCESS_MAX_PRIORITY
        THEN dyn[p] + 1
        ELSE dyn[p]]

=============================================================================
