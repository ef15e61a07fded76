---------------------------- MODULE Kernel_proofs ----------------------------
(***************************************************************************)
(* The scheduling core of Kernel, proved for every number of processes,    *)
(* stacks, descriptors and pipes, every set of system calls and every      *)
(* setting of preemption.                                                  *)
(*                                                                         *)
(* SchedInv is inductive: the ready queue and the current process can only *)
(* be kept in step with the process table together, and both need the      *)
(* frames (whatever is queued can be resumed) and that a process on its    *)
(* way out is a zombie by the time the scheduler leaves it.                *)
(***************************************************************************)
EXTENDS Kernel, SequenceTheorems, FiniteSetTheorems, WellFoundedInduction, TLAPS

-----------------------------------------------------------------------------
(* What the operators of the ready queue do to its content, for every      *)
(* queue: the only facts about sequences that the proofs about the kernel  *)
(* use.                                                                    *)

(* A non-empty set of naturals has a least element. *)
LEMMA LeastNat ==
    ASSUME NEW S, S \subseteq Nat, S # {}
    PROVE  \E x \in S : \A y \in S : x <= y
<1>. DEFINE R == {ss \in Nat \X Nat : ss[1] < ss[2]}
<1>1. PICK x \in S : \A y \in S : ~ (<<y, x>> \in R)
  <2>1. IsWellFoundedOn(R, Nat)
    BY NatLessThanWellFounded, Zenon DEF OpToRel
  <2>. HIDE DEF R
  <2>. QED BY <2>1, WFMin
<1>2. \A y \in S : ~ (y < x)
  BY <1>1
<1>. QED BY <1>2

(* enqueue links the process behind the others, and keeps the list simple   *)
(* if the process was not on it.                                            *)
LEMMA EnqueueFacts ==
    ASSUME NEW S, NEW q \in Seq(S), NEW p \in S
    PROVE  /\ Enqueue(q, p) \in Seq(S)
           /\ Queued(Enqueue(q, p)) = Queued(q) \cup {p}
           /\ NoRepeat(q) /\ p \notin Queued(q) => NoRepeat(Enqueue(q, p))
<1>1. /\ Enqueue(q, p) \in Seq(S)
      /\ Len(Enqueue(q, p)) = Len(q) + 1
      /\ \A i \in 1 .. Len(q) : Enqueue(q, p)[i] = q[i]
      /\ Enqueue(q, p)[Len(q) + 1] = p
  BY AppendProperties DEF Enqueue
<1>2. /\ DOMAIN q = 1 .. Len(q)
      /\ DOMAIN Enqueue(q, p) = 1 .. Len(q) + 1
      /\ Len(q) \in Nat
  BY <1>1, LenProperties
<1>3. Queued(Enqueue(q, p)) = Queued(q) \cup {p}
  BY <1>1, <1>2 DEF Queued
<1>4. ASSUME NoRepeat(q), p \notin Queued(q) PROVE NoRepeat(Enqueue(q, p))
  BY <1>1, <1>2, <1>4 DEF NoRepeat, Queued
<1>. QED BY <1>1, <1>3, <1>4

(* Unlinking one process of a list that is simple takes away that process   *)
(* and no other.                                                            *)
LEMMA UnlinkFacts ==
    ASSUME NEW S, NEW q \in Seq(S), NEW i \in DOMAIN q
    PROVE  /\ Unlink(q, i) \in Seq(S)
           /\ q[i] \in S
           /\ NoRepeat(q) => /\ NoRepeat(Unlink(q, i))
                             /\ Queued(Unlink(q, i)) = Queued(q) \ {q[i]}
<1>. DEFINE n == Len(q)
            u == Unlink(q, i)
<1>1. n \in Nat /\ DOMAIN q = 1 .. n /\ \A j \in 1 .. n : q[j] \in S
  BY LenProperties, ElementOfSeq
<1>2. DOMAIN u = 1 .. n - 1 /\ n - 1 \in Nat /\ n \in Nat \ {0}
  BY <1>1 DEF Unlink
<1>3. \A j \in 1 .. n - 1 : u[j] = IF j < i THEN q[j] ELSE q[j + 1]
  BY DEF Unlink
<1>4. u \in Seq(S)
  <2>1. u \in [1 .. n - 1 -> S]
    BY <1>1, <1>2, <1>3 DEF Unlink
  <2>. QED BY <2>1, <1>2, SeqDef
<1>5. ASSUME NoRepeat(q) PROVE NoRepeat(u)
  BY <1>1, <1>2, <1>3, <1>5 DEF NoRepeat
<1>6. ASSUME NoRepeat(q) PROVE Queued(u) = Queued(q) \ {q[i]}
  <2>1. ASSUME NEW x \in Queued(u) PROVE x \in Queued(q) \ {q[i]}
    <3>1. PICK j \in 1 .. n - 1 : x = u[j]
      BY <1>2, <2>1 DEF Queued
    <3>2. CASE j < i
      BY <1>1, <1>2, <1>3, <1>6, <3>1, <3>2 DEF Queued, NoRepeat
    <3>3. CASE ~(j < i)
      BY <1>1, <1>2, <1>3, <1>6, <3>1, <3>3 DEF Queued, NoRepeat
    <3>. QED BY <3>2, <3>3
  <2>2. ASSUME NEW x \in Queued(q) \ {q[i]} PROVE x \in Queued(u)
    <3>1. PICK j \in 1 .. n : x = q[j]
      BY <1>1, <2>2 DEF Queued
    <3>2. CASE j < i
      <4>1. j \in 1 .. n - 1 /\ u[j] = x
        BY <1>1, <1>3, <3>1, <3>2
      <4>. QED BY <1>2, <4>1 DEF Queued
    <3>3. CASE ~(j < i)
      <4>1. j - 1 \in 1 .. n - 1 /\ u[j - 1] = x
        <5>1. j # i
          BY <2>2, <3>1
        <5>2. j - 1 \in 1 .. n - 1 /\ ~(j - 1 < i) /\ (j - 1) + 1 = j
          BY <1>1, <3>1, <3>3, <5>1
        <5>. QED BY <1>3, <3>1, <5>2
      <4>. QED BY <1>2, <4>1 DEF Queued
    <3>. QED BY <3>2, <3>3
  <2>. QED BY <2>1, <2>2
<1>. QED BY <1>1, <1>4, <1>5, <1>6

(* On a list that is not empty find_best_ready finds a process, and it is   *)
(* one of the greatest dynamic priority.                                    *)
LEMMA BestIndexFacts ==
    ASSUME NEW S, NEW q \in Seq(S), q # <<>>, NEW pri \in [S -> Nat],
           \A p \in S : pri[p] <= PROCESS_MAX_PRIORITY
    PROVE  BestIndex(q, pri) \in DOMAIN q /\ IsBest(q, pri, BestIndex(q, pri))
<1>. DEFINE D == DOMAIN q
            Gap(j) == PROCESS_MAX_PRIORITY - pri[q[j]]
<1>1. /\ D = 1 .. Len(q) /\ Len(q) \in Nat \ {0}
      /\ \A j \in D : q[j] \in S /\ pri[q[j]] \in Nat /\ Gap(j) \in Nat
  BY LenProperties, ElementOfSeq, EmptySeq, PriorityAssumption
<1>2. PICK g \in {Gap(j) : j \in D} : \A h \in {Gap(j) : j \in D} : g <= h
  <2>1. {Gap(j) : j \in D} \subseteq Nat /\ {Gap(j) : j \in D} # {}
    BY <1>1
  <2>. HIDE DEF Gap, D
  <2>. QED BY <2>1, LeastNat
<1>3. PICK i \in {j \in D : Gap(j) = g} : \A k \in {j \in D : Gap(j) = g} : i <= k
  <2>1. {j \in D : Gap(j) = g} \subseteq Nat /\ {j \in D : Gap(j) = g} # {}
    BY <1>1, <1>2
  <2>. HIDE DEF Gap, D
  <2>. QED BY <2>1, LeastNat
<1>4. \A j \in D : pri[q[j]] <= pri[q[i]]
  <2>1. TAKE j \in D
  <2>2. Gap(i) <= Gap(j)
    BY <1>2, <1>3
  <2>. QED BY <1>1, <1>3, <2>2, PriorityAssumption
<1>5. \A j \in D : j < i => pri[q[j]] < pri[q[i]]
  <2>1. SUFFICES ASSUME NEW j \in D, j < i PROVE pri[q[j]] # pri[q[i]]
    BY <1>1, <1>3, <1>4
  <2>2. Gap(j) # g
    BY <1>1, <1>3, <2>1
  <2>. QED BY <1>3, <2>2
<1>6. i \in DOMAIN q /\ IsBest(q, pri, i)
  BY <1>3, <1>4, <1>5 DEF IsBest
<1>. QED BY <1>6 DEF BestIndex

(* dequeue_best takes off the process find_best_ready names.                *)
LEMMA DequeueFacts ==
    ASSUME NEW S, NEW q \in Seq(S), q # <<>>, NEW pri \in [S -> Nat],
           \A p \in S : pri[p] <= PROCESS_MAX_PRIORITY
    PROVE  /\ find_best_ready(q, pri) \in S
           /\ find_best_ready(q, pri) \in Queued(q)
           /\ dequeue_best(q, pri) \in Seq(S)
           /\ NoRepeat(q) =>
                /\ NoRepeat(dequeue_best(q, pri))
                /\ Queued(dequeue_best(q, pri)) =
                      Queued(q) \ {find_best_ready(q, pri)}
<1>1. BestIndex(q, pri) \in DOMAIN q
  BY BestIndexFacts
<1>. QED BY <1>1, UnlinkFacts DEF find_best_ready, dequeue_best, Queued

(* scheduler_remove leaves a process off the list and the others on it.     *)
LEMMA RemoveFacts ==
    ASSUME NEW S, NEW q \in Seq(S), NEW p \in S, NoRepeat(q)
    PROVE  /\ scheduler_remove(q, p) \in Seq(S)
           /\ NoRepeat(scheduler_remove(q, p))
           /\ Queued(scheduler_remove(q, p)) = Queued(q) \ {p}
<1>1. CASE p \notin Queued(q)
  BY <1>1 DEF scheduler_remove
<1>2. CASE p \in Queued(q)
  <2>1. IndexOf(q, p) \in DOMAIN q /\ q[IndexOf(q, p)] = p
    BY <1>2 DEF IndexOf, Queued
  <2>. QED BY <1>2, <2>1, UnlinkFacts DEF scheduler_remove
<1>. QED BY <1>1, <1>2

(* Aging raises priorities, never past the maximum.                         *)
LEMMA AgeFacts ==
    ASSUME NEW S, NEW q, NEW pri \in [S -> Nat],
           \A p \in S : pri[p] <= PROCESS_MAX_PRIORITY
    PROVE  /\ age_ready_queue(q, pri) \in [S -> Nat]
           /\ \A p \in S : age_ready_queue(q, pri)[p] <= PROCESS_MAX_PRIORITY
BY PriorityAssumption DEF age_ready_queue

-----------------------------------------------------------------------------
(* Table scans *)

(* Lowest returns a member of a set of slots, or 0 if there is none.        *)
LEMMA LowestFacts ==
    ASSUME NEW S, S \subseteq Nat
    PROVE  /\ S = {} => Lowest(S) = 0
           /\ S # {} => Lowest(S) \in S
<1>1. CASE S = {}
  BY <1>1 DEF Lowest
<1>2. CASE S # {}
  <2>1. \E x \in S : \A y \in S : x <= y
    BY <1>2, LeastNat
  <2>. QED BY <1>2, <2>1 DEF Lowest
<1>. QED BY <1>1, <1>2

SchedType ==
    /\ state \in [Slot -> ProcessState]
    /\ intr \in [Slot -> BOOLEAN]
    /\ dyn \in [Slot -> 0 .. PROCESS_MAX_PRIORITY]
    /\ queue \in Seq(Slot)
    /\ cur \in Slot
    /\ esp \in Slot \cup {0}

(* process_mark_exit has made the process a zombie before the scheduler     *)
(* leaves it.                                                               *)
StoppedIsZombie == pc = "stop" => state[cur] = "ZOMBIE"

SchedInv ==
    /\ SchedType
    /\ RunningIsCurrent
    /\ QueueIsReady
    /\ ResumableFrames
    /\ StoppedIsZombie

(* The process the table scan finds RUNNING is the scheduler's current.     *)
LEMMA MeIsCur ==
    ASSUME SchedType, RunningIsCurrent, state[cur] = "RUNNING"
    PROVE  Me = cur
<1>. DEFINE R == {p \in Slot : state[p] = "RUNNING"}
<1>1. R = {cur}
  BY DEF RunningIsCurrent, SchedType
<1>2. R \subseteq Nat
  BY DEF Slot
<1>3. Lowest(R) \in R
  BY <1>1, <1>2, LowestFacts
<1>. QED BY <1>1, <1>3 DEF Me, process_get_current

(* process_wake_pipe_waiter only ever picks a BLOCKED process.              *)
LEMMA WaiterFacts ==
    ASSUME SchedType, NEW q, NEW why
    PROVE  /\ Waiter(q, why) \in Slot \cup {0}
           /\ Waiter(q, why) # 0 => state[Waiter(q, why)] = "BLOCKED"
<1>. DEFINE W == {p \in Slot : /\ state[p] = "BLOCKED"
                               /\ blk[p].why = why
                               /\ fds[p][blk[p].arg].pipe = q}
<1>1. W \subseteq Nat
  BY DEF Slot
<1>2. Lowest(W) = 0 \/ Lowest(W) \in W
  BY <1>1, LowestFacts
<1>3. Waiter(q, why) = Lowest(W)
  BY DEF Waiter
<1>. HIDE DEF W
<1>4. CASE Lowest(W) = 0
  BY <1>3, <1>4
<1>5. CASE Lowest(W) \in W
  BY <1>3, <1>5 DEF W
<1>. QED BY <1>2, <1>4, <1>5

-----------------------------------------------------------------------------
(* The moves of the scheduler *)

(* Waking a BLOCKED process puts it on the queue and changes nobody else.   *)
LEMMA WakeFacts ==
    ASSUME SchedType, QueueIsReady, NEW w \in Slot \cup {0},
           w # 0 => state[w] = "BLOCKED",
           scheduler_wake(w)
    PROVE  /\ state' \in [Slot -> ProcessState]
           /\ queue' \in Seq(Slot)
           /\ QueueIsReady'
           /\ \A p \in Slot : state'[p] = IF p = w THEN "READY" ELSE state[p]
<1>1. 0 \notin Slot
  BY DEF Slot
<1>2. CASE w = 0
  BY <1>1, <1>2 DEF scheduler_wake, SchedType, QueueIsReady
<1>3. CASE w \in Slot
  <2>1. /\ state' = [state EXCEPT ![w] = "READY"]
        /\ queue' = Enqueue(queue, w)
        /\ state[w] = "BLOCKED"
    BY <1>1, <1>3 DEF scheduler_wake
  <2>2. w \notin Queued(queue)
    BY <1>3, <2>1 DEF QueueIsReady, SchedType
  <2>3. /\ queue' \in Seq(Slot)
        /\ Queued(queue') = Queued(queue) \cup {w}
        /\ NoRepeat(queue')
    <3>1. queue \in Seq(Slot) /\ NoRepeat(queue)
      BY DEF QueueIsReady, SchedType
    <3>2. /\ Enqueue(queue, w) \in Seq(Slot)
          /\ Queued(Enqueue(queue, w)) = Queued(queue) \cup {w}
          /\ NoRepeat(Enqueue(queue, w))
      BY <1>3, <2>2, <3>1, EnqueueFacts
    <3>. QED BY <2>1, <3>2
  <2>4. /\ state' \in [Slot -> ProcessState]
        /\ \A p \in Slot : state'[p] = IF p = w THEN "READY" ELSE state[p]
    BY <1>3, <2>1 DEF SchedType, ProcessState
  <2>. QED BY <1>3, <2>3, <2>4 DEF QueueIsReady, SchedType
<1>. QED BY <1>2, <1>3

(* What a queue that is not empty has to offer.                             *)
LEMMA NextFacts ==
    ASSUME SchedType, QueueIsReady, ResumableFrames, queue # <<>>
    PROVE  /\ Next1 \in Slot
           /\ state[Next1] = "READY"
           /\ intr[Next1]
           /\ HasNext
           /\ dequeue_best(queue, dyn) \in Seq(Slot)
           /\ NoRepeat(dequeue_best(queue, dyn))
           /\ Queued(dequeue_best(queue, dyn)) = Queued(queue) \ {Next1}
<1>1. dyn \in [Slot -> Nat] /\ \A p \in Slot : dyn[p] <= PROCESS_MAX_PRIORITY
  BY PriorityAssumption DEF SchedType
<1>2. /\ Next1 \in Slot
      /\ Next1 \in Queued(queue)
      /\ dequeue_best(queue, dyn) \in Seq(Slot)
      /\ NoRepeat(dequeue_best(queue, dyn))
      /\ Queued(dequeue_best(queue, dyn)) = Queued(queue) \ {Next1}
  BY <1>1, DequeueFacts DEF SchedType, QueueIsReady, Next1
<1>3. state[Next1] = "READY"
  BY <1>2 DEF QueueIsReady
<1>. QED BY <1>2, <1>3 DEF HasNext, ResumableFrames

(* Dispatch keeps the types it touches.                                     *)
LEMMA DispatchFacts ==
    ASSUME SchedType, NEW rest \in Seq(Slot), NEW n \in Slot,
           Dispatch(rest, n)
    PROVE  /\ queue' = rest
           /\ cur' = n
           /\ esp' = n
           /\ dyn' \in [Slot -> 0 .. PROCESS_MAX_PRIORITY]
           /\ tss' = kstack[n]
<1>1. dyn \in [Slot -> Nat] /\ \A p \in Slot : dyn[p] <= PROCESS_MAX_PRIORITY
  BY PriorityAssumption DEF SchedType
<1>2. /\ age_ready_queue(rest, dyn) \in [Slot -> Nat]
      /\ \A p \in Slot : age_ready_queue(rest, dyn)[p] <= PROCESS_MAX_PRIORITY
  BY <1>1, AgeFacts
<1>3. dyn' = [age_ready_queue(rest, dyn) EXCEPT ![n] = PROCESS_DEFAULT_PRIORITY]
  BY DEF Dispatch
<1>4. dyn' \in [Slot -> 0 .. PROCESS_MAX_PRIORITY]
  BY <1>2, <1>3, PriorityAssumption
<1>. QED BY <1>4 DEF Dispatch

-----------------------------------------------------------------------------
(* SchedInv, one lemma per kind of step *)

(* In user mode the current process runs and is the one the table names.    *)
LEMMA UserFacts ==
    ASSUME SchedInv, pc = "user"
    PROVE  cur \in Slot /\ state[cur] = "RUNNING" /\ esp = cur /\ Me = cur
<1>1. cur \in Slot /\ state[cur] = "RUNNING" /\ esp = cur
  BY DEF SchedInv, SchedType, RunningIsCurrent
<1>. QED BY <1>1, MeIsCur DEF SchedInv

(* A step that leaves the table and the queue alone, and may only record    *)
(* that the running process is in a trap.                                   *)
LEMMA QuietStep ==
    ASSUME SchedInv, state[cur] = "RUNNING",
           UNCHANGED <<state, queue, dyn, cur>>,
           intr' = intr \/ intr' = [intr EXCEPT ![cur] = TRUE],
           pc' # "stop", esp' = cur
    PROVE  SchedInv'
<1>1. SchedType' /\ ResumableFrames'
  BY DEF SchedInv, SchedType, ResumableFrames
<1>2. RunningIsCurrent'
  BY DEF SchedInv, RunningIsCurrent
<1>3. QueueIsReady'
  BY DEF SchedInv, QueueIsReady
<1>4. StoppedIsZombie'
  BY DEF StoppedIsZombie
<1>. QED BY <1>1, <1>2, <1>3, <1>4 DEF SchedInv

(* The running process makes a wake-up and goes on.                         *)
LEMMA WakeStep ==
    ASSUME SchedInv, state[cur] = "RUNNING",
           NEW w \in Slot \cup {0}, w # 0 => state[w] = "BLOCKED",
           scheduler_wake(w),
           UNCHANGED <<dyn, cur>>,
           intr' = intr \/ intr' = [intr EXCEPT ![cur] = TRUE],
           pc' # "stop", esp' \in Slot \cup {0},
           pc' \in {"reap", "user", "deliver", "resume"} => esp' = cur
    PROVE  SchedInv'
<1>1. /\ state' \in [Slot -> ProcessState]
      /\ queue' \in Seq(Slot)
      /\ QueueIsReady'
      /\ \A p \in Slot : state'[p] = IF p = w THEN "READY" ELSE state[p]
  BY WakeFacts DEF SchedInv
<1>2. SchedType'
  BY <1>1 DEF SchedInv, SchedType
<1>3. RunningIsCurrent'
  <2>1. w # cur /\ cur \in Slot /\ 0 \notin Slot
    BY DEF SchedInv, SchedType, Slot
  <2>. QED BY <1>1, <2>1 DEF SchedInv, RunningIsCurrent
<1>4. ResumableFrames'
  <2>1. \A p \in Slot : intr[p] => intr'[p]
    BY DEF SchedInv, SchedType
  <2>2. \A p \in Slot : state'[p] \in {"READY", "BLOCKED"} =>
                            state[p] \in {"READY", "BLOCKED"}
    BY <1>1 DEF Slot
  <2>. QED BY <2>1, <2>2 DEF SchedInv, ResumableFrames
<1>5. StoppedIsZombie'
  BY DEF StoppedIsZombie
<1>. QED BY <1>1, <1>2, <1>3, <1>4, <1>5 DEF SchedInv

(* The CPU goes from cur, which becomes s, to the best ready process.       *)
LEMMA SwitchStep ==
    ASSUME SchedInv, queue # <<>>, NEW s \in {"BLOCKED", "ZOMBIE"},
           state[cur] \in {"RUNNING", s},
           state' = [state EXCEPT ![cur] = s, ![Next1] = "RUNNING"],
           intr' = [intr EXCEPT ![cur] = TRUE],
           Dispatch(dequeue_best(queue, dyn), Next1),
           pc' \in {"deliver", "resume"}
    PROVE  SchedInv'
<1>1. /\ Next1 \in Slot /\ state[Next1] = "READY" /\ intr[Next1]
      /\ dequeue_best(queue, dyn) \in Seq(Slot)
      /\ NoRepeat(dequeue_best(queue, dyn))
      /\ Queued(dequeue_best(queue, dyn)) = Queued(queue) \ {Next1}
  BY NextFacts DEF SchedInv
<1>2. /\ queue' = dequeue_best(queue, dyn)
      /\ cur' = Next1
      /\ esp' = Next1
      /\ dyn' \in [Slot -> 0 .. PROCESS_MAX_PRIORITY]
  BY <1>1, DispatchFacts DEF SchedInv
<1>3. cur \in Slot /\ cur # Next1
  BY <1>1 DEF SchedInv, SchedType
<1>4. \A p \in Slot : state'[p] = IF p = Next1 THEN "RUNNING"
                                  ELSE IF p = cur THEN s ELSE state[p]
  BY <1>1, <1>3 DEF SchedInv, SchedType
<1>5. SchedType'
  <2>1. state' \in [Slot -> ProcessState]
    BY <1>1, <1>3 DEF SchedInv, SchedType, ProcessState
  <2>2. intr' \in [Slot -> BOOLEAN]
    BY DEF SchedInv, SchedType
  <2>. QED BY <1>1, <1>2, <2>1, <2>2 DEF SchedType
<1>6. RunningIsCurrent'
  BY <1>1, <1>2, <1>3, <1>4 DEF SchedInv, RunningIsCurrent
<1>7. QueueIsReady'
  <2>1. s # "READY" /\ state[cur] # "READY"
    OBVIOUS
  <2>2. \A p \in Slot : state'[p] = "READY" <=> (state[p] = "READY" /\ p # Next1)
    <3>1. TAKE p \in Slot
    <3>2. CASE p = Next1
      <4>1. state'[p] = "RUNNING"
        BY <1>4, <3>2
      <4>. QED BY <3>2, <4>1, Zenon
    <3>3. CASE p = cur
      BY <1>3, <1>4, <2>1, <3>3
    <3>4. CASE p # Next1 /\ p # cur
      BY <1>4, <3>4
    <3>. QED BY <3>2, <3>3, <3>4
  <2>. QED BY <1>1, <1>2, <2>2 DEF SchedInv, QueueIsReady
<1>8. ResumableFrames'
  BY <1>3, <1>4 DEF SchedInv, SchedType, ResumableFrames
<1>9. StoppedIsZombie'
  BY DEF StoppedIsZombie
<1>. QED BY <1>5, <1>6, <1>7, <1>8, <1>9 DEF SchedInv

(* A process blocks: the CPU goes on, or comes back at once.                *)
LEMMA BlockStep ==
    ASSUME SchedInv, pc = "user", NEW b, BlockCurrent(b)
    PROVE  SchedInv'
<1>1. cur \in Slot /\ state[cur] = "RUNNING" /\ esp = cur /\ Me = cur
  BY UserFacts
<1>2. pc' = "deliver" /\ intr' = [intr EXCEPT ![cur] = TRUE]
  BY <1>1 DEF BlockCurrent
<1>3. CASE queue # <<>>
  <2>1. HasNext
    BY <1>3, NextFacts DEF SchedInv
  <2>2. /\ state' = [state EXCEPT ![cur] = "BLOCKED", ![Next1] = "RUNNING"]
        /\ Dispatch(dequeue_best(queue, dyn), Next1)
    BY <2>1 DEF BlockCurrent
  <2>. QED BY <1>1, <1>2, <1>3, <2>2, SwitchStep
<1>4. CASE queue = <<>>
  <2>1. ~HasNext /\ PutBack = queue
    BY <1>4 DEF HasNext, PutBack
  <2>2. UNCHANGED <<state, queue, dyn, cur>> /\ esp' = cur
    BY <2>1 DEF BlockCurrent
  <2>. QED BY <1>1, <1>2, <2>2, QuietStep
<1>. QED BY <1>3, <1>4

(* Leaving the slots of D dead when all of them are zombies and none is     *)
(* the one that runs.                                                       *)
LEMMA DestroyStep ==
    ASSUME SchedInv, state[cur] = "RUNNING",
           NEW D \in SUBSET Slot, \A p \in D : state[p] = "ZOMBIE",
           process_destroy(D),
           intr' \in [Slot -> BOOLEAN],
           \A p \in Slot : p \notin D /\ intr[p] => intr'[p],
           UNCHANGED <<queue, cur>>,
           pc' \in {"deliver", "user"}, esp' = cur
    PROVE  SchedInv'
<1>1. \A p \in Slot : state'[p] = IF p \in D THEN "DEAD" ELSE state[p]
  BY DEF process_destroy
<1>2. cur \notin D /\ cur \in Slot
  BY DEF SchedInv, SchedType
<1>3. SchedType'
  <2>1. state' \in [Slot -> ProcessState]
    BY DEF process_destroy, SchedInv, SchedType, ProcessState
  <2>2. dyn' \in [Slot -> 0 .. PROCESS_MAX_PRIORITY]
    BY PriorityAssumption DEF process_destroy, SchedInv, SchedType
  <2>. QED BY <1>2, <2>1, <2>2 DEF SchedInv, SchedType
<1>4. RunningIsCurrent'
  BY <1>1, <1>2 DEF SchedInv, RunningIsCurrent
<1>5. QueueIsReady'
  <2>1. \A p \in Slot : state'[p] = "READY" <=> state[p] = "READY"
    BY <1>1
  <2>. QED BY <2>1 DEF SchedInv, QueueIsReady
<1>6. ResumableFrames'
  BY <1>1 DEF SchedInv, ResumableFrames
<1>7. StoppedIsZombie'
  BY DEF StoppedIsZombie
<1>. QED BY <1>3, <1>4, <1>5, <1>6, <1>7 DEF SchedInv

(* SYS_FORK: the child is queued once, with a frame.                        *)
LEMMA ForkSched ==
    ASSUME SchedInv, Fork
    PROVE  SchedInv'
<1>. DEFINE child == Lowest({p \in Slot : state[p] = "DEAD"})
<1>1. pc = "user"
  BY DEF Fork, Syscall
<1>2. cur \in Slot /\ state[cur] = "RUNNING" /\ esp = cur /\ Me = cur
  BY <1>1, UserFacts
<1>3. child \in Slot /\ state[child] = "DEAD"
  <2>. DEFINE Z == {p \in Slot : state[p] = "DEAD"}
  <2>1. Z \subseteq Nat
    BY DEF Slot
  <2>2. Lowest(Z) = 0 \/ Lowest(Z) \in Z
    BY <2>1, LowestFacts
  <2>3. Lowest(Z) # 0
    BY DEF Fork
  <2>. HIDE DEF Z
  <2>4. Lowest(Z) \in Z
    BY <2>2, <2>3
  <2>. QED BY <2>4 DEF Z
<1>4. /\ state' = [state EXCEPT ![child] = "READY"]
      /\ queue' = Enqueue(queue, child)
      /\ dyn' = [dyn EXCEPT ![child] = PROCESS_DEFAULT_PRIORITY]
      /\ intr' = [intr EXCEPT ![child] = TRUE, ![cur] = TRUE]
      /\ pc' = "deliver"
      /\ esp' = cur
      /\ cur' = cur
  BY <1>2 DEF Fork, ForkFrames
<1>. HIDE DEF child
<1>5. child # cur /\ child \notin Queued(queue)
  BY <1>2, <1>3 DEF SchedInv, QueueIsReady
<1>6. /\ Enqueue(queue, child) \in Seq(Slot)
      /\ Queued(Enqueue(queue, child)) = Queued(queue) \cup {child}
      /\ NoRepeat(Enqueue(queue, child))
  <2>1. queue \in Seq(Slot) /\ NoRepeat(queue)
    BY DEF SchedInv, QueueIsReady, SchedType
  <2>. QED BY <1>3, <1>5, <2>1, EnqueueFacts
<1>7. \A p \in Slot : state'[p] = IF p = child THEN "READY" ELSE state[p]
  BY <1>3, <1>4 DEF SchedInv, SchedType
<1>8. SchedType'
  <2>1. state' \in [Slot -> ProcessState]
    BY <1>4 DEF SchedInv, SchedType, ProcessState
  <2>2. dyn' \in [Slot -> 0 .. PROCESS_MAX_PRIORITY]
    <3>1. PROCESS_DEFAULT_PRIORITY \in 0 .. PROCESS_MAX_PRIORITY
      BY PriorityAssumption
    <3>. QED BY <1>4, <3>1 DEF SchedInv, SchedType
  <2>3. intr' \in [Slot -> BOOLEAN]
    BY <1>4 DEF SchedInv, SchedType
  <2>. QED BY <1>2, <1>4, <1>6, <2>1, <2>2, <2>3 DEF SchedType
<1>9. RunningIsCurrent'
  BY <1>2, <1>4, <1>5, <1>7 DEF SchedInv, RunningIsCurrent
<1>10. QueueIsReady'
  BY <1>3, <1>4, <1>6, <1>7 DEF SchedInv, QueueIsReady
<1>11. ResumableFrames'
  <2>1. \A p \in Slot : p = child \/ intr[p] => intr'[p]
    BY <1>3, <1>4 DEF SchedInv, SchedType
  <2>. QED BY <1>7, <2>1 DEF SchedInv, ResumableFrames
<1>12. StoppedIsZombie'
  BY <1>4 DEF StoppedIsZombie
<1>. QED BY <1>8, <1>9, <1>10, <1>11, <1>12 DEF SchedInv

(* process_mark_exit: the exiting process was running, so scheduler_remove  *)
(* finds nothing to remove.                                                 *)
LEMMA MarkExitSched ==
    ASSUME SchedInv, state[cur] = "RUNNING", NEW c, NEW s,
           MarkExit(cur, c, s),
           UNCHANGED <<state, dyn, cur>>, esp' = cur,
           intr' = intr \/ intr' = [intr EXCEPT ![cur] = TRUE]
    PROVE  SchedInv'
<1>1. cur \notin Queued(queue)
  BY DEF SchedInv, QueueIsReady
<1>2. queue' = queue /\ pc' = "closing"
  BY <1>1 DEF MarkExit, scheduler_remove
<1>. QED BY <1>2, QuietStep

(* The rest of process_mark_exit: a zombie, and perhaps one waiter woken.   *)
LEMMA NotifySched ==
    ASSUME SchedInv, Notify
    PROVE  SchedInv'
<1>. DEFINE par == process_get_by_pid(parent[cur])
            handoff == par # 0 /\ state[par] # "ZOMBIE" /\ WaitsFor(par, cur)
<1>1. /\ cur \in Slot /\ state[cur] = "RUNNING"
      /\ UNCHANGED <<dyn, cur, intr, esp>> /\ pc' = "stop"
  BY DEF SchedInv, SchedType, RunningIsCurrent, Notify, idVars
<1>2. CASE handoff
  <2>1. par \in Slot /\ state[par] = "BLOCKED" /\ par # cur
    <3>. DEFINE Z == {p \in Slot : pid[p] = parent[cur] /\ state[p] # "DEAD"}
    <3>1. Z \subseteq Nat
      BY DEF Slot
    <3>2. Lowest(Z) = 0 \/ Lowest(Z) \in Z
      BY <3>1, LowestFacts
    <3>3. par = 0 \/ par = Lowest(Z)
      BY DEF process_get_by_pid
    <3>4. par \in Slot
      <4>. HIDE DEF par
      <4>. QED BY <1>2, <3>2, <3>3
    <3>5. state[par] = "BLOCKED"
      BY <1>2 DEF WaitsFor
    <3>. QED BY <1>1, <3>4, <3>5
  <2>2. /\ state' = [state EXCEPT ![cur] = "ZOMBIE", ![par] = "READY"]
        /\ queue' = Enqueue(queue, par)
    BY <1>2 DEF Notify
  <2>. HIDE DEF par, handoff
  <2>3. par \notin Queued(queue)
    BY <2>1 DEF SchedInv, QueueIsReady
  <2>4. /\ Enqueue(queue, par) \in Seq(Slot)
        /\ Queued(Enqueue(queue, par)) = Queued(queue) \cup {par}
        /\ NoRepeat(Enqueue(queue, par))
    <3>1. queue \in Seq(Slot) /\ NoRepeat(queue)
      BY DEF SchedInv, QueueIsReady, SchedType
    <3>. QED BY <2>1, <2>3, <3>1, EnqueueFacts
  <2>5. \A p \in Slot : state'[p] = IF p = par THEN "READY"
                                    ELSE IF p = cur THEN "ZOMBIE" ELSE state[p]
    BY <1>1, <2>1, <2>2 DEF SchedInv, SchedType
  <2>6. SchedType'
    <3>1. state' \in [Slot -> ProcessState]
      BY <2>2 DEF SchedInv, SchedType, ProcessState
    <3>. QED BY <1>1, <2>2, <2>4, <3>1 DEF SchedInv, SchedType
  <2>7. RunningIsCurrent'
    BY <1>1, <2>5 DEF SchedInv, RunningIsCurrent
  <2>8. QueueIsReady'
    <3>1. \A p \in Slot : (p = par \/ state[p] = "READY") => state'[p] = "READY"
      BY <1>1, <2>5
    <3>2. \A p \in Slot : state'[p] = "READY" => (p = par \/ state[p] = "READY")
      BY <1>1, <2>5
    <3>. QED BY <2>1, <2>2, <2>4, <3>1, <3>2 DEF SchedInv, QueueIsReady
  <2>9. ResumableFrames'
    BY <1>1, <2>1, <2>5 DEF SchedInv, ResumableFrames
  <2>10. StoppedIsZombie'
    BY <1>1, <2>1, <2>5 DEF StoppedIsZombie
  <2>. QED BY <2>6, <2>7, <2>8, <2>9, <2>10 DEF SchedInv
<1>3. CASE ~handoff
  <2>1. state' = [state EXCEPT ![cur] = "ZOMBIE"] /\ queue' = queue
    BY <1>3 DEF Notify
  <2>. HIDE DEF handoff
  <2>2. \A p \in Slot : state'[p] = IF p = cur THEN "ZOMBIE" ELSE state[p]
    BY <1>1, <2>1 DEF SchedInv, SchedType
  <2>3. SchedType'
    <3>1. state' \in [Slot -> ProcessState]
      BY <2>1 DEF SchedInv, SchedType, ProcessState
    <3>. QED BY <1>1, <2>1, <3>1 DEF SchedInv, SchedType
  <2>4. RunningIsCurrent'
    BY <1>1, <2>2 DEF SchedInv, RunningIsCurrent
  <2>5. QueueIsReady'
    <3>1. \A p \in Slot : state'[p] = "READY" <=> state[p] = "READY"
      BY <1>1, <2>2
    <3>. QED BY <2>1, <3>1 DEF SchedInv, QueueIsReady
  <2>6. ResumableFrames' /\ StoppedIsZombie'
    BY <1>1, <2>2 DEF SchedInv, ResumableFrames, StoppedIsZombie
  <2>. QED BY <2>3, <2>4, <2>5, <2>6 DEF SchedInv
<1>. QED BY <1>2, <1>3

(* scheduler_exit_current: from a zombie to the best ready process, or to   *)
(* nobody.                                                                  *)
LEMMA StopSched ==
    ASSUME SchedInv, Stop
    PROVE  SchedInv'
<1>1. /\ pc = "stop" /\ state[cur] = "ZOMBIE" /\ cur \in Slot
      /\ intr' = [intr EXCEPT ![cur] = TRUE]
      /\ pc' \in {"deliver", "resume"}
  BY DEF Stop, AfterStop, SchedInv, SchedType, StoppedIsZombie
<1>2. CASE queue # <<>>
  <2>1. HasNext /\ Next1 \in Slot
    BY <1>2, NextFacts DEF SchedInv
  <2>2. /\ state' = [state EXCEPT ![Next1] = "RUNNING"]
        /\ Dispatch(dequeue_best(queue, dyn), Next1)
    BY <2>1 DEF Stop
  <2>3. state' = [state EXCEPT ![cur] = "ZOMBIE", ![Next1] = "RUNNING"]
    BY <1>1, <2>1, <2>2 DEF SchedInv, SchedType
  <2>. QED BY <1>1, <1>2, <2>2, <2>3, SwitchStep
<1>3. CASE queue = <<>>
  <2>1. ~HasNext /\ PutBack = queue
    BY <1>3 DEF HasNext, PutBack
  <2>2. UNCHANGED <<state, queue, dyn, cur>> /\ esp' = 0
    BY <2>1 DEF Stop
  <2>3. SchedType'
    BY <1>1, <2>2 DEF SchedInv, SchedType
  <2>4. RunningIsCurrent' /\ ResumableFrames'
    BY <1>1, <2>2 DEF SchedInv, SchedType, RunningIsCurrent, ResumableFrames
  <2>5. QueueIsReady' /\ StoppedIsZombie'
    BY <1>1, <2>2 DEF SchedInv, QueueIsReady, StoppedIsZombie
  <2>. QED BY <2>3, <2>4, <2>5 DEF SchedInv
<1>. QED BY <1>2, <1>3

(* The timer interrupt puts the interrupted process behind the others.      *)
LEMMA TimerSched ==
    ASSUME SchedInv, Timer
    PROVE  SchedInv'
<1>1. /\ pc = "user" /\ pc' = "deliver" /\ intr' = intr
      /\ cur \in Slot /\ state[cur] = "RUNNING" /\ Me = cur
  BY UserFacts DEF Timer
<1>2. CASE ~CanPreempt
  <2>1. UNCHANGED <<state, queue, dyn, cur>> /\ esp' = cur
    BY <1>2 DEF Timer
  <2>. QED BY <1>1, <2>1, QuietStep
<1>3. CASE CanPreempt
  <2>. DEFINE rest == Enqueue(dequeue_best(queue, dyn), cur)
  <2>1. intr[cur] /\ queue # <<>>
    BY <1>3 DEF CanPreempt
  <2>2. /\ Next1 \in Slot /\ state[Next1] = "READY"
        /\ dequeue_best(queue, dyn) \in Seq(Slot)
        /\ NoRepeat(dequeue_best(queue, dyn))
        /\ Queued(dequeue_best(queue, dyn)) = Queued(queue) \ {Next1}
    BY <2>1, NextFacts DEF SchedInv
  <2>3. cur \notin Queued(queue) /\ cur # Next1
    BY <1>1, <2>2 DEF SchedInv, QueueIsReady
  <2>4. /\ rest \in Seq(Slot)
        /\ Queued(rest) = (Queued(queue) \ {Next1}) \cup {cur}
        /\ NoRepeat(rest)
    <3>. DEFINE d == dequeue_best(queue, dyn)
    <3>1. /\ d \in Seq(Slot) /\ cur \in Slot
          /\ NoRepeat(d) /\ cur \notin Queued(d)
      BY <1>1, <2>2, <2>3
    <3>. HIDE DEF d
    <3>2. /\ Enqueue(d, cur) \in Seq(Slot)
          /\ Queued(Enqueue(d, cur)) = Queued(d) \cup {cur}
          /\ NoRepeat(Enqueue(d, cur))
      BY <3>1, EnqueueFacts
    <3>. QED BY <2>2, <3>2 DEF d
  <2>5. /\ state' = [state EXCEPT ![cur] = "READY", ![Next1] = "RUNNING"]
        /\ Dispatch(rest, Next1)
    BY <1>3 DEF Timer
  <2>. HIDE DEF rest
  <2>6. /\ queue' = rest /\ cur' = Next1 /\ esp' = Next1
        /\ dyn' \in [Slot -> 0 .. PROCESS_MAX_PRIORITY]
    BY <2>2, <2>4, <2>5, DispatchFacts DEF SchedInv
  <2>7. \A p \in Slot : state'[p] = IF p = Next1 THEN "RUNNING"
                                    ELSE IF p = cur THEN "READY" ELSE state[p]
    BY <1>1, <2>2, <2>5 DEF SchedInv, SchedType
  <2>8. SchedType'
    <3>1. state' \in [Slot -> ProcessState]
      BY <2>5 DEF SchedInv, SchedType, ProcessState
    <3>. QED BY <1>1, <2>2, <2>4, <2>6, <3>1 DEF SchedInv, SchedType
  <2>9. RunningIsCurrent'
    BY <1>1, <2>2, <2>3, <2>6, <2>7 DEF SchedInv, RunningIsCurrent
  <2>10. QueueIsReady'
    <3>1. \A p \in Slot : p \in Queued(rest) => state'[p] = "READY"
      BY <2>3, <2>4, <2>7 DEF SchedInv, QueueIsReady
    <3>2. \A p \in Slot : state'[p] = "READY" => p \in Queued(rest)
      BY <2>3, <2>4, <2>7 DEF SchedInv, QueueIsReady
    <3>3. Queued(rest) \subseteq Slot
      BY <1>1, <2>4 DEF SchedInv, QueueIsReady
    <3>. QED BY <2>4, <2>6, <3>1, <3>2, <3>3 DEF QueueIsReady
  <2>11. ResumableFrames'
    BY <1>1, <2>1, <2>7 DEF SchedInv, ResumableFrames
  <2>12. StoppedIsZombie'
    BY <1>1 DEF StoppedIsZombie
  <2>. QED BY <2>8, <2>9, <2>10, <2>11, <2>12 DEF SchedInv
<1>. QED BY <1>2, <1>3

(* SYS_CLOSE and one turn of process_fd_close_all wake at most one process. *)
LEMMA PipeCloseWakes ==
    ASSUME SchedType, NEW e, pipe_close(e)
    PROVE  \E w \in Slot \cup {0} : /\ w # 0 => state[w] = "BLOCKED"
                                    /\ scheduler_wake(w)
<1>1. PICK w \in {Waiter(e.pipe, "write"), Waiter(e.pipe, "read"), 0} :
          scheduler_wake(w)
  BY DEF pipe_close
<1>2. w \in Slot \cup {0} /\ (w # 0 => state[w] = "BLOCKED")
  BY <1>1, WaiterFacts
<1>. QED BY <1>1, <1>2

(* So do pipe_read and pipe_write.                                          *)
LEMMA PipeReadWakes ==
    ASSUME SchedType, NEW q, NEW n, pipe_read(q, n)
    PROVE  \E w \in Slot \cup {0} : /\ w # 0 => state[w] = "BLOCKED"
                                    /\ scheduler_wake(w)
<1>1. PICK w \in {Waiter(q, "write"), 0} : scheduler_wake(w)
  BY DEF pipe_read
<1>2. w \in Slot \cup {0} /\ (w # 0 => state[w] = "BLOCKED")
  BY <1>1, WaiterFacts
<1>. QED BY <1>1, <1>2

(* A pipe write wakes at most one blocked reader, and nobody if it fails.   *)
LEMMA PipeWriteWakes ==
    ASSUME SchedType, NEW q, NEW n, pipe_write(q, n)
    PROVE  \E w \in Slot \cup {0} : /\ w # 0 => state[w] = "BLOCKED"
                                    /\ scheduler_wake(w)
<1>1. PICK w \in {Waiter(q, "read"), 0} : scheduler_wake(w)
  BY DEF pipe_write
<1>2. w \in Slot \cup {0} /\ (w # 0 => state[w] = "BLOCKED")
  BY <1>1, WaiterFacts
<1>. QED BY <1>1, <1>2

(* The retry on resumption is a read, a write or nothing.                   *)
LEMMA CompleteIoCases ==
    ASSUME process_complete_pipe_io
    PROVE  \/ \E q, n : pipe_read(q, n)
           \/ \E q, n : pipe_write(q, n)
           \/ UNCHANGED <<state, queue>>
<1>. DEFINE b == blk[Me]
            q == fds[Me][b.arg].pipe
<1>1. CASE b.why = "read"
  <2>1. pipe_read(q, b.n)
    BY <1>1 DEF process_complete_pipe_io
  <2>. QED BY <2>1
<1>2. CASE b.why = "write"
  <2>1. pipe_write(q, b.n)
    BY <1>2 DEF process_complete_pipe_io
  <2>. QED BY <2>1
<1>3. CASE b.why \notin {"read", "write"}
  BY <1>3 DEF process_complete_pipe_io
<1>. QED BY <1>1, <1>2, <1>3

(* Every system call and fault of a user program.                           *)
LEMMA UserSched ==
    ASSUME SchedInv, UserStep
    PROVE  SchedInv'
<1>1. CASE Fork
  BY <1>1, ForkSched
<1>2. ASSUME NEW c \in ExitCodes, Exit(c) PROVE SchedInv'
  <2>1. pc = "user" /\ state[cur] = "RUNNING" /\ Me = cur
    BY <1>2, UserFacts DEF Exit, Syscall
  <2>2. /\ MarkExit(cur, c, 0) /\ UNCHANGED <<state, dyn, cur>> /\ esp' = cur
        /\ intr' = [intr EXCEPT ![cur] = TRUE]
    BY <1>2, <2>1 DEF Exit
  <2>. QED BY <2>1, <2>2, MarkExitSched
<1>3. ASSUME NEW c \in Faults, FatalFault(c) PROVE SchedInv'
  <2>1. pc = "user" /\ state[cur] = "RUNNING" /\ Me = cur
    BY <1>3, UserFacts DEF FatalFault
  <2>2. /\ MarkExit(cur, c, 0) /\ UNCHANGED <<state, dyn, cur>> /\ esp' = cur
        /\ intr' = intr
    BY <1>3 DEF FatalFault
  <2>. QED BY <2>1, <2>2, MarkExitSched
<1>4. CASE HandledFault
  <2>1. pc = "user" /\ state[cur] = "RUNNING" /\ Me = cur
    BY <1>4, UserFacts DEF HandledFault
  <2>2. /\ UNCHANGED <<state, queue, dyn, cur>> /\ intr' = intr
        /\ pc' = "resume" /\ esp' = cur
    BY <1>4 DEF HandledFault, schedVars
  <2>. QED BY <2>1, <2>2, QuietStep
<1>5. ASSUME NEW by, NEW t, WaitCollect(by, t) PROVE SchedInv'
  <2>. DEFINE Z == {p \in Slot : /\ parent[p] = pid[Me]
                                 /\ state[p] = "ZOMBIE"
                                 /\ ~waited[p]
                                 /\ t \in {0, pid[p]}}
              child == ExitedChild(t)
  <2>1. pc = "user" /\ state[cur] = "RUNNING" /\ Me = cur /\ cur \in Slot
    BY <1>5, UserFacts DEF WaitCollect, Syscall
  <2>2. child \in Slot /\ state[child] = "ZOMBIE"
    <3>1. Z \subseteq Nat /\ child = Lowest(Z) /\ child # 0
      BY <1>5 DEF Slot, ExitedChild, WaitCollect
    <3>2. child \in Z
      <4>. HIDE DEF Z, child
      <4>. QED BY <3>1, LowestFacts
    <3>. QED BY <3>2
  <2>3. /\ process_destroy({child})
        /\ intr' = [intr EXCEPT ![child] = FALSE, ![cur] = TRUE]
        /\ UNCHANGED <<queue, cur>>
        /\ pc' = "deliver" /\ esp' = cur
    BY <1>5, <2>1 DEF WaitCollect
  <2>. HIDE DEF child
  <2>4. /\ intr' \in [Slot -> BOOLEAN]
        /\ \A p \in Slot : p \notin {child} /\ intr[p] => intr'[p]
    BY <2>3 DEF SchedInv, SchedType
  <2>5. {child} \in SUBSET Slot /\ \A p \in {child} : state[p] = "ZOMBIE"
    BY <2>2
  <2>. QED BY <2>1, <2>3, <2>4, <2>5, DestroyStep
<1>6. ASSUME NEW by, NEW t, WaitBlock(by, t) PROVE SchedInv'
  BY <1>6, BlockStep DEF WaitBlock, Syscall
<1>7. ASSUME pc = "user", Return, UNCHANGED <<state, queue, dyn>> PROVE SchedInv'
  <2>1. state[cur] = "RUNNING" /\ Me = cur
    BY <1>7, UserFacts
  <2>. QED BY <1>7, <2>1, QuietStep DEF Return
<1>8. ASSUME NEW x, NEW s, Kill(x, s) PROVE SchedInv'
  BY <1>7, <1>8 DEF Kill, Syscall
<1>9. CASE SysPipe
  BY <1>7, <1>9 DEF SysPipe, Syscall
<1>10. CASE Other
  BY <1>7, <1>10 DEF Other, Syscall
<1>11. ASSUME pc = "user", Return, dyn' = dyn,
              NEW w \in Slot \cup {0}, w # 0 => state[w] = "BLOCKED",
              scheduler_wake(w)
       PROVE  SchedInv'
  <2>1. state[cur] = "RUNNING" /\ Me = cur /\ cur \in Slot
    BY <1>11, UserFacts
  <2>. QED BY <1>11, <2>1, WakeStep DEF Return
<1>12. ASSUME NEW f, NEW n, Read(f, n) PROVE SchedInv'
  <2>. DEFINE q == fds[Me][f].pipe
  <2>1. pc = "user"
    BY <1>12 DEF Read, Syscall
  <2>2. CASE ~ReadWouldBlock(q)
    <3>1. pipe_read(q, n) /\ Return /\ dyn' = dyn
      BY <1>12, <2>2 DEF Read
    <3>2. PICK w \in Slot \cup {0} : (w # 0 => state[w] = "BLOCKED") /\ scheduler_wake(w)
      BY <3>1, PipeReadWakes DEF SchedInv
    <3>. QED BY <1>11, <2>1, <3>1, <3>2
  <2>3. CASE ReadWouldBlock(q)
    BY <1>12, <2>1, <2>3, BlockStep DEF Read
  <2>. QED BY <2>2, <2>3
<1>13. ASSUME NEW f, NEW n, Write(f, n) PROVE SchedInv'
  <2>. DEFINE q == fds[Me][f].pipe
  <2>1. pc = "user"
    BY <1>13 DEF Write, Syscall
  <2>2. CASE ~WriteWouldBlock(q, n)
    <3>1. pipe_write(q, n) /\ Return /\ dyn' = dyn
      BY <1>13, <2>2 DEF Write
    <3>2. PICK w \in Slot \cup {0} : (w # 0 => state[w] = "BLOCKED") /\ scheduler_wake(w)
      BY <3>1, PipeWriteWakes DEF SchedInv
    <3>. QED BY <1>11, <2>1, <3>1, <3>2
  <2>3. CASE WriteWouldBlock(q, n)
    BY <1>13, <2>1, <2>3, BlockStep DEF Write
  <2>. QED BY <2>2, <2>3
<1>14. ASSUME NEW f, Close(f) PROVE SchedInv'
  <2>1. pc = "user" /\ pipe_close(fds[Me][f]) /\ Return /\ dyn' = dyn
    BY <1>14 DEF Close, Syscall
  <2>2. PICK w \in Slot \cup {0} : (w # 0 => state[w] = "BLOCKED") /\ scheduler_wake(w)
    BY <2>1, PipeCloseWakes DEF SchedInv
  <2>. QED BY <1>11, <2>1, <2>2
<1>. QED
  BY <1>1, <1>2, <1>3, <1>4, <1>5, <1>6, <1>8, <1>9, <1>10, <1>12, <1>13, <1>14
     DEF UserStep

(* Every step of a trap.                                                    *)
LEMMA KernelSched ==
    ASSUME SchedInv, KernelStep
    PROVE  SchedInv'
<1>1. CASE CloseNext
  <2>1. PICK e : pipe_close(e)
    BY <1>1 DEF CloseNext
  <2>2. PICK w \in Slot \cup {0} : (w # 0 => state[w] = "BLOCKED") /\ scheduler_wake(w)
    BY <2>1, PipeCloseWakes DEF SchedInv
  <2>3. /\ pc = "closing" /\ UNCHANGED <<dyn, cur, intr, pc, esp>>
    BY <1>1 DEF CloseNext, cpuVars
  <2>4. state[cur] = "RUNNING" /\ esp \in Slot \cup {0}
    BY <2>3 DEF SchedInv, SchedType, RunningIsCurrent
  <2>. QED BY <2>2, <2>3, <2>4, WakeStep
<1>2. CASE CloseDone
  <2>1. pc = "closing" /\ pc' = "notify" /\ UNCHANGED <<schedVars, esp>>
    BY <1>2 DEF CloseDone
  <2>2. SchedType' /\ QueueIsReady' /\ ResumableFrames'
    BY <2>1 DEF SchedInv, SchedType, QueueIsReady, ResumableFrames, schedVars
  <2>3. RunningIsCurrent' /\ StoppedIsZombie'
    BY <2>1 DEF SchedInv, RunningIsCurrent, StoppedIsZombie, schedVars
  <2>. QED BY <2>2, <2>3 DEF SchedInv
<1>3. CASE Notify
  BY <1>3, NotifySched
<1>4. CASE Stop
  BY <1>4, StopSched
<1>5. CASE DeliverFatal
  <2>1. pc = "deliver" /\ Me # 0 /\ esp # 0 /\ cur \in Slot
    BY <1>5 DEF DeliverFatal, Delivering, SchedInv, SchedType
  <2>2. state[cur] = "RUNNING" /\ esp = cur /\ Me = cur
    BY <2>1, MeIsCur DEF SchedInv, RunningIsCurrent
  <2>3. /\ MarkExit(cur, 0, Lowest(Fatal))
        /\ UNCHANGED <<state, dyn, cur, intr>> /\ esp' = cur
    BY <1>5, <2>2 DEF DeliverFatal
  <2>. QED BY <2>2, <2>3, MarkExitSched
<1>6. CASE DeliverChild
  <2>1. pc = "deliver" /\ UNCHANGED <<schedVars, pc, esp>>
    BY <1>6 DEF DeliverChild, Delivering, cpuVars
  <2>2. SchedType' /\ QueueIsReady' /\ ResumableFrames'
    BY <2>1 DEF SchedInv, SchedType, QueueIsReady, ResumableFrames, schedVars
  <2>3. RunningIsCurrent' /\ StoppedIsZombie'
    BY <2>1 DEF SchedInv, RunningIsCurrent, StoppedIsZombie, schedVars
  <2>. QED BY <2>2, <2>3 DEF SchedInv
<1>7. CASE DeliverDone
  <2>1. pc = "deliver" /\ pc' = "resume" /\ UNCHANGED <<schedVars, esp>>
    BY <1>7 DEF DeliverDone
  <2>2. SchedType' /\ QueueIsReady' /\ ResumableFrames'
    BY <2>1 DEF SchedInv, SchedType, QueueIsReady, ResumableFrames, schedVars
  <2>3. RunningIsCurrent' /\ StoppedIsZombie'
    BY <2>1 DEF SchedInv, RunningIsCurrent, StoppedIsZombie, schedVars
  <2>. QED BY <2>2, <2>3 DEF SchedInv
<1>8. CASE Resume
  <2>1. /\ pc = "resume" /\ esp # 0 /\ pc' = "reap"
        /\ UNCHANGED <<dyn, cur, intr, esp>>
        /\ process_complete_pipe_io
    BY <1>8 DEF Resume
  <2>2. state[cur] = "RUNNING" /\ esp = cur /\ cur \in Slot
    BY <2>1 DEF SchedInv, SchedType, RunningIsCurrent
  <2>3. \/ \E q, n : pipe_read(q, n)
        \/ \E q, n : pipe_write(q, n)
        \/ UNCHANGED <<state, queue>>
    BY <2>1, CompleteIoCases
  <2>4. ASSUME NEW q, NEW n, pipe_read(q, n) \/ pipe_write(q, n) PROVE SchedInv'
    <3>1. PICK w \in Slot \cup {0} : (w # 0 => state[w] = "BLOCKED") /\ scheduler_wake(w)
      BY <2>4, PipeReadWakes, PipeWriteWakes DEF SchedInv
    <3>. QED BY <2>1, <2>2, <3>1, WakeStep
  <2>5. CASE UNCHANGED <<state, queue>>
    BY <2>1, <2>2, <2>5, QuietStep
  <2>. QED BY <2>3, <2>4, <2>5
<1>9. CASE Reap
  <2>. DEFINE D == {p \in Slot : Unclaimed(p)}
  <2>1. /\ pc = "reap" /\ pc' = "user" /\ UNCHANGED <<queue, cur, esp>>
        /\ process_destroy(D)
        /\ intr' = [p \in Slot |-> p \notin D /\ intr[p]]
    BY <1>9 DEF Reap
  <2>2. state[cur] = "RUNNING" /\ esp = cur
    BY <2>1 DEF SchedInv, RunningIsCurrent
  <2>3. D \in SUBSET Slot /\ \A p \in D : state[p] = "ZOMBIE"
    BY DEF Unclaimed
  <2>. HIDE DEF D
  <2>4. /\ intr' \in [Slot -> BOOLEAN]
        /\ \A p \in Slot : p \notin D /\ intr[p] => intr'[p]
    BY <2>1 DEF SchedInv, SchedType
  <2>. QED BY <2>1, <2>2, <2>3, <2>4, DestroyStep
<1>10. CASE NoFrame
  <2>1. pc' \in {"wild", "halted"} /\ UNCHANGED <<schedVars, esp>>
    BY <1>10 DEF NoFrame
  <2>2. SchedType' /\ QueueIsReady' /\ ResumableFrames'
    BY <2>1 DEF SchedInv, SchedType, QueueIsReady, ResumableFrames, schedVars
  <2>3. RunningIsCurrent' /\ StoppedIsZombie'
    BY <2>1 DEF SchedInv, RunningIsCurrent, StoppedIsZombie, schedVars
  <2>. QED BY <2>2, <2>3 DEF SchedInv
<1>. QED
  BY <1>1, <1>2, <1>3, <1>4, <1>5, <1>6, <1>7, <1>8, <1>9, <1>10 DEF KernelStep

(* A step that changes nothing, taken by a halted machine or by none.       *)
LEMMA IdleSched ==
    ASSUME SchedInv, UNCHANGED vars
    PROVE  SchedInv'
<1>1. UNCHANGED <<state, queue, dyn, cur, intr, esp, pc>>
  BY DEF vars, schedVars, cpuVars
<1>. QED
  BY <1>1 DEF SchedInv, SchedType, RunningIsCurrent, QueueIsReady,
              ResumableFrames, StoppedIsZombie

(* The first user process runs, alone, and nothing is queued.               *)
LEMMA InitSched == Init => SchedInv
<1>. SUFFICES ASSUME Init PROVE SchedInv
  OBVIOUS
<1>1. 1 \in Slot
  BY KernelAssumption DEF Slot
<1>2. \A p \in Slot : state[p] = IF p = 1 THEN "RUNNING" ELSE "DEAD"
  BY DEF Init
<1>3. SchedType
  <2>1. state \in [Slot -> ProcessState]
    BY DEF Init, ProcessState
  <2>2. dyn \in [Slot -> 0 .. PROCESS_MAX_PRIORITY]
    BY PriorityAssumption DEF Init
  <2>3. queue \in Seq(Slot)
    BY DEF Init
  <2>. QED BY <1>1, <2>1, <2>2, <2>3 DEF Init, SchedType
<1>4. RunningIsCurrent
  BY <1>1, <1>2 DEF Init, RunningIsCurrent
<1>5. QueueIsReady
  <2>1. queue = <<>> /\ \A p \in Slot : state[p] # "READY"
    BY <1>2 DEF Init
  <2>2. DOMAIN queue = {}
    BY <2>1
  <2>. QED BY <2>1, <2>2 DEF QueueIsReady, NoRepeat, Queued
<1>6. ResumableFrames /\ StoppedIsZombie
  BY <1>2 DEF Init, ResumableFrames, StoppedIsZombie
<1>. QED BY <1>3, <1>4, <1>5, <1>6 DEF SchedInv

(* SchedInv holds in every state the kernel reaches.                        *)
LEMMA SchedInvariant == Spec => []SchedInv
<1>1. SchedInv /\ [Next]_vars => SchedInv'
  BY UserSched, TimerSched, KernelSched, IdleSched DEF Next, Halted
<1>. QED BY <1>1, InitSched, PTL DEF Spec

(* At every moment of every run at most one process is RUNNING, it is the   *)
(* one scheduler.c calls current, and user mode is entered as that process. *)
THEOREM OneRunner == Spec => []RunningIsCurrent
<1>1. SchedInv => RunningIsCurrent
  BY DEF SchedInv
<1>. QED BY <1>1, SchedInvariant, PTL

(* The ready queue of scheduler.c is a simple list of exactly the READY     *)
(* processes, whatever forks, blocks, wakes, preempts and exits happen.     *)
THEOREM QueueCorrect == Spec => []QueueIsReady
<1>1. SchedInv => QueueIsReady
  BY DEF SchedInv
<1>. QED BY <1>1, SchedInvariant, PTL

(* Every process that is queued or blocked has a trap frame, so the switch  *)
(* never falls into the branches that put the chosen process back.          *)
THEOREM FramesResumable == Spec => []ResumableFrames
<1>1. SchedInv => ResumableFrames
  BY DEF SchedInv
<1>. QED BY <1>1, SchedInvariant, PTL

-----------------------------------------------------------------------------
(***************************************************************************)
(* Ownership of the kernel stacks: stack_pool is partitioned between the   *)
(* slots in use and the free bitmap, and no trap runs on a stack that has  *)
(* been given back.                                                        *)
(*                                                                         *)
(* StackInv is inductive relative to SchedInv.  What makes it so is that   *)
(* the TSS names the stack of the current process at every step of a trap  *)
(* and that the current process is never a dead slot, even after it has    *)
(* exited: its slot is destroyed by the process that runs next.            *)
(***************************************************************************)

StackType ==
    /\ kstack \in [Slot -> Stack \cup {0}]
    /\ stack_free \in SUBSET Stack
    /\ tss \in Stack
    /\ on \in Stack

TssIsCurrent == state[cur] # "DEAD" /\ tss = kstack[cur]

StackInv ==
    /\ StackType
    /\ StacksOwned
    /\ TssIsCurrent
    /\ OnLiveStack

(* A slot in use owns a stack, and that stack is not free.                  *)
LEMMA OwnedStack ==
    ASSUME StackType, StacksOwned, NEW p \in Slot, state[p] # "DEAD"
    PROVE  kstack[p] \in Stack /\ kstack[p] \notin stack_free
BY DEF StackType, StacksOwned

DeadSame == \A p \in Slot : state'[p] = "DEAD" <=> state[p] = "DEAD"

(* A step that neither takes nor gives back a stack.                        *)
LEMMA StackStep ==
    ASSUME StackInv, SchedInv, DeadSame,
           UNCHANGED <<kstack, stack_free>>,
           cur' \in Slot, state[cur'] # "DEAD", tss' = kstack[cur'],
           \/ pc = "user" /\ on' = tss
           \/ pc # "user" /\ on' = on
           \/ on' = kstack[cur'],
           pc' \in {"user", "reap"} => on' = kstack[cur']
    PROVE  StackInv'
<1>1. kstack[cur'] \in Stack /\ kstack[cur'] \notin stack_free
  BY OwnedStack DEF StackInv
<1>2. tss \in Stack /\ tss \notin stack_free
  BY OwnedStack DEF StackInv, TssIsCurrent, SchedInv, SchedType
<1>3. pc # "user" => on \in Stack /\ on \notin stack_free
  BY DEF StackInv, StackType, OnLiveStack
<1>4. on' \in Stack /\ on' \notin stack_free
  BY <1>1, <1>2, <1>3
<1>5. StackType'
  BY <1>1, <1>4 DEF StackInv, StackType
<1>6. StacksOwned'
  <2>1. \A p \in Slot : kstack'[p] = 0 <=> state'[p] = "DEAD"
    BY DEF StackInv, StacksOwned, DeadSame
  <2>. QED BY <2>1 DEF StackInv, StacksOwned
<1>7. TssIsCurrent'
  BY DEF TssIsCurrent, DeadSame
<1>8. OnLiveStack'
  BY <1>4 DEF OnLiveStack
<1>. QED BY <1>5, <1>6, <1>7, <1>8 DEF StackInv

(* The same for a step that stays with the current process and wakes at     *)
(* most one other.                                                          *)
LEMMA WakeStack ==
    ASSUME StackInv, SchedInv,
           NEW w \in Slot \cup {0}, w # 0 => state[w] = "BLOCKED",
           scheduler_wake(w),
           UNCHANGED <<kstack, stack_free, cur, tss>>,
           \/ pc = "user" /\ on' = tss
           \/ pc # "user" /\ on' = on
           \/ on' = kstack[cur],
           pc' \in {"user", "reap"} => on' = kstack[cur]
    PROVE  StackInv'
<1>1. \A p \in Slot : state'[p] = IF p = w THEN "READY" ELSE state[p]
  BY WakeFacts DEF SchedInv
<1>2. DeadSame
  BY <1>1 DEF DeadSame, Slot
<1>3. cur \in Slot /\ state[cur] # "DEAD" /\ tss = kstack[cur]
  BY DEF StackInv, TssIsCurrent, SchedInv, SchedType
<1>. QED BY <1>2, <1>3, StackStep

(* And for one that leaves the process table alone.                         *)
LEMMA QuietStack ==
    ASSUME StackInv, SchedInv,
           UNCHANGED <<state, kstack, stack_free, cur, tss>>,
           \/ pc = "user" /\ on' = tss
           \/ pc # "user" /\ on' = on
           \/ on' = kstack[cur],
           pc' \in {"user", "reap"} => on' = kstack[cur]
    PROVE  StackInv'
<1>1. DeadSame
  BY DEF DeadSame
<1>2. cur \in Slot /\ state[cur] # "DEAD" /\ tss = kstack[cur]
  BY DEF StackInv, TssIsCurrent, SchedInv, SchedType
<1>. QED BY <1>1, <1>2, StackStep

(* A switch to the best ready process moves the TSS to its stack.           *)
LEMMA SwitchStack ==
    ASSUME StackInv, SchedInv, queue # <<>>,
           NEW s \in {"READY", "BLOCKED", "ZOMBIE"},
           state' = [state EXCEPT ![cur] = s, ![Next1] = "RUNNING"],
           NEW rest \in Seq(Slot), Dispatch(rest, Next1),
           UNCHANGED <<kstack, stack_free>>,
           \/ pc = "user" /\ on' = tss
           \/ pc # "user" /\ on' = on,
           pc' \notin {"user", "reap"}
    PROVE  StackInv'
<1>1. Next1 \in Slot /\ state[Next1] = "READY"
  BY NextFacts DEF SchedInv
<1>2. cur' = Next1 /\ tss' = kstack[Next1]
  BY <1>1, DispatchFacts DEF SchedInv
<1>3. cur \in Slot /\ state[cur] # "DEAD"
  BY DEF StackInv, TssIsCurrent, SchedInv, SchedType
<1>4. \A p \in Slot : state'[p] = IF p = Next1 THEN "RUNNING"
                                  ELSE IF p = cur THEN s ELSE state[p]
  BY <1>1, <1>3 DEF SchedInv, SchedType
<1>5. DeadSame
  <2>. SUFFICES ASSUME NEW p \in Slot
               PROVE  state'[p] = "DEAD" <=> state[p] = "DEAD"
    BY DEF DeadSame
  <2>1. CASE p = Next1
    <3>1. state'[p] = "RUNNING" /\ state[p] = "READY"
      BY <1>1, <1>4, <2>1
    <3>. QED BY <3>1, Zenon
  <2>2. CASE p = cur /\ p # Next1
    <3>1. state'[p] = s /\ state[p] # "DEAD" /\ s # "DEAD"
      BY <1>3, <1>4, <2>2
    <3>. QED BY <3>1, Zenon
  <2>3. CASE p # cur /\ p # Next1
    BY <1>4, <2>3
  <2>. QED BY <2>1, <2>2, <2>3
<1>6. cur' \in Slot /\ state[cur'] # "DEAD" /\ tss' = kstack[cur']
  BY <1>1, <1>2
<1>. QED BY <1>5, <1>6, StackStep

(* A blocking call leaves every stack with its owner, whether or not there  *)
(* is another process to switch to.                                         *)
LEMMA BlockStack ==
    ASSUME StackInv, SchedInv, pc = "user", NEW b, BlockCurrent(b),
           UNCHANGED <<kstack, stack_free>>, on' = tss
    PROVE  StackInv'
<1>1. pc' = "deliver"
  BY DEF BlockCurrent
<1>2. CASE queue # <<>>
  <2>1. HasNext /\ dequeue_best(queue, dyn) \in Seq(Slot)
    BY <1>2, NextFacts DEF SchedInv
  <2>2. /\ state' = [state EXCEPT ![cur] = "BLOCKED", ![Next1] = "RUNNING"]
        /\ Dispatch(dequeue_best(queue, dyn), Next1)
    BY <2>1 DEF BlockCurrent
  <2>. QED BY <1>1, <1>2, <2>1, <2>2, SwitchStack
<1>3. CASE queue = <<>>
  <2>1. ~HasNext
    BY <1>3 DEF HasNext
  <2>2. UNCHANGED <<state, cur, tss>>
    BY <2>1 DEF BlockCurrent
  <2>. QED BY <1>1, <2>2, QuietStack
<1>. QED BY <1>2, <1>3

(* process_destroy gives back the stacks of D, and none of them is in use.  *)
LEMMA DestroyStack ==
    ASSUME StackInv, SchedInv,
           NEW D \in SUBSET Slot, \A p \in D : state[p] = "ZOMBIE",
           state[cur] = "RUNNING",
           process_destroy(D),
           UNCHANGED <<cur, tss>>, on' = kstack[cur]
    PROVE  StackInv'
<1>1. /\ \A p \in Slot : state'[p] = IF p \in D THEN "DEAD" ELSE state[p]
      /\ \A p \in Slot : kstack'[p] = IF p \in D THEN 0 ELSE kstack[p]
      /\ stack_free' = stack_free \cup {kstack[p] : p \in D}
      /\ kstack' = [p \in Slot |-> IF p \in D THEN 0 ELSE kstack[p]]
  BY DEF process_destroy, free_stack
<1>2. cur \in Slot /\ cur \notin D /\ tss = kstack[cur]
  BY DEF StackInv, TssIsCurrent, SchedInv, SchedType
<1>3. kstack[cur] \in Stack /\ kstack[cur] \notin stack_free
  BY <1>2, OwnedStack DEF StackInv
<1>4. \A p \in D : kstack[p] \in Stack /\ kstack[p] # kstack[cur]
  <2>1. TAKE p \in D
  <2>2. kstack[p] \in Stack
    BY OwnedStack DEF StackInv
  <2>. QED BY <1>2, <2>2 DEF StackInv, StacksOwned, Stack
<1>5. StackType'
  <2>1. kstack' \in [Slot -> Stack \cup {0}]
    BY <1>1 DEF StackInv, StackType
  <2>2. stack_free' \in SUBSET Stack
    BY <1>1, <1>4 DEF StackInv, StackType
  <2>. QED BY <1>2, <1>3, <2>1, <2>2 DEF StackType
<1>6. StacksOwned'
  <2>1. \A p \in Slot : kstack'[p] = 0 <=> state'[p] = "DEAD"
    BY <1>1 DEF StackInv, StacksOwned
  <2>2. \A p, o \in Slot : kstack'[p] = kstack'[o] /\ kstack'[p] # 0 => p = o
    BY <1>1 DEF StackInv, StacksOwned
  <2>3. ASSUME NEW x \in Stack
        PROVE  x \in stack_free' <=> x \notin {kstack'[p] : p \in Slot}
    <3>1. CASE x \in stack_free
      <4>1. \A p \in Slot : kstack[p] # x
        BY <3>1 DEF StackInv, StacksOwned
      <4>2. \A p \in Slot : kstack'[p] # x
        BY <1>1, <4>1 DEF Stack
      <4>. QED BY <1>1, <3>1, <4>2
    <3>2. CASE x \notin stack_free
      <4>1. PICK p \in Slot : kstack[p] = x
        BY <3>2 DEF StackInv, StacksOwned
      <4>2. CASE p \in D
        <5>1. \A o \in Slot : kstack'[o] # x
          BY <1>1, <4>1, <4>2 DEF StackInv, StacksOwned, Stack
        <5>. QED BY <1>1, <4>1, <4>2, <5>1
      <4>3. CASE p \notin D
        <5>1. \A o \in D : kstack[o] # x
          BY <4>1, <4>3 DEF StackInv, StacksOwned, Stack
        <5>2. kstack'[p] = x
          BY <1>1, <4>1, <4>3
        <5>. QED BY <1>1, <3>2, <5>1, <5>2
      <4>. QED BY <4>2, <4>3
    <3>. QED BY <3>1, <3>2
  <2>4. stack_free' = Stack \ {kstack'[p] : p \in Slot}
    BY <2>3, <1>5 DEF StackType
  <2>. QED BY <2>1, <2>2, <2>4 DEF StacksOwned
<1>7. TssIsCurrent'
  BY <1>1, <1>2 DEF TssIsCurrent
<1>8. OnLiveStack'
  <2>1. kstack[cur] \notin stack_free' /\ kstack'[cur] = kstack[cur]
    BY <1>1, <1>2, <1>3, <1>4
  <2>. QED BY <1>2, <2>1 DEF OnLiveStack
<1>. QED BY <1>5, <1>6, <1>7, <1>8 DEF StackInv

(* SYS_FORK: the child gets a stack nobody has.                             *)
LEMMA ForkStack ==
    ASSUME StackInv, SchedInv, Fork
    PROVE  StackInv'
<1>. DEFINE Z == {p \in Slot : state[p] = "DEAD"}
            child == Lowest(Z)
            stk == Lowest(stack_free)
<1>1. pc = "user" /\ cur \in Slot /\ state[cur] = "RUNNING" /\ tss = kstack[cur]
  BY UserFacts DEF Fork, Syscall, StackInv, TssIsCurrent
<1>2. child \in Slot /\ state[child] = "DEAD"
  <2>1. Z \subseteq Nat /\ Lowest(Z) # 0
    BY DEF Slot, Fork
  <2>. HIDE DEF Z
  <2>2. Lowest(Z) \in Z
    BY <2>1, LowestFacts
  <2>. QED BY <2>2 DEF Z
<1>3. stk \in stack_free /\ stk \in Stack
  <2>1. stack_free \subseteq Nat /\ stk # 0 /\ stack_free \subseteq Stack
    BY DEF StackInv, StackType, Stack, Fork
  <2>. QED BY <2>1, LowestFacts
<1>4. /\ stack_free' = stack_free \ {stk}
      /\ kstack' = [kstack EXCEPT ![child] = stk]
      /\ state' = [state EXCEPT ![child] = "READY"]
      /\ UNCHANGED <<cur, tss>> /\ on' = tss /\ pc' = "deliver"
  BY DEF Fork, Syscall
<1>. HIDE DEF child, stk
<1>5. /\ \A p \in Slot : state'[p] = IF p = child THEN "READY" ELSE state[p]
      /\ \A p \in Slot : kstack'[p] = IF p = child THEN stk ELSE kstack[p]
  BY <1>2, <1>4 DEF SchedInv, SchedType, StackInv, StackType
<1>6. child # cur /\ kstack[child] = 0 /\ stk # 0
  BY <1>1, <1>2, <1>3 DEF StackInv, StacksOwned, Stack
<1>7. \A p \in Slot : kstack[p] # stk
  BY <1>3 DEF StackInv, StacksOwned
<1>8. kstack[cur] \in Stack /\ kstack[cur] \notin stack_free
  BY <1>1, OwnedStack DEF StackInv
<1>9. StackType'
  <2>1. kstack' \in [Slot -> Stack \cup {0}]
    BY <1>3, <1>4 DEF StackInv, StackType
  <2>. QED BY <1>1, <1>4, <1>8, <2>1 DEF StackInv, StackType
<1>10. StacksOwned'
  <2>1. \A p \in Slot : kstack'[p] = 0 <=> state'[p] = "DEAD"
    <3>1. TAKE p \in Slot
    <3>2. CASE p = child
      <4>1. kstack'[p] # 0 /\ state'[p] = "READY"
        BY <1>5, <1>6, <3>2
      <4>. QED BY <4>1, Zenon
    <3>3. CASE p # child
      BY <1>5, <3>3 DEF StackInv, StacksOwned
    <3>. QED BY <3>2, <3>3
  <2>2. \A p, o \in Slot : kstack'[p] = kstack'[o] /\ kstack'[p] # 0 => p = o
    BY <1>5, <1>7 DEF StackInv, StacksOwned
  <2>3. ASSUME NEW x \in Stack
        PROVE  x \in stack_free' <=> x \notin {kstack'[p] : p \in Slot}
    <3>1. CASE x = stk
      <4>1. kstack'[child] = x
        BY <1>2, <1>5, <3>1
      <4>. QED BY <1>2, <1>4, <3>1, <4>1
    <3>2. CASE x # stk
      <4>1. \A p \in Slot : kstack'[p] = x <=> kstack[p] = x
        <5>1. TAKE p \in Slot
        <5>2. CASE p = child
          <6>1. kstack'[p] # x /\ kstack[p] # x
            BY <1>5, <1>6, <3>2, <5>2 DEF Stack
          <6>. QED BY <6>1
        <5>3. CASE p # child
          BY <1>5, <5>3
        <5>. QED BY <5>2, <5>3
      <4>. QED BY <1>4, <3>2, <4>1 DEF StackInv, StacksOwned
    <3>. QED BY <3>1, <3>2
  <2>4. stack_free' = Stack \ {kstack'[p] : p \in Slot}
    BY <2>3, <1>9 DEF StackType
  <2>. QED BY <2>1, <2>2, <2>4 DEF StacksOwned
<1>11. TssIsCurrent'
  BY <1>1, <1>4, <1>5, <1>6 DEF TssIsCurrent
<1>12. OnLiveStack'
  BY <1>1, <1>4, <1>8 DEF OnLiveStack
<1>. QED BY <1>9, <1>10, <1>11, <1>12 DEF StackInv

(* Every system call and fault of a user program.                           *)
LEMMA UserStack ==
    ASSUME StackInv, SchedInv, UserStep
    PROVE  StackInv'
<1>1. CASE Fork
  BY <1>1, ForkStack
<1>2. ASSUME pc = "user", on' = tss, UNCHANGED <<state, kstack, stack_free, cur, tss>>,
             pc' \notin {"user", "reap"}
      PROVE  StackInv'
  BY <1>2, QuietStack
<1>3. ASSUME NEW c \in ExitCodes, Exit(c) PROVE StackInv'
  BY <1>2, <1>3 DEF Exit, Syscall, MarkExit, idVars
<1>4. ASSUME NEW c \in Faults, FatalFault(c) PROVE StackInv'
  BY <1>2, <1>4 DEF FatalFault, MarkExit, idVars
<1>5. CASE HandledFault
  BY <1>2, <1>5 DEF HandledFault, idVars, schedVars
<1>6. ASSUME NEW by, NEW t, WaitCollect(by, t) PROVE StackInv'
  <2>. DEFINE Z == {p \in Slot : /\ parent[p] = pid[Me]
                                 /\ state[p] = "ZOMBIE"
                                 /\ ~waited[p]
                                 /\ t \in {0, pid[p]}}
              child == ExitedChild(t)
  <2>1. pc = "user" /\ state[cur] = "RUNNING"
    BY <1>6, UserFacts DEF WaitCollect, Syscall
  <2>2. child \in Slot /\ state[child] = "ZOMBIE"
    <3>1. Z \subseteq Nat /\ child = Lowest(Z) /\ child # 0
      BY <1>6 DEF Slot, ExitedChild, WaitCollect
    <3>2. child \in Z
      <4>. HIDE DEF Z, child
      <4>. QED BY <3>1, LowestFacts
    <3>. QED BY <3>2
  <2>3. /\ process_destroy({child})
        /\ UNCHANGED <<cur, tss>>
        /\ on' = kstack[cur]
    BY <1>6 DEF WaitCollect, Syscall, StackInv, TssIsCurrent
  <2>. HIDE DEF child
  <2>4. {child} \in SUBSET Slot /\ \A p \in {child} : state[p] = "ZOMBIE"
    BY <2>2
  <2>. QED BY <2>1, <2>3, <2>4, DestroyStack
<1>7. ASSUME NEW by, NEW t, WaitBlock(by, t) PROVE StackInv'
  BY <1>7, BlockStack DEF WaitBlock, Syscall, idVars
<1>8. ASSUME NEW x, NEW s, Kill(x, s) PROVE StackInv'
  BY <1>2, <1>8 DEF Kill, Syscall, Return, idVars
<1>9. CASE SysPipe
  BY <1>2, <1>9 DEF SysPipe, Syscall, Return, idVars
<1>10. CASE Other
  BY <1>2, <1>10 DEF Other, Syscall, Return, idVars
<1>11. ASSUME pc = "user", on' = tss, Return, UNCHANGED <<kstack, stack_free>>,
              NEW w \in Slot \cup {0}, w # 0 => state[w] = "BLOCKED",
              scheduler_wake(w)
       PROVE  StackInv'
  BY <1>11, WakeStack DEF Return
<1>12. ASSUME NEW f, NEW n, Read(f, n) PROVE StackInv'
  <2>. DEFINE q == fds[Me][f].pipe
  <2>1. pc = "user" /\ on' = tss /\ UNCHANGED <<kstack, stack_free>>
    BY <1>12 DEF Read, Syscall, idVars
  <2>2. CASE ~ReadWouldBlock(q)
    <3>1. pipe_read(q, n) /\ Return
      BY <1>12, <2>2 DEF Read
    <3>2. PICK w \in Slot \cup {0} : (w # 0 => state[w] = "BLOCKED") /\ scheduler_wake(w)
      BY <3>1, PipeReadWakes DEF SchedInv
    <3>. QED BY <1>11, <2>1, <3>1, <3>2
  <2>3. CASE ReadWouldBlock(q)
    BY <1>12, <2>1, <2>3, BlockStack DEF Read
  <2>. QED BY <2>2, <2>3
<1>13. ASSUME NEW f, NEW n, Write(f, n) PROVE StackInv'
  <2>. DEFINE q == fds[Me][f].pipe
  <2>1. pc = "user" /\ on' = tss /\ UNCHANGED <<kstack, stack_free>>
    BY <1>13 DEF Write, Syscall, idVars
  <2>2. CASE ~WriteWouldBlock(q, n)
    <3>1. pipe_write(q, n) /\ Return
      BY <1>13, <2>2 DEF Write
    <3>2. PICK w \in Slot \cup {0} : (w # 0 => state[w] = "BLOCKED") /\ scheduler_wake(w)
      BY <3>1, PipeWriteWakes DEF SchedInv
    <3>. QED BY <1>11, <2>1, <3>1, <3>2
  <2>3. CASE WriteWouldBlock(q, n)
    BY <1>13, <2>1, <2>3, BlockStack DEF Write
  <2>. QED BY <2>2, <2>3
<1>14. ASSUME NEW f, Close(f) PROVE StackInv'
  <2>1. /\ pc = "user" /\ pipe_close(fds[Me][f]) /\ Return
        /\ on' = tss /\ UNCHANGED <<kstack, stack_free>>
    BY <1>14 DEF Close, Syscall, idVars
  <2>2. PICK w \in Slot \cup {0} : (w # 0 => state[w] = "BLOCKED") /\ scheduler_wake(w)
    BY <2>1, PipeCloseWakes DEF SchedInv
  <2>. QED BY <1>11, <2>1, <2>2
<1>. QED
  BY <1>1, <1>3, <1>4, <1>5, <1>6, <1>7, <1>8, <1>9, <1>10, <1>12, <1>13, <1>14
     DEF UserStep

(* The timer interrupt.                                                     *)
LEMMA TimerStack ==
    ASSUME StackInv, SchedInv, Timer
    PROVE  StackInv'
<1>1. /\ pc = "user" /\ pc' = "deliver" /\ on' = tss
      /\ UNCHANGED <<kstack, stack_free>>
  BY DEF Timer, idVars
<1>2. CASE ~CanPreempt
  <2>1. UNCHANGED <<state, cur, tss>>
    BY <1>2 DEF Timer
  <2>. QED BY <1>1, <2>1, QuietStack
<1>3. CASE CanPreempt
  <2>. DEFINE d == dequeue_best(queue, dyn)
  <2>1. queue # <<>>
    BY <1>3 DEF CanPreempt
  <2>2. d \in Seq(Slot) /\ cur \in Slot
    BY <2>1, NextFacts DEF SchedInv, SchedType
  <2>3. /\ state' = [state EXCEPT ![cur] = "READY", ![Next1] = "RUNNING"]
        /\ Dispatch(Enqueue(d, cur), Next1)
    BY <1>3 DEF Timer
  <2>. HIDE DEF d
  <2>4. Enqueue(d, cur) \in Seq(Slot)
    BY <2>2, EnqueueFacts
  <2>. QED BY <1>1, <2>1, <2>3, <2>4, SwitchStack
<1>. QED BY <1>2, <1>3

(* Every step of a trap.                                                    *)
LEMMA KernelStackStep ==
    ASSUME StackInv, SchedInv, KernelStep
    PROVE  StackInv'
<1>1. ASSUME pc # "user", UNCHANGED <<state, kstack, stack_free, cur, tss, on>>,
             pc' \notin {"user", "reap"}
      PROVE  StackInv'
  BY <1>1, QuietStack
<1>2. CASE CloseNext
  <2>1. PICK e : pipe_close(e)
    BY <1>2 DEF CloseNext
  <2>2. PICK w \in Slot \cup {0} : (w # 0 => state[w] = "BLOCKED") /\ scheduler_wake(w)
    BY <2>1, PipeCloseWakes DEF SchedInv
  <2>3. pc = "closing" /\ UNCHANGED <<kstack, stack_free, cur, tss, pc, on>>
    BY <1>2 DEF CloseNext, cpuVars, idVars
  <2>. QED BY <2>2, <2>3, WakeStack
<1>3. CASE CloseDone
  BY <1>1, <1>3 DEF CloseDone, idVars, schedVars
<1>4. CASE Notify
  <2>1. /\ pc = "notify" /\ pc' = "stop"
        /\ UNCHANGED <<kstack, stack_free, cur, tss, on>>
    BY <1>4 DEF Notify, idVars
  <2>2. cur \in Slot /\ state[cur] = "RUNNING" /\ tss = kstack[cur]
    BY <2>1 DEF SchedInv, SchedType, RunningIsCurrent, StackInv, TssIsCurrent
  <2>3. DeadSame
    <3>. DEFINE par == process_get_by_pid(parent[cur])
    <3>1. \/ state' = [state EXCEPT ![cur] = "ZOMBIE"]
          \/ /\ state' = [state EXCEPT ![cur] = "ZOMBIE", ![par] = "READY"]
             /\ state[par] = "BLOCKED"
      BY <1>4 DEF Notify, WaitsFor
    <3>. HIDE DEF par
    <3>2. CASE state' = [state EXCEPT ![cur] = "ZOMBIE"]
      BY <2>2, <3>2 DEF DeadSame, SchedInv, SchedType
    <3>3. CASE /\ state' = [state EXCEPT ![cur] = "ZOMBIE", ![par] = "READY"]
               /\ state[par] = "BLOCKED"
      BY <2>2, <3>3 DEF DeadSame, SchedInv, SchedType
    <3>. QED BY <3>1, <3>2, <3>3
  <2>. QED BY <2>1, <2>2, <2>3, StackStep
<1>5. CASE Stop
  <2>1. /\ pc = "stop" /\ pc' \in {"deliver", "resume"}
        /\ UNCHANGED <<kstack, stack_free, on>>
        /\ cur \in Slot /\ state[cur] = "ZOMBIE"
    BY <1>5 DEF Stop, AfterStop, idVars, SchedInv, SchedType, StoppedIsZombie
  <2>2. CASE queue # <<>>
    <3>1. HasNext /\ dequeue_best(queue, dyn) \in Seq(Slot) /\ Next1 \in Slot
      BY <2>2, NextFacts DEF SchedInv
    <3>2. /\ state' = [state EXCEPT ![Next1] = "RUNNING"]
          /\ Dispatch(dequeue_best(queue, dyn), Next1)
      BY <1>5, <3>1 DEF Stop
    <3>3. state' = [state EXCEPT ![cur] = "ZOMBIE", ![Next1] = "RUNNING"]
      BY <2>1, <3>1, <3>2 DEF SchedInv, SchedType
    <3>. QED BY <2>1, <2>2, <3>1, <3>2, <3>3, SwitchStack
  <2>3. CASE queue = <<>>
    <3>1. ~HasNext
      BY <2>3 DEF HasNext
    <3>2. UNCHANGED <<state, cur, tss>>
      BY <1>5, <3>1 DEF Stop
    <3>. QED BY <1>1, <2>1, <3>2
  <2>. QED BY <2>2, <2>3
<1>6. CASE DeliverFatal
  BY <1>1, <1>6 DEF DeliverFatal, Delivering, MarkExit, idVars
<1>7. CASE DeliverChild
  BY <1>1, <1>7 DEF DeliverChild, Delivering, idVars, schedVars, cpuVars
<1>8. CASE DeliverDone
  BY <1>1, <1>8 DEF DeliverDone, idVars, schedVars
<1>9. CASE Resume
  <2>1. /\ pc = "resume" /\ esp # 0 /\ pc' = "reap" /\ on' = kstack[esp]
        /\ UNCHANGED <<kstack, stack_free, cur, tss>>
        /\ process_complete_pipe_io
    BY <1>9 DEF Resume, idVars
  <2>2. esp = cur /\ on' = kstack[cur]
    BY <2>1 DEF SchedInv, RunningIsCurrent
  <2>3. \/ \E q, n : pipe_read(q, n)
        \/ \E q, n : pipe_write(q, n)
        \/ UNCHANGED <<state, queue>>
    BY <2>1, CompleteIoCases
  <2>4. ASSUME NEW q, NEW n, pipe_read(q, n) \/ pipe_write(q, n) PROVE StackInv'
    <3>1. PICK w \in Slot \cup {0} : (w # 0 => state[w] = "BLOCKED") /\ scheduler_wake(w)
      BY <2>4, PipeReadWakes, PipeWriteWakes DEF SchedInv
    <3>. QED BY <2>1, <2>2, <3>1, WakeStack
  <2>5. CASE UNCHANGED <<state, queue>>
    BY <2>1, <2>2, <2>5, QuietStack
  <2>. QED BY <2>3, <2>4, <2>5
<1>10. CASE Reap
  <2>. DEFINE D == {p \in Slot : Unclaimed(p)}
  <2>1. pc = "reap" /\ UNCHANGED <<cur, tss, on>> /\ process_destroy(D)
    BY <1>10 DEF Reap
  <2>2. state[cur] = "RUNNING" /\ on = kstack[cur]
    BY <2>1 DEF SchedInv, RunningIsCurrent, StackInv, OnLiveStack
  <2>3. D \in SUBSET Slot /\ \A p \in D : state[p] = "ZOMBIE"
    BY DEF Unclaimed
  <2>. HIDE DEF D
  <2>. QED BY <2>1, <2>2, <2>3, DestroyStack
<1>11. CASE NoFrame
  BY <1>1, <1>11 DEF NoFrame, idVars, schedVars
<1>. QED
  BY <1>2, <1>3, <1>4, <1>5, <1>6, <1>7, <1>8, <1>9, <1>10, <1>11 DEF KernelStep

(* A stuttering step and the halted CPU change no stack.                    *)
LEMMA IdleStack ==
    ASSUME StackInv, UNCHANGED vars
    PROVE  StackInv'
<1>1. UNCHANGED <<state, cur, kstack, stack_free, tss, on, pc>>
  BY DEF vars, idVars, schedVars, cpuVars
<1>. QED BY <1>1 DEF StackInv, StackType, StacksOwned, TssIsCurrent, OnLiveStack

(* The first process owns the stack it runs on, all others are free.        *)
LEMMA InitStack == Init => StackInv
<1>. SUFFICES ASSUME Init PROVE StackInv
  OBVIOUS
<1>1. 1 \in Slot /\ 1 \in Stack /\ 0 \notin Stack
  BY KernelAssumption DEF Slot, Stack
<1>2. /\ \A p \in Slot : state[p] = IF p = 1 THEN "RUNNING" ELSE "DEAD"
      /\ kstack = [p \in Slot |-> IF p = 1 THEN 1 ELSE 0]
      /\ stack_free = Stack \ {1} /\ tss = 1 /\ on = 1 /\ cur = 1 /\ pc = "user"
  BY DEF Init
<1>3. StackType
  BY <1>1, <1>2 DEF StackType
<1>4. StacksOwned
  BY <1>1, <1>2 DEF StacksOwned
<1>. QED BY <1>1, <1>2, <1>3, <1>4 DEF StackInv, TssIsCurrent, OnLiveStack

(* StackInv holds in every state the kernel reaches.                        *)
LEMMA StackInvariant == Spec => []StackInv
<1>1. StackInv /\ SchedInv /\ [Next]_vars => StackInv'
  BY UserStack, TimerStack, KernelStackStep, IdleStack DEF Next, Halted
<1>. QED BY <1>1, InitStack, SchedInvariant, PTL DEF Spec

(* stack_pool is partitioned: no slot of it is ever owned by two processes, *)
(* leaked, or free while it is owned, through any order of forks, exits,    *)
(* waits and reaps.                                                         *)
THEOREM StacksPartitioned == Spec => []StacksOwned
<1>1. StackInv => StacksOwned
  BY DEF StackInv
<1>. QED BY <1>1, StackInvariant, PTL

(* A trap never executes on a stack that is on the free list, and the TSS   *)
(* hands the next trap the stack of the process it interrupts.              *)
THEOREM StackLive == Spec => []OnLiveStack
<1>1. StackInv => OnLiveStack
  BY DEF StackInv
<1>. QED BY <1>1, StackInvariant, PTL

-----------------------------------------------------------------------------
(* process_count *)

InUse == {p \in Slot : state[p] # "DEAD"}

(* The process table is finite.                                             *)
LEMMA SlotsFinite == IsFiniteSet(Slot) /\ \A S \in SUBSET Slot : IsFiniteSet(S)
<1>1. IsFiniteSet(Slot)
  BY KernelAssumption, FS_Interval DEF Slot
<1>. QED BY <1>1, FS_Subset

(* Removing part of a finite set subtracts its size.                        *)
LEMMA CardinalityDifference ==
    ASSUME NEW S, IsFiniteSet(S), NEW D \in SUBSET S
    PROVE  Cardinality(S \ D) = Cardinality(S) - Cardinality(D)
<1>1. IsFiniteSet(D) /\ IsFiniteSet(S \ D)
  BY FS_Subset
<1>2. Cardinality((S \ D) \cup D) =
        Cardinality(S \ D) + Cardinality(D) - Cardinality((S \ D) \cap D)
  BY <1>1, FS_Union
<1>3. (S \ D) \cup D = S /\ (S \ D) \cap D = {}
  OBVIOUS
<1>4. Cardinality(S \ D) \in Nat /\ Cardinality(D) \in Nat
  BY <1>1, FS_CardinalityType
<1>5. Cardinality((S \ D) \cap D) = 0 /\ Cardinality((S \ D) \cup D) = Cardinality(S)
  BY <1>3, FS_EmptySet, Zenon
<1>. QED BY <1>2, <1>4, <1>5

(* process_destroy takes exactly the slots it clears off process_count.     *)
LEMMA DestroyCount ==
    ASSUME CountIsLive, SchedInv,
           NEW D \in SUBSET Slot, \A p \in D : state[p] = "ZOMBIE",
           process_destroy(D)
    PROVE  CountIsLive'
<1>1. InUse' = InUse \ D
  BY DEF process_destroy, InUse
<1>2. D \in SUBSET InUse /\ IsFiniteSet(InUse)
  BY SlotsFinite DEF InUse
<1>3. Cardinality(InUse \ D) = Cardinality(InUse) - Cardinality(D)
  BY <1>2, CardinalityDifference
<1>4. process_count = Cardinality(InUse)
  BY DEF CountIsLive, InUse
<1>5. process_count' = Cardinality(InUse')
  BY <1>1, <1>3, <1>4 DEF process_destroy
<1>. QED BY <1>5 DEF CountIsLive, InUse

(* fork adds one to process_count and takes one free slot.                  *)
LEMMA ForkCount ==
    ASSUME CountIsLive, SchedInv, Fork
    PROVE  CountIsLive'
<1>. DEFINE Z == {p \in Slot : state[p] = "DEAD"}
            child == Lowest(Z)
<1>1. child \in Slot /\ state[child] = "DEAD"
  <2>1. Z \subseteq Nat /\ Lowest(Z) # 0
    BY DEF Slot, Fork
  <2>. HIDE DEF Z
  <2>2. Lowest(Z) \in Z
    BY <2>1, LowestFacts
  <2>. QED BY <2>2 DEF Z
<1>2. /\ state' = [state EXCEPT ![child] = "READY"]
      /\ process_count' = process_count + 1
  BY DEF Fork
<1>. HIDE DEF child
<1>3. InUse' = InUse \cup {child} /\ child \notin InUse
  BY <1>1, <1>2 DEF InUse, SchedInv, SchedType
<1>4. IsFiniteSet(InUse)
  BY SlotsFinite DEF InUse
<1>5. Cardinality(InUse \cup {child}) = Cardinality(InUse) + 1
  BY <1>3, <1>4, FS_AddElement
<1>6. process_count = Cardinality(InUse)
  BY DEF CountIsLive, InUse
<1>7. process_count' = Cardinality(InUse')
  BY <1>2, <1>3, <1>5, <1>6
<1>. QED BY <1>7 DEF CountIsLive, InUse

(* Every other step leaves the stacks alone, hence by StacksOwned the set   *)
(* of slots in use.                                                         *)
LEMMA SameCount ==
    ASSUME CountIsLive, StackInv, StackInv', UNCHANGED <<kstack, process_count>>
    PROVE  CountIsLive'
<1>1. \A p \in Slot : state'[p] = "DEAD" <=> state[p] = "DEAD"
  BY DEF StackInv, StacksOwned
<1>. QED BY <1>1 DEF CountIsLive

(* Every step keeps process_count equal to the slots in use.                *)
LEMMA NextCount ==
    ASSUME CountIsLive, SchedInv, StackInv, StackInv', [Next]_vars
    PROVE  CountIsLive'
<1>1. CASE Fork
  BY <1>1, ForkCount
<1>2. ASSUME NEW by, NEW t, WaitCollect(by, t) PROVE CountIsLive'
  <2>. DEFINE Z == {p \in Slot : /\ parent[p] = pid[Me]
                                 /\ state[p] = "ZOMBIE"
                                 /\ ~waited[p]
                                 /\ t \in {0, pid[p]}}
              child == ExitedChild(t)
  <2>1. child \in Slot /\ state[child] = "ZOMBIE"
    <3>1. Z \subseteq Nat /\ child = Lowest(Z) /\ child # 0
      BY <1>2 DEF Slot, ExitedChild, WaitCollect
    <3>2. child \in Z
      <4>. HIDE DEF Z, child
      <4>. QED BY <3>1, LowestFacts
    <3>. QED BY <3>2
  <2>2. process_destroy({child})
    BY <1>2 DEF WaitCollect
  <2>. HIDE DEF child
  <2>3. {child} \in SUBSET Slot /\ \A p \in {child} : state[p] = "ZOMBIE"
    BY <2>1
  <2>. QED BY <2>2, <2>3, DestroyCount
<1>3. CASE Reap
  <2>. DEFINE D == {p \in Slot : Unclaimed(p)}
  <2>1. process_destroy(D) /\ D \in SUBSET Slot /\ \A p \in D : state[p] = "ZOMBIE"
    BY <1>3 DEF Reap, Unclaimed
  <2>. HIDE DEF D
  <2>. QED BY <2>1, DestroyCount
<1>4. ASSUME UNCHANGED idVars PROVE CountIsLive'
  BY <1>4, SameCount DEF idVars
<1>5. CASE UserStep
  <2>1. ASSUME NEW c, Exit(c) \/ FatalFault(c) PROVE UNCHANGED idVars
    BY <2>1 DEF Exit, FatalFault
  <2>2. ASSUME HandledFault \/ SysPipe \/ Other PROVE UNCHANGED idVars
    BY <2>2 DEF HandledFault, SysPipe, Other
  <2>3. ASSUME NEW x, NEW y, WaitBlock(x, y) \/ Kill(x, y) \/ Read(x, y) \/ Write(x, y)
        PROVE  UNCHANGED idVars
    BY <2>3 DEF WaitBlock, Kill, Read, Write
  <2>4. ASSUME NEW f, Close(f) PROVE UNCHANGED idVars
    BY <2>4 DEF Close
  <2>. QED BY <1>1, <1>2, <1>4, <1>5, <2>1, <2>2, <2>3, <2>4 DEF UserStep
<1>6. CASE Timer
  BY <1>4, <1>6 DEF Timer
<1>7. CASE KernelStep
  <2>1. CASE CloseNext \/ CloseDone \/ Notify \/ Stop
    BY <1>4, <2>1 DEF CloseNext, CloseDone, Notify, Stop
  <2>2. CASE DeliverFatal \/ DeliverChild \/ DeliverDone
    BY <1>4, <2>2 DEF DeliverFatal, DeliverChild, DeliverDone
  <2>3. CASE Resume \/ NoFrame
    BY <1>4, <2>3 DEF Resume, NoFrame
  <2>. QED BY <1>3, <1>7, <2>1, <2>2, <2>3 DEF KernelStep
<1>8. CASE Halted \/ UNCHANGED vars
  BY <1>4, <1>8 DEF Halted, vars
<1>. QED BY <1>5, <1>6, <1>7, <1>8 DEF Next

(* At the start process_count is 1 and one slot is in use.                  *)
LEMMA InitCount == Init => CountIsLive
<1>. SUFFICES ASSUME Init PROVE CountIsLive
  OBVIOUS
<1>1. {p \in Slot : state[p] # "DEAD"} = {1}
  BY KernelAssumption DEF Init, Slot
<1>. QED BY <1>1, FS_Singleton DEF CountIsLive, Init

(* fork, wait and the reaping of orphans keep exact account of the slots,   *)
(* the kernel stacks and process_count, for every size of the table and of  *)
(* the stack pool.                                                          *)
THEOREM ResourcesExact == Spec => []ProcessResources
<1>1. CountIsLive /\ SchedInv /\ StackInv /\ StackInv' /\ [Next]_vars => CountIsLive'
  BY NextCount
<1>2. Spec => []CountIsLive
  BY <1>1, InitCount, SchedInvariant, StackInvariant, PTL DEF Spec
<1>3. StacksOwned /\ CountIsLive => ProcessResources
  BY DEF ProcessResources
<1>. QED BY <1>2, <1>3, StacksPartitioned, PTL

-----------------------------------------------------------------------------
(* The type invariant.  SchedType and StackType, already proved, are part   *)
(* of it; here are the other parts.                                         *)

IdType == pid \in [Slot -> Nat] /\ next_pid \in Nat /\ process_count \in Int

ExitType ==
    /\ parent \in [Slot -> Nat]
    /\ waited \in [Slot -> BOOLEAN]
    /\ code \in [Slot -> Nat]
    /\ sig \in [Slot -> {0, KILL, TERM}]
    /\ pend \in [Slot -> SUBSET Signal]

Block == [why : {"none", "child", "read", "write"}, arg : Nat, n : Nat]
Done  == [pid : Nat, by : {"none", "wait", "waitpid"}, status : Nat]

BlockType == blk \in [Slot -> Block] /\ done \in [Slot -> Done]

PipeType ==
    /\ fds \in [Slot -> [Fd -> PipeEnd]]
    /\ readers \in [Pipe -> Int]
    /\ writers \in [Pipe -> Int]
    /\ fill \in [Pipe -> 0 .. PIPE_CAPACITY]

TrapType ==
    /\ pc \in {"user", "closing", "notify", "stop", "deliver", "resume", "reap",
               "halted", "wild"}
    /\ trap \in {"none", "syscall", "timer", "fault"}

Ending == [code : Nat, sig : {0, KILL, TERM}, dead : BOOLEAN]
Seen   == [by : {"none", "wait", "waitpid"}, status : Nat]

HistType == log \in [Pid -> Ending] /\ got \in [Pid -> Seq(Seen)]

RestType ==
    /\ IdType
    /\ ExitType
    /\ BlockType
    /\ PipeType
    /\ TrapType
    /\ HistType

(* The type invariant is the three parts the proofs keep apart.             *)
LEMMA TypeParts == SchedType /\ StackType /\ RestType => TypeOK
BY DEF TypeOK, SchedType, StackType, RestType, IdType, ExitType, BlockType,
       PipeType, TrapType, HistType, Block, Done, Ending, Seen

(* Status words are naturals.                                               *)
LEMMA StatusType ==
    ASSUME NEW by, NEW c \in Nat, NEW s \in {0, KILL, TERM}
    PROVE  Reported(by, c, s) \in Nat /\ MaskExit(c) \in Nat
<1>1. c % 256 \in Nat /\ s % 128 \in Nat /\ 0 % 256 \in Nat /\ 0 % 128 \in Nat
  BY DEF KILL, TERM
<1>2. /\ (c % 256) * 256 + (s % 128) \in Nat
      /\ (0 % 256) * 256 + (s % 128) \in Nat
      /\ (c % 256) * 256 + (0 % 128) \in Nat
  BY <1>1
<1>3. EncodedStatus(c, s) \in Nat
  BY <1>2 DEF EncodedStatus, W_EXITCODE
<1>. QED BY <1>1, <1>3 DEF Reported, MaskExit

(* The values a cleared field takes are in the range of the field.          *)
LEMMA BlankTypes == NoBlock \in Block /\ NoDone \in Done /\ NoEnd \in PipeEnd
BY DEF NoBlock, Block, NoDone, Done, NoEnd, PipeEnd

(* process_mark_exit stores a code, a signal and their record.              *)
LEMMA MarkExitType ==
    ASSUME ExitType, HistType, NEW p, NEW c \in Nat, NEW s \in {0, KILL, TERM},
           MarkExit(p, c, s)
    PROVE  /\ code' \in [Slot -> Nat]
           /\ sig' \in [Slot -> {0, KILL, TERM}]
           /\ log' \in [Pid -> Ending]
           /\ pc' = "closing"
<1>1. MaskExit(c) \in Nat
  BY StatusType
<1>2. [code |-> MaskExit(c), sig |-> s, dead |-> TRUE] \in Ending
  BY <1>1 DEF Ending
<1>. QED BY <1>1, <1>2 DEF MarkExit, ExitType, HistType

(* A pipe end moved, a byte count changed.                                  *)
LEMMA PipeOpsType ==
    ASSUME PipeType, NEW q, NEW n \in Nat, fds' = fds,
           pipe_read(q, n) \/ pipe_write(q, n)
    PROVE  PipeType'
<1>1. PIPE_CAPACITY \in Nat
  BY KernelAssumption
<1>2. CASE pipe_read(q, n)
  <2>1. /\ readers' = readers /\ writers' = writers
        /\ fill' = [fill EXCEPT ![q] = @ - Smaller(n, @)]
    BY <1>2 DEF pipe_read
  <2>2. \A x \in 0 .. PIPE_CAPACITY : x - Smaller(n, x) \in 0 .. PIPE_CAPACITY
    BY <1>1 DEF Smaller
  <2>3. fill' \in [Pipe -> 0 .. PIPE_CAPACITY]
    BY <2>1, <2>2 DEF PipeType
  <2>. QED BY <2>1, <2>3 DEF PipeType
<1>3. CASE pipe_write(q, n)
  <2>1. /\ readers' = readers /\ writers' = writers
        /\ \/ fill' = [fill EXCEPT ![q] = @]
           \/ fill' = [fill EXCEPT ![q] = @ + Smaller(n, PIPE_CAPACITY - fill[q])]
    BY <1>3 DEF pipe_write, Space
  <2>2. \A x \in 0 .. PIPE_CAPACITY :
            x + Smaller(n, PIPE_CAPACITY - x) \in 0 .. PIPE_CAPACITY
    BY <1>1 DEF Smaller
  <2>3. fill' \in [Pipe -> 0 .. PIPE_CAPACITY]
    BY <2>1, <2>2 DEF PipeType
  <2>. QED BY <2>1, <2>3 DEF PipeType
<1>. QED BY <1>2, <1>3

(* pipe_close keeps the pipe fields and the process table in range.         *)
LEMMA PipeCloseType ==
    ASSUME PipeType, NEW e \in PipeEnd, pipe_close(e), NEW p \in Slot, NEW f \in Fd,
           fds' = [fds EXCEPT ![p][f] = NoEnd]
    PROVE  PipeType'
<1>1. fds' \in [Slot -> [Fd -> PipeEnd]]
  BY BlankTypes DEF PipeType
<1>. DEFINE q == e.pipe
            r == IF e.end = "r" THEN readers[q] - 1 ELSE readers[q]
            w == IF e.end = "w" THEN writers[q] - 1 ELSE writers[q]
<1>2. /\ readers' = [readers EXCEPT ![q] = r]
      /\ writers' = [writers EXCEPT ![q] = w]
      /\ fill' = [fill EXCEPT ![q] = IF r = 0 /\ w = 0 THEN 0 ELSE @]
  BY DEF pipe_close
<1>3. readers' \in [Pipe -> Int] /\ writers' \in [Pipe -> Int]
  <2>1. CASE q \in Pipe
    BY <1>2, <2>1 DEF PipeType
  <2>2. CASE q \notin Pipe
    <3>1. readers' = readers /\ writers' = writers
      BY <1>2, <2>2 DEF PipeType
    <3>. QED BY <3>1 DEF PipeType
  <2>. QED BY <2>1, <2>2
<1>4. fill' \in [Pipe -> 0 .. PIPE_CAPACITY]
  <2>1. 0 \in 0 .. PIPE_CAPACITY
    BY KernelAssumption
  <2>. HIDE DEF q, r, w
  <2>2. CASE r = 0 /\ w = 0
    BY <1>2, <2>1, <2>2 DEF PipeType
  <2>3. CASE ~(r = 0 /\ w = 0)
    BY <1>2, <2>3 DEF PipeType
  <2>. QED BY <2>2, <2>3
<1>. QED BY <1>1, <1>3, <1>4 DEF PipeType

(* process_destroy blanks the fields of the slots it frees.                 *)
LEMMA DestroyType ==
    ASSUME RestType, NEW D \in SUBSET Slot, process_destroy(D), next_pid' = next_pid
    PROVE  IdType' /\ ExitType' /\ BlockType'
<1>1. IsFiniteSet(D) /\ Cardinality(D) \in Nat
  BY SlotsFinite, FS_CardinalityType
<1>2. IdType'
  BY <1>1 DEF process_destroy, RestType, IdType
<1>3. ExitType'
  BY DEF process_destroy, RestType, ExitType
<1>4. BlockType'
  BY BlankTypes DEF process_destroy, RestType, BlockType
<1>. QED BY <1>2, <1>3, <1>4

(* What a step does not touch keeps its type.                               *)
LEMMA Kept ==
    ASSUME RestType
    PROVE  /\ UNCHANGED idVars => IdType'
           /\ UNCHANGED <<exitVars, pend>> => ExitType'
           /\ UNCHANGED blockVars => BlockType'
           /\ UNCHANGED <<fds, pipeVars>> => PipeType'
           /\ UNCHANGED histVars => HistType'
<1>1. UNCHANGED idVars => IdType'
  BY DEF RestType, IdType, idVars
<1>2. UNCHANGED <<exitVars, pend>> => ExitType'
  BY DEF RestType, ExitType, exitVars
<1>3. UNCHANGED blockVars => BlockType'
  BY DEF RestType, BlockType, blockVars
<1>4. UNCHANGED <<fds, pipeVars>> => PipeType'
  BY DEF RestType, PipeType, pipeVars
<1>5. UNCHANGED histVars => HistType'
  BY DEF RestType, HistType, histVars
<1>. QED BY <1>1, <1>2, <1>3, <1>4, <1>5

(* A process blocks with reason b, or does not block.                       *)
LEMMA BlockCurrentType ==
    ASSUME RestType, NEW b \in Block, BlockCurrent(b), done' = done
    PROVE  BlockType' /\ pc' = "deliver"
BY DEF BlockCurrent, RestType, BlockType

(* fork keeps the fields it copies to the child in range.                   *)
LEMMA ForkType ==
    ASSUME SchedInv, RestType, Fork
    PROVE  RestType'
<1>. DEFINE child == Lowest({p \in Slot : state[p] = "DEAD"})
<1>1. pc = "user" /\ cur \in Slot /\ Me = cur
  BY UserFacts DEF Fork, Syscall
<1>2. IdType'
  <2>1. /\ pid' = [pid EXCEPT ![child] = next_pid]
        /\ next_pid' = next_pid + 1
        /\ process_count' = process_count + 1
    BY DEF Fork
  <2>. HIDE DEF child
  <2>2. next_pid \in Nat /\ process_count \in Int /\ pid \in [Slot -> Nat]
    BY DEF RestType, IdType
  <2>3. next_pid + 1 \in Nat /\ process_count + 1 \in Int
    BY <2>2
  <2>4. [pid EXCEPT ![child] = next_pid] \in [Slot -> Nat]
    BY <2>2
  <2>. QED BY <2>1, <2>3, <2>4 DEF IdType
<1>3. ExitType'
  <2>1. /\ parent' = [parent EXCEPT ![child] = pid[cur]]
        /\ UNCHANGED <<waited, code, sig, pend>>
    BY <1>1 DEF Fork
  <2>. HIDE DEF child
  <2>2. pid[cur] \in Nat
    BY <1>1 DEF RestType, IdType
  <2>. QED BY <2>1, <2>2 DEF RestType, ExitType
<1>4. PipeType'
  <2>1. /\ fds' = [fds EXCEPT ![child] = fds[cur]]
        /\ readers' = [q \in Pipe |-> readers[q] + Cardinality(Ends(cur, q, "r"))]
        /\ writers' = [q \in Pipe |-> writers[q] + Cardinality(Ends(cur, q, "w"))]
        /\ fill' = fill
    BY <1>1 DEF Fork
  <2>. HIDE DEF child
  <2>2. \A q, e : Cardinality(Ends(cur, q, e)) \in Nat
    <3>1. IsFiniteSet(Fd)
      BY KernelAssumption, FS_Interval DEF Fd
    <3>2. \A q, e : Ends(cur, q, e) \in SUBSET Fd
      BY DEF Ends
    <3>3. \A q, e : IsFiniteSet(Ends(cur, q, e))
      BY <3>1, <3>2, FS_Subset
    <3>. QED BY <3>3, FS_CardinalityType
  <2>3. fds' \in [Slot -> [Fd -> PipeEnd]]
    BY <1>1, <2>1 DEF RestType, PipeType
  <2>. QED BY <2>1, <2>2, <2>3 DEF RestType, PipeType
<1>5. TrapType'
  BY DEF Fork, Syscall, TrapType
<1>6. BlockType' /\ HistType'
  BY Kept DEF Fork
<1>. QED BY <1>2, <1>3, <1>4, <1>5, <1>6 DEF RestType

(* What a user program can make the kernel do keeps the fields in range.    *)
LEMMA UserType ==
    ASSUME SchedInv, RestType, UserStep
    PROVE  RestType'
<1>1. CASE Fork
  BY <1>1, ForkType
<1>2. ASSUME NEW c \in ExitCodes, Exit(c) PROVE RestType'
  <2>1. c \in Nat /\ MarkExit(Me, c, 0)
    BY <1>2, KernelAssumption DEF Exit
  <2>2. /\ code' \in [Slot -> Nat] /\ sig' \in [Slot -> {0, KILL, TERM}]
        /\ log' \in [Pid -> Ending] /\ pc' = "closing"
    BY <2>1, MarkExitType DEF RestType
  <2>3. ExitType' /\ HistType'
    BY <1>2, <2>2 DEF Exit, RestType, ExitType, HistType
  <2>4. TrapType'
    BY <1>2, <2>2 DEF Exit, Syscall, TrapType
  <2>5. IdType' /\ BlockType' /\ PipeType'
    BY <1>2, Kept DEF Exit
  <2>. QED BY <2>3, <2>4, <2>5 DEF RestType
<1>3. ASSUME NEW c \in Faults, FatalFault(c) PROVE RestType'
  <2>1. c \in Nat /\ MarkExit(cur, c, 0)
    BY <1>3, KernelAssumption DEF FatalFault
  <2>2. /\ code' \in [Slot -> Nat] /\ sig' \in [Slot -> {0, KILL, TERM}]
        /\ log' \in [Pid -> Ending] /\ pc' = "closing"
    BY <2>1, MarkExitType DEF RestType
  <2>3. ExitType' /\ HistType'
    BY <1>3, <2>2 DEF FatalFault, RestType, ExitType, HistType
  <2>4. TrapType'
    BY <1>3, <2>2 DEF FatalFault, TrapType
  <2>5. IdType' /\ BlockType' /\ PipeType'
    BY <1>3, Kept DEF FatalFault
  <2>. QED BY <2>3, <2>4, <2>5 DEF RestType
<1>4. CASE HandledFault
  <2>1. IdType' /\ ExitType' /\ BlockType' /\ PipeType' /\ HistType'
    BY <1>4, Kept DEF HandledFault
  <2>2. TrapType'
    BY <1>4 DEF HandledFault, TrapType
  <2>. QED BY <2>1, <2>2 DEF RestType
<1>5. ASSUME NEW by \in {"wait", "waitpid"}, NEW t, WaitCollect(by, t) PROVE RestType'
  <2>. DEFINE child == ExitedChild(t)
              Z == {p \in Slot : /\ parent[p] = pid[Me]
                                 /\ state[p] = "ZOMBIE"
                                 /\ ~waited[p]
                                 /\ t \in {0, pid[p]}}
  <2>1. child \in Slot
    <3>1. Z \subseteq Nat /\ child = Lowest(Z) /\ child # 0
      BY <1>5 DEF Slot, ExitedChild, WaitCollect
    <3>2. child \in Z
      <4>. HIDE DEF Z, child
      <4>. QED BY <3>1, LowestFacts
    <3>. QED BY <3>2
  <2>2. /\ process_destroy({child}) /\ next_pid' = next_pid
        /\ got' = [got EXCEPT ![pid[child]] =
                      Append(@, [by |-> by,
                                 status |-> Reported(by, code[child], sig[child])])]
        /\ log' = log
        /\ UNCHANGED <<fds, pipeVars>> /\ pc' = "deliver" /\ trap' = "syscall"
    BY <1>5 DEF WaitCollect, Syscall
  <2>. HIDE DEF child
  <2>3. IdType' /\ ExitType' /\ BlockType'
    BY <2>1, <2>2, DestroyType
  <2>4. HistType'
    <3>. DEFINE rec == [by |-> by, status |-> Reported(by, code[child], sig[child])]
    <3>1. code[child] \in Nat /\ sig[child] \in {0, KILL, TERM}
      BY <2>1 DEF RestType, ExitType
    <3>2. rec \in Seen
      BY <3>1, StatusType DEF Seen
    <3>. HIDE DEF rec
    <3>3. \A x \in Seq(Seen) : Append(x, rec) \in Seq(Seen)
      BY <3>2, AppendProperties
    <3>4. got' \in [Pid -> Seq(Seen)]
      BY <2>2, <3>3 DEF RestType, HistType, rec
    <3>. QED BY <2>2, <3>4 DEF RestType, HistType
  <2>5. PipeType'
    BY <2>2, Kept
  <2>6. TrapType'
    BY <2>2 DEF TrapType
  <2>. QED BY <2>3, <2>4, <2>5, <2>6 DEF RestType
<1>6. ASSUME NEW by, NEW t \in Nat, WaitBlock(by, t) PROVE RestType'
  <2>. DEFINE b == [why |-> "child", arg |-> t, n |-> IF by = "waitpid" THEN 1 ELSE 0]
  <2>1. b \in Block
    BY DEF Block
  <2>2. BlockCurrent(b) /\ done' = done
    BY <1>6 DEF WaitBlock
  <2>. HIDE DEF b
  <2>3. BlockType' /\ pc' = "deliver"
    BY <2>1, <2>2, BlockCurrentType
  <2>4. IdType' /\ ExitType' /\ PipeType' /\ HistType'
    BY <1>6, Kept DEF WaitBlock
  <2>5. TrapType'
    BY <1>6, <2>3 DEF WaitBlock, Syscall, TrapType
  <2>. QED BY <2>3, <2>4, <2>5 DEF RestType
<1>7. ASSUME NEW x, NEW s \in Signals, Kill(x, s) PROVE RestType'
  <2>1. s \in Signal
    BY KernelAssumption DEF Signal
  <2>2. ExitType'
    BY <1>7, <2>1 DEF Kill, RestType, ExitType, exitVars
  <2>3. IdType' /\ BlockType' /\ PipeType' /\ HistType'
    BY <1>7, Kept DEF Kill
  <2>4. TrapType'
    BY <1>7 DEF Kill, Syscall, Return, TrapType
  <2>. QED BY <2>2, <2>3, <2>4 DEF RestType
<1>8. CASE SysPipe
  <2>. DEFINE q == Lowest({x \in Pipe : readers[x] = 0 /\ writers[x] = 0})
              rfd == Lowest(FreeFds(Me))
              wfd == Lowest(FreeFds(Me) \ {rfd})
  <2>1. /\ readers' = [readers EXCEPT ![q] = 1]
        /\ writers' = [writers EXCEPT ![q] = 1]
        /\ fill' = [fill EXCEPT ![q] = 0]
        /\ fds' = [fds EXCEPT ![Me][rfd] = [pipe |-> q, end |-> "r"],
                              ![Me][wfd] = [pipe |-> q, end |-> "w"]]
        /\ q # 0
    BY <1>8 DEF SysPipe
  <2>2. q \in Pipe
    <3>. DEFINE Z == {x \in Pipe : readers[x] = 0 /\ writers[x] = 0}
    <3>1. Z \subseteq Nat /\ q = Lowest(Z)
      BY DEF Pipe
    <3>2. q \in Z
      <4>. HIDE DEF Z, q
      <4>. QED BY <2>1, <3>1, LowestFacts
    <3>. QED BY <3>2
  <2>. HIDE DEF q, rfd, wfd
  <2>3. /\ [pipe |-> q, end |-> "r"] \in PipeEnd
        /\ [pipe |-> q, end |-> "w"] \in PipeEnd
    BY <2>2 DEF PipeEnd
  <2>4. fds' \in [Slot -> [Fd -> PipeEnd]]
    BY <2>1, <2>3 DEF RestType, PipeType
  <2>5. PipeType'
    <3>1. readers' \in [Pipe -> Int] /\ writers' \in [Pipe -> Int]
      <4>1. /\ readers' = [readers EXCEPT ![q] = 1] /\ readers \in [Pipe -> Int]
            /\ writers' = [writers EXCEPT ![q] = 1] /\ writers \in [Pipe -> Int]
        BY <2>1 DEF RestType, PipeType
      <4>2. \A g \in [Pipe -> Int], i \in Int : [g EXCEPT ![q] = i] \in [Pipe -> Int]
        OBVIOUS
      <4>. QED BY <4>1, <4>2
    <3>2. 0 \in 0 .. PIPE_CAPACITY
      BY KernelAssumption
    <3>3. fill' \in [Pipe -> 0 .. PIPE_CAPACITY]
      BY <2>1, <3>2 DEF RestType, PipeType
    <3>. QED BY <2>4, <3>1, <3>3 DEF PipeType
  <2>6. IdType' /\ ExitType' /\ BlockType' /\ HistType'
    BY <1>8, Kept DEF SysPipe
  <2>7. TrapType'
    BY <1>8 DEF SysPipe, Syscall, Return, TrapType
  <2>. QED BY <2>5, <2>6, <2>7 DEF RestType
<1>9. ASSUME NEW f \in Fd, NEW n \in Counts, Read(f, n) PROVE RestType'
  <2>. DEFINE q == fds[Me][f].pipe
              b == [why |-> "read", arg |-> f, n |-> n]
  <2>1. /\ IdType' /\ ExitType' /\ HistType' /\ fds' = fds /\ done' = done
        /\ trap' = "syscall"
    BY <1>9, Kept DEF Read, Syscall
  <2>2. n \in Nat /\ f \in Nat /\ b \in Block
    BY KernelAssumption DEF Fd, Block
  <2>3. CASE ~ReadWouldBlock(q)
    <3>1. pipe_read(q, n) /\ pc' = "deliver" /\ blk' = blk
      BY <1>9, <2>3 DEF Read, Return
    <3>. HIDE DEF q
    <3>2. PipeType'
      BY <2>1, <2>2, <3>1, PipeOpsType DEF RestType
    <3>3. BlockType' /\ TrapType'
      BY <2>1, <3>1 DEF RestType, BlockType, TrapType
    <3>. QED BY <2>1, <3>2, <3>3 DEF RestType
  <2>4. CASE ReadWouldBlock(q)
    <3>1. BlockCurrent(b) /\ UNCHANGED pipeVars
      BY <1>9, <2>4 DEF Read
    <3>. HIDE DEF b
    <3>2. BlockType' /\ pc' = "deliver"
      BY <2>1, <2>2, <3>1, BlockCurrentType
    <3>3. PipeType' /\ TrapType'
      BY <2>1, <3>1, <3>2, Kept DEF TrapType
    <3>. QED BY <2>1, <3>2, <3>3 DEF RestType
  <2>. QED BY <2>3, <2>4
<1>10. ASSUME NEW f \in Fd, NEW n \in Counts, Write(f, n) PROVE RestType'
  <2>. DEFINE q == fds[Me][f].pipe
              b == [why |-> "write", arg |-> f, n |-> n]
  <2>1. /\ IdType' /\ ExitType' /\ HistType' /\ fds' = fds /\ done' = done
        /\ trap' = "syscall"
    BY <1>10, Kept DEF Write, Syscall
  <2>2. n \in Nat /\ f \in Nat /\ b \in Block
    BY KernelAssumption DEF Fd, Block
  <2>3. CASE ~WriteWouldBlock(q, n)
    <3>1. pipe_write(q, n) /\ pc' = "deliver" /\ blk' = blk
      BY <1>10, <2>3 DEF Write, Return
    <3>. HIDE DEF q
    <3>2. PipeType'
      BY <2>1, <2>2, <3>1, PipeOpsType DEF RestType
    <3>3. BlockType' /\ TrapType'
      BY <2>1, <3>1 DEF RestType, BlockType, TrapType
    <3>. QED BY <2>1, <3>2, <3>3 DEF RestType
  <2>4. CASE WriteWouldBlock(q, n)
    <3>1. BlockCurrent(b) /\ UNCHANGED pipeVars
      BY <1>10, <2>4 DEF Write
    <3>. HIDE DEF b
    <3>2. BlockType' /\ pc' = "deliver"
      BY <2>1, <2>2, <3>1, BlockCurrentType
    <3>3. PipeType' /\ TrapType'
      BY <2>1, <3>1, <3>2, Kept DEF TrapType
    <3>. QED BY <2>1, <3>2, <3>3 DEF RestType
  <2>. QED BY <2>3, <2>4
<1>11. ASSUME NEW f \in Fd, Close(f) PROVE RestType'
  <2>1. pc = "user" /\ cur \in Slot /\ Me = cur
    BY <1>11, UserFacts DEF Close, Syscall
  <2>2. fds' = [fds EXCEPT ![cur][f] = NoEnd] /\ pipe_close(fds[cur][f])
    BY <1>11, <2>1 DEF Close
  <2>3. fds[cur][f] \in PipeEnd
    BY <2>1 DEF RestType, PipeType
  <2>4. PipeType'
    BY <2>1, <2>2, <2>3, PipeCloseType DEF RestType
  <2>5. IdType' /\ ExitType' /\ BlockType' /\ HistType'
    BY <1>11, Kept DEF Close
  <2>6. TrapType'
    BY <1>11 DEF Close, Syscall, Return, TrapType
  <2>. QED BY <2>4, <2>5, <2>6 DEF RestType
<1>12. CASE Other
  <2>1. IdType' /\ ExitType' /\ BlockType' /\ PipeType' /\ HistType'
    BY <1>12, Kept DEF Other
  <2>2. TrapType'
    BY <1>12 DEF Other, Syscall, Return, TrapType
  <2>. QED BY <2>1, <2>2 DEF RestType
<1>13. Pid \cup {0} \subseteq Nat
  BY DEF Pid
<1>. QED
  BY <1>1, <1>2, <1>3, <1>4, <1>5, <1>6, <1>7, <1>8, <1>9, <1>10, <1>11, <1>12, <1>13
     DEF UserStep

(* The timer tick keeps the fields in range.                                *)
LEMMA TimerType ==
    ASSUME RestType, Timer
    PROVE  RestType'
<1>1. IdType' /\ ExitType' /\ BlockType' /\ PipeType' /\ HistType'
  BY Kept DEF Timer
<1>2. TrapType'
  BY DEF Timer, TrapType
<1>. QED BY <1>1, <1>2 DEF RestType

(* The later steps of a trap keep the fields in range.                      *)
LEMMA KernelStepType ==
    ASSUME SchedInv, RestType, KernelStep
    PROVE  RestType'
<1>1. CASE CloseNext
  <2>. DEFINE f == Lowest(OpenFds(cur))
  <2>1. f \in Fd /\ cur \in Slot
    <3>1. OpenFds(cur) \subseteq Fd /\ OpenFds(cur) \subseteq Nat /\ OpenFds(cur) # {}
      BY <1>1 DEF OpenFds, Fd, CloseNext
    <3>. QED BY <3>1, LowestFacts DEF SchedInv, SchedType
  <2>2. fds' = [fds EXCEPT ![cur][f] = NoEnd] /\ pipe_close(fds[cur][f])
    BY <1>1 DEF CloseNext
  <2>. HIDE DEF f
  <2>3. fds[cur][f] \in PipeEnd
    BY <2>1 DEF RestType, PipeType
  <2>4. PipeType'
    BY <2>1, <2>2, <2>3, PipeCloseType DEF RestType
  <2>5. IdType' /\ ExitType' /\ BlockType' /\ HistType'
    BY <1>1, Kept DEF CloseNext
  <2>6. TrapType'
    BY <1>1 DEF CloseNext, cpuVars, TrapType, RestType
  <2>. QED BY <2>4, <2>5, <2>6 DEF RestType
<1>2. CASE CloseDone \/ DeliverDone \/ NoFrame
  <2>1. IdType' /\ ExitType' /\ BlockType' /\ PipeType' /\ HistType'
    BY <1>2, Kept DEF CloseDone, DeliverDone, NoFrame
  <2>2. TrapType'
    BY <1>2 DEF CloseDone, DeliverDone, NoFrame, TrapType, RestType
  <2>. QED BY <2>1, <2>2 DEF RestType
<1>3. CASE Notify
  <2>. DEFINE par == process_get_by_pid(parent[cur])
              heir == par # 0 /\ state[par] # "ZOMBIE"
              handoff == heir /\ WaitsFor(par, cur)
              by == IF blk[par].n = 1 THEN "waitpid" ELSE "wait"
              d == [pid |-> pid[cur], by |-> by,
                    status |-> Reported(by, code[cur], sig[cur])]
  <2>1. cur \in Slot /\ pid[cur] \in Nat /\ code[cur] \in Nat
                     /\ sig[cur] \in {0, KILL, TERM}
    BY DEF SchedInv, SchedType, RestType, IdType, ExitType
  <2>2. d \in Done
    <3>1. Reported(by, code[cur], sig[cur]) \in Nat
      BY <2>1, StatusType
    <3>2. by \in {"none", "wait", "waitpid"}
      OBVIOUS
    <3>. HIDE DEF by
    <3>. QED BY <2>1, <3>1, <3>2 DEF Done
  <2>3. BlockType'
    <3>1. CASE handoff
      <4>1. /\ done' = [done EXCEPT ![par] = d]
            /\ blk' = [blk EXCEPT ![par] = NoBlock, ![cur] = NoBlock]
        BY <1>3, <3>1 DEF Notify
      <4>. HIDE DEF d, par
      <4>. QED BY <2>2, <4>1, BlankTypes DEF RestType, BlockType
    <3>2. CASE ~handoff
      <4>1. done' = done /\ blk' = [blk EXCEPT ![cur] = NoBlock]
        BY <1>3, <3>2 DEF Notify
      <4>. QED BY <4>1, BlankTypes DEF RestType, BlockType
    <3>. QED BY <3>1, <3>2
  <2>4. ExitType'
    <3>1. parent' \in [Slot -> Nat]
      BY <1>3 DEF Notify, RestType, ExitType
    <3>2. waited' \in [Slot -> BOOLEAN]
      BY <1>3 DEF Notify, RestType, ExitType
    <3>3. pend' \in [Slot -> SUBSET Signal]
      <4>1. pend' = pend \/ pend' = [pend EXCEPT ![par] = @ \cup {CHLD}]
        BY <1>3 DEF Notify
      <4>. HIDE DEF par
      <4>. QED BY <4>1 DEF RestType, ExitType, Signal
    <3>. QED BY <1>3, <3>1, <3>2, <3>3 DEF Notify, RestType, ExitType
  <2>5. IdType' /\ PipeType' /\ HistType'
    BY <1>3, Kept DEF Notify
  <2>6. TrapType'
    BY <1>3 DEF Notify, RestType, TrapType
  <2>. QED BY <2>3, <2>4, <2>5, <2>6 DEF RestType
<1>4. CASE Stop
  <2>1. IdType' /\ ExitType' /\ BlockType' /\ PipeType' /\ HistType'
    BY <1>4, Kept DEF Stop
  <2>2. TrapType'
    BY <1>4 DEF Stop, AfterStop, TrapType, RestType
  <2>. QED BY <2>1, <2>2 DEF RestType
<1>5. CASE DeliverFatal
  <2>1. Lowest(Fatal) \in {KILL, TERM}
    <3>1. Fatal \subseteq {KILL, TERM} /\ Fatal \subseteq Nat /\ Fatal # {}
      BY <1>5 DEF DeliverFatal, Fatal, KILL, TERM
    <3>. QED BY <3>1, LowestFacts
  <2>2. MarkExit(Me, 0, Lowest(Fatal)) /\ Lowest(Fatal) \in {0, KILL, TERM} /\ 0 \in Nat
    BY <1>5, <2>1 DEF DeliverFatal
  <2>3. /\ code' \in [Slot -> Nat] /\ sig' \in [Slot -> {0, KILL, TERM}]
        /\ log' \in [Pid -> Ending] /\ pc' = "closing"
    BY <2>2, MarkExitType DEF RestType
  <2>4. pend' \in [Slot -> SUBSET Signal]
    BY <1>5 DEF DeliverFatal, RestType, ExitType
  <2>5. ExitType' /\ HistType'
    BY <1>5, <2>3, <2>4 DEF DeliverFatal, RestType, ExitType, HistType
  <2>6. TrapType'
    BY <1>5, <2>3 DEF DeliverFatal, RestType, TrapType
  <2>7. IdType' /\ BlockType' /\ PipeType'
    BY <1>5, Kept DEF DeliverFatal
  <2>. QED BY <2>5, <2>6, <2>7 DEF RestType
<1>6. CASE DeliverChild
  <2>1. ExitType'
    BY <1>6 DEF DeliverChild, RestType, ExitType, exitVars
  <2>2. IdType' /\ BlockType' /\ PipeType' /\ HistType'
    BY <1>6, Kept DEF DeliverChild
  <2>3. TrapType'
    BY <1>6 DEF DeliverChild, RestType, TrapType, cpuVars
  <2>. QED BY <2>1, <2>2, <2>3 DEF RestType
<1>7. CASE Resume
  <2>1. cur \in Slot /\ Me = cur
    BY <1>7, MeIsCur DEF Resume, SchedInv, SchedType, RunningIsCurrent
  <2>. DEFINE b == blk[cur]
              q == fds[cur][b.arg].pipe
  <2>2. b \in Block /\ done[cur] \in Done
    BY <2>1 DEF RestType, BlockType
  <2>3. b.n \in Nat
    BY <2>2 DEF Block
  <2>4. PipeType'
    <3>1. fds' = fds
      BY <1>7 DEF Resume
    <3>2. pipe_read(q, b.n) \/ pipe_write(q, b.n) \/ UNCHANGED pipeVars
      <4>1. CASE b.why = "read"
        BY <1>7, <2>1, <4>1 DEF Resume, process_complete_pipe_io
      <4>2. CASE b.why = "write"
        BY <1>7, <2>1, <4>2 DEF Resume, process_complete_pipe_io
      <4>3. CASE b.why \notin {"read", "write"}
        BY <1>7, <2>1, <4>3 DEF Resume, process_complete_pipe_io
      <4>. QED BY <4>1, <4>2, <4>3
    <3>. HIDE DEF b, q
    <3>. QED BY <2>3, <3>1, <3>2, PipeOpsType, Kept DEF RestType
  <2>5. BlockType'
    <3>1. blk' = blk \/ blk' = [blk EXCEPT ![cur] = NoBlock]
      BY <1>7, <2>1 DEF Resume, process_complete_pipe_io
    <3>2. done' = [done EXCEPT ![cur] = NoDone]
      BY <1>7, <2>1 DEF Resume, CompleteWait
    <3>. QED BY <3>1, <3>2, BlankTypes DEF RestType, BlockType
  <2>6. HistType'
    <3>. DEFINE rec == [by |-> done[cur].by, status |-> done[cur].status]
    <3>1. rec \in Seen
      BY <2>2 DEF Done, Seen
    <3>2. got' = got \/ got' = [got EXCEPT ![done[cur].pid] = Append(@, rec)]
      BY <1>7, <2>1 DEF Resume, CompleteWait, GiveStatus
    <3>. HIDE DEF rec
    <3>3. \A x \in Seq(Seen) : Append(x, rec) \in Seq(Seen)
      BY <3>1, AppendProperties
    <3>4. got' \in [Pid -> Seq(Seen)]
      BY <3>2, <3>3 DEF RestType, HistType
    <3>. QED BY <1>7, <3>4 DEF Resume, RestType, HistType
  <2>7. IdType' /\ ExitType'
    BY <1>7, Kept DEF Resume
  <2>8. TrapType'
    BY <1>7 DEF Resume, RestType, TrapType
  <2>. QED BY <2>4, <2>5, <2>6, <2>7, <2>8 DEF RestType
<1>8. CASE Reap
  <2>. DEFINE D == {p \in Slot : Unclaimed(p)}
  <2>1. D \in SUBSET Slot /\ process_destroy(D) /\ next_pid' = next_pid
    BY <1>8 DEF Reap
  <2>. HIDE DEF D
  <2>2. IdType' /\ ExitType' /\ BlockType'
    BY <2>1, DestroyType
  <2>3. PipeType' /\ HistType'
    BY <1>8, Kept DEF Reap
  <2>4. TrapType'
    BY <1>8 DEF Reap, RestType, TrapType
  <2>. QED BY <2>2, <2>3, <2>4 DEF RestType
<1>. QED
  BY <1>1, <1>2, <1>3, <1>4, <1>5, <1>6, <1>7, <1>8 DEF KernelStep

(* The fields of the initial state are in range.                            *)
LEMMA InitType == Init => RestType
<1>. SUFFICES ASSUME Init PROVE RestType
  OBVIOUS
<1>1. IdType /\ ExitType
  BY DEF Init, IdType, ExitType
<1>2. BlockType
  BY BlankTypes DEF Init, BlockType
<1>3. PipeType
  <2>1. 0 \in 0 .. PIPE_CAPACITY
    BY KernelAssumption
  <2>. QED BY <2>1, BlankTypes DEF Init, PipeType, ClosedFds
<1>4. TrapType
  BY DEF Init, TrapType
<1>5. HistType
  <2>1. NotYet \in Ending
    BY DEF NotYet, Ending
  <2>2. <<>> \in Seq(Seen)
    BY EmptySeq
  <2>. QED BY <2>1, <2>2 DEF Init, HistType
<1>. QED BY <1>1, <1>2, <1>3, <1>4, <1>5 DEF RestType

(* Every field of the process table, the ready queue, the pipes and the CPU *)
(* state stays in its range: aging never takes a priority past the maximum, *)
(* a pipe never holds more than its capacity, the saved stack pointer names *)
(* a process or nobody.                                                     *)
THEOREM TypeCorrect == Spec => []TypeOK
<1>1. SchedInv /\ RestType /\ [Next]_vars => RestType'
  <2>1. RestType /\ UNCHANGED vars => RestType'
    <3>1. RestType /\ UNCHANGED vars =>
            IdType' /\ ExitType' /\ BlockType' /\ PipeType' /\ HistType'
      BY Kept DEF vars
    <3>2. RestType /\ UNCHANGED vars => TrapType'
      BY DEF vars, cpuVars, RestType, TrapType
    <3>. QED BY <3>1, <3>2 DEF RestType
  <2>. QED BY <2>1, UserType, TimerType, KernelStepType DEF Next, Halted
<1>2. Spec => []RestType
  BY <1>1, InitType, SchedInvariant, PTL DEF Spec
<1>3. SchedInv /\ StackInv /\ RestType => TypeOK
  BY TypeParts DEF SchedInv, StackInv
<1>. QED BY <1>2, <1>3, SchedInvariant, StackInvariant, PTL

=============================================================================
