-------------------------- MODULE Services_proofs ---------------------------
(***************************************************************************)
(* What the kernel's services keep: the frames of the tasks that wait, the *)
(* check of a user's address before the kernel follows it, the image of a  *)
(* program that is loaded, and the arguments that exec places on its       *)
(* stack. Each part has an inductive invariant of its own; the parts of    *)
(* MCServices share no variable, so a step of one leaves the invariants of *)
(* the others alone. Last, with the results of the modules this one        *)
(* extends, that every part stays within its types.                        *)
(***************************************************************************)
EXTENDS Boot_proofs

-----------------------------------------------------------------------------
(***************************************************************************)
(* The kernel's tasks. A task is resumed from the frame it left: TasksInv  *)
(* says which kind of frame that is, for a build of cooperative tasks,     *)
(* where only the task that executes can be inside yield, and for one of   *)
(* preemptive tasks, where nobody ever is.                                 *)
(***************************************************************************)

(* What the scheduler knows of them.                                        *)
TaskTypes ==
    /\ T!TypeOK
    /\ kind \in {"cooperative", "preemptive"}
    /\ priority \in [T!All -> 0 .. PROCESS_MAX_PRIORITY]
    /\ interrupt_frame \in [T!All -> BOOLEAN]
    /\ \A t \in T!All : tstate[t] = "RUNNING" <=> t = current
    /\ T!NoRepeat(queue)
    /\ T!Queued(queue) = {t \in T!All : tstate[t] = "READY"}

(* The frame a task left: of the kind a trap or context_switch pushes.      *)
Frame(k, t) == [kind |-> k, of |-> t]

(* A build of cooperative tasks: only the task that executes can be inside  *)
(* yield, and then it is queued without a frame; all others have theirs.    *)
Cooperative ==
    /\ \A t \in T!All : ~interrupt_frame[t]
    /\ \A t \in T!All : prev[t] # T!NoTask => t = exec
    /\ current # T!NoTask
    /\ current = exec <=> prev[exec] = T!NoTask
    /\ \A t \in T!All : (tstate[t] = "READY" \/ t = current) /\ t # exec => esp[t] = Frame("switch", t)

(* A build of preemptive tasks: nobody is ever inside yield, and whoever    *)
(* waits was left by a trap.                                                *)
Preemptive ==
    /\ \A t \in T!All : tstate[t] # "DEAD" => interrupt_frame[t]
    /\ \A t \in T!All : prev[t] = T!NoTask
    /\ current # T!NoTask => current = exec
    /\ \A t \in T!All : tstate[t] = "READY" => esp[t] = Frame("trap", t)

(* What holds of either build.                                              *)
TasksInv ==
    /\ TaskTypes
    /\ kind = "cooperative" => Cooperative
    /\ kind = "preemptive" => Preemptive

(* The limits of the priorities.                                            *)
LEMMA TaskPriorities ==
    /\ PROCESS_DEFAULT_PRIORITY \in Nat \ {0}
    /\ PROCESS_MAX_PRIORITY \in Nat
    /\ PROCESS_DEFAULT_PRIORITY <= PROCESS_MAX_PRIORITY
BY TasksAssumption DEF Positive

(* enqueue links the process behind the others, and keeps the list simple   *)
(* if the process was not on it.                                            *)
LEMMA TaskEnqueueFacts ==
    ASSUME NEW A, NEW q \in Seq(A), NEW p \in A
    PROVE  /\ T!Enqueue(q, p) \in Seq(A)
           /\ T!Queued(T!Enqueue(q, p)) = T!Queued(q) \cup {p}
           /\ T!NoRepeat(q) /\ p \notin T!Queued(q) => T!NoRepeat(T!Enqueue(q, p))
<1>1. /\ T!Enqueue(q, p) \in Seq(A)
      /\ Len(T!Enqueue(q, p)) = Len(q) + 1
      /\ \A i \in 1 .. Len(q) : T!Enqueue(q, p)[i] = q[i]
      /\ T!Enqueue(q, p)[Len(q) + 1] = p
  BY AppendProperties DEF T!Enqueue
<1>2. /\ DOMAIN q = 1 .. Len(q)
      /\ DOMAIN T!Enqueue(q, p) = 1 .. Len(q) + 1
      /\ Len(q) \in Nat
  BY <1>1, LenProperties
<1>3. T!Queued(T!Enqueue(q, p)) = T!Queued(q) \cup {p}
  BY <1>1, <1>2 DEF T!Queued
<1>4. ASSUME T!NoRepeat(q), p \notin T!Queued(q) PROVE T!NoRepeat(T!Enqueue(q, p))
  BY <1>1, <1>2, <1>4 DEF T!NoRepeat, T!Queued
<1>. QED BY <1>1, <1>3, <1>4

(* Unlinking one process of a list that is simple takes away that process   *)
(* and no other.                                                            *)
LEMMA TaskUnlinkFacts ==
    ASSUME NEW A, NEW q \in Seq(A), NEW i \in DOMAIN q
    PROVE  /\ T!Unlink(q, i) \in Seq(A)
           /\ q[i] \in A
           /\ T!NoRepeat(q) => /\ T!NoRepeat(T!Unlink(q, i))
                             /\ T!Queued(T!Unlink(q, i)) = T!Queued(q) \ {q[i]}
<1>. DEFINE n == Len(q)
            u == T!Unlink(q, i)
<1>1. n \in Nat /\ DOMAIN q = 1 .. n /\ \A j \in 1 .. n : q[j] \in A
  BY LenProperties, ElementOfSeq
<1>2. DOMAIN u = 1 .. n - 1 /\ n - 1 \in Nat /\ n \in Nat \ {0}
  BY <1>1 DEF T!Unlink
<1>3. \A j \in 1 .. n - 1 : u[j] = IF j < i THEN q[j] ELSE q[j + 1]
  BY DEF T!Unlink
<1>4. u \in Seq(A)
  <2>1. u \in [1 .. n - 1 -> A]
    BY <1>1, <1>2, <1>3 DEF T!Unlink
  <2>. QED BY <2>1, <1>2, SeqDef
<1>5. ASSUME T!NoRepeat(q) PROVE T!NoRepeat(u)
  BY <1>1, <1>2, <1>3, <1>5 DEF T!NoRepeat
<1>6. ASSUME T!NoRepeat(q) PROVE T!Queued(u) = T!Queued(q) \ {q[i]}
  <2>1. ASSUME NEW x \in T!Queued(u) PROVE x \in T!Queued(q) \ {q[i]}
    <3>1. PICK j \in 1 .. n - 1 : x = u[j]
      BY <1>2, <2>1 DEF T!Queued
    <3>2. CASE j < i
      BY <1>1, <1>2, <1>3, <1>6, <3>1, <3>2 DEF T!Queued, T!NoRepeat
    <3>3. CASE ~(j < i)
      BY <1>1, <1>2, <1>3, <1>6, <3>1, <3>3 DEF T!Queued, T!NoRepeat
    <3>. QED BY <3>2, <3>3
  <2>2. ASSUME NEW x \in T!Queued(q) \ {q[i]} PROVE x \in T!Queued(u)
    <3>1. PICK j \in 1 .. n : x = q[j]
      BY <1>1, <2>2 DEF T!Queued
    <3>2. CASE j < i
      <4>1. j \in 1 .. n - 1 /\ u[j] = x
        BY <1>1, <1>3, <3>1, <3>2
      <4>. QED BY <1>2, <4>1 DEF T!Queued
    <3>3. CASE ~(j < i)
      <4>1. j - 1 \in 1 .. n - 1 /\ u[j - 1] = x
        <5>1. j # i
          BY <2>2, <3>1
        <5>2. j - 1 \in 1 .. n - 1 /\ ~(j - 1 < i) /\ (j - 1) + 1 = j
          BY <1>1, <3>1, <3>3, <5>1
        <5>. QED BY <1>3, <3>1, <5>2
      <4>. QED BY <1>2, <4>1 DEF T!Queued
    <3>. QED BY <3>2, <3>3
  <2>. QED BY <2>1, <2>2
<1>. QED BY <1>1, <1>4, <1>5, <1>6

(* On a list that is not empty find_best_ready finds a process, and it is   *)
(* one of the greatest dynamic priority.                                    *)
LEMMA TaskBestIndexFacts ==
    ASSUME NEW A, NEW q \in Seq(A), q # <<>>, NEW d \in [A -> Nat],
           \A p \in A : d[p] <= PROCESS_MAX_PRIORITY
    PROVE  T!BestIndex(q, d) \in DOMAIN q /\ T!IsBest(q, d, T!BestIndex(q, d))
<1>. DEFINE I == DOMAIN q
            Lag(j) == PROCESS_MAX_PRIORITY - d[q[j]]
<1>1. /\ I = 1 .. Len(q) /\ Len(q) \in Nat \ {0}
      /\ \A j \in I : q[j] \in A /\ d[q[j]] \in Nat /\ Lag(j) \in Nat
  BY LenProperties, ElementOfSeq, EmptySeq, TaskPriorities
<1>2. PICK g \in {Lag(j) : j \in I} : \A h \in {Lag(j) : j \in I} : g <= h
  <2>1. {Lag(j) : j \in I} \subseteq Nat /\ {Lag(j) : j \in I} # {}
    BY <1>1
  <2>. HIDE DEF Lag, I
  <2>. QED BY <2>1, LeastNat
<1>3. PICK i \in {j \in I : Lag(j) = g} : \A k \in {j \in I : Lag(j) = g} : i <= k
  <2>1. {j \in I : Lag(j) = g} \subseteq Nat /\ {j \in I : Lag(j) = g} # {}
    BY <1>1, <1>2
  <2>. HIDE DEF Lag, I
  <2>. QED BY <2>1, LeastNat
<1>4. \A j \in I : d[q[j]] <= d[q[i]]
  <2>1. TAKE j \in I
  <2>2. Lag(i) <= Lag(j)
    BY <1>2, <1>3
  <2>. QED BY <1>1, <1>3, <2>2, TaskPriorities
<1>5. \A j \in I : j < i => d[q[j]] < d[q[i]]
  <2>1. SUFFICES ASSUME NEW j \in I, j < i PROVE d[q[j]] # d[q[i]]
    BY <1>1, <1>3, <1>4
  <2>2. Lag(j) # g
    BY <1>1, <1>3, <2>1
  <2>. QED BY <1>3, <2>2
<1>6. i \in DOMAIN q /\ T!IsBest(q, d, i)
  BY <1>3, <1>4, <1>5 DEF T!IsBest
<1>. QED BY <1>6 DEF T!BestIndex

(* dequeue_best takes off the process find_best_ready names.                *)
LEMMA TaskDequeueFacts ==
    ASSUME NEW A, NEW q \in Seq(A), q # <<>>, NEW d \in [A -> Nat],
           \A p \in A : d[p] <= PROCESS_MAX_PRIORITY
    PROVE  /\ T!find_best_ready(q, d) \in A
           /\ T!find_best_ready(q, d) \in T!Queued(q)
           /\ T!dequeue_best(q, d) \in Seq(A)
           /\ T!NoRepeat(q) =>
                /\ T!NoRepeat(T!dequeue_best(q, d))
                /\ T!Queued(T!dequeue_best(q, d)) =
                      T!Queued(q) \ {T!find_best_ready(q, d)}
<1>1. T!BestIndex(q, d) \in DOMAIN q
  BY TaskBestIndexFacts
<1>. QED BY <1>1, TaskUnlinkFacts DEF T!find_best_ready, T!dequeue_best, T!Queued

(* Aging raises priorities, never past the maximum.                         *)
LEMMA TaskAgeFacts ==
    ASSUME NEW A, NEW q, NEW d \in [A -> Nat],
           \A p \in A : d[p] <= PROCESS_MAX_PRIORITY
    PROVE  /\ T!age_ready_queue(q, d) \in [A -> Nat]
           /\ \A p \in A : T!age_ready_queue(q, d)[p] <= PROCESS_MAX_PRIORITY
BY TaskPriorities DEF T!age_ready_queue

(* No task is nobody, and the boot flow is none of those that are created.  *)
LEMMA TaskNames ==
    /\ T!NoTask \notin T!All /\ T!Boot \in T!All /\ T!Boot \notin Task
    /\ Task \subseteq T!All
BY TasksAssumption DEF T!NoTask, T!All, T!Boot, Positive

(* The priority a task starts a turn with is within the limits.             *)
LEMMA BaseFacts ==
    ASSUME TaskTypes, NEW t \in T!All
    PROVE  T!Base(t) \in 0 .. PROCESS_MAX_PRIORITY
BY TaskPriorities DEF TaskTypes, T!Base

(* scheduler_schedule_locked makes a waiting task current and queues the    *)
(* one that was.                                                            *)
LEMMA ScheduleFacts ==
    ASSUME TaskTypes, queue # <<>>, T!scheduler_schedule_locked
    PROVE  /\ current' = T!find_best_ready(queue, dyn)
           /\ current' \in T!All /\ tstate[current'] = "READY" /\ current' # current
           /\ tstate' = [t \in T!All |-> IF t = current' THEN "RUNNING"
                                         ELSE IF t = current THEN "READY" ELSE tstate[t]]
           /\ queue' \in Seq(T!All) /\ T!NoRepeat(queue')
           /\ T!Queued(queue') = {t \in T!All : tstate'[t] = "READY"}
           /\ dyn' \in [T!All -> 0 .. PROCESS_MAX_PRIORITY]
<1>. DEFINE nx == T!find_best_ready(queue, dyn)
            rest == T!dequeue_best(queue, dyn)
            q == IF T!Requeued THEN T!Enqueue(rest, current) ELSE rest
            d == IF T!Requeued /\ dyn[current] = 0
                 THEN [dyn EXCEPT ![current] = T!Base(current)] ELSE dyn
<1>1. /\ queue' = q
      /\ dyn' = [T!age_ready_queue(q, d) EXCEPT ![nx] = T!Base(nx)]
      /\ tstate' = [t \in T!All |-> IF t = nx THEN "RUNNING"
                                    ELSE IF T!Requeued /\ t = current THEN "READY"
                                    ELSE tstate[t]]
      /\ current' = nx
  BY DEF T!scheduler_schedule_locked
<1>2. /\ tstate \in [T!All -> {"DEAD", "READY", "RUNNING"}]
      /\ dyn \in [T!All -> 0 .. PROCESS_MAX_PRIORITY]
      /\ queue \in Seq(T!All)
      /\ current \in T!All \cup {T!NoTask}
      /\ T!NoRepeat(queue)
      /\ T!Queued(queue) = {t \in T!All : tstate[t] = "READY"}
      /\ \A t \in T!All : tstate[t] = "RUNNING" <=> t = current
  BY DEF TaskTypes, T!TypeOK
<1>3. T!Requeued <=> current # T!NoTask
  BY <1>2 DEF T!Requeued
<1>4. dyn \in [T!All -> Nat] /\ \A t \in T!All : dyn[t] <= PROCESS_MAX_PRIORITY
  BY <1>2, TaskPriorities
<1>5. /\ nx \in T!All /\ nx \in T!Queued(queue)
      /\ rest \in Seq(T!All) /\ T!NoRepeat(rest)
      /\ T!Queued(rest) = T!Queued(queue) \ {nx}
  BY <1>2, <1>4, TaskDequeueFacts
<1>. HIDE DEF nx, rest
<1>6. tstate[nx] = "READY" /\ nx # current
  BY <1>2, <1>5
<1>7. /\ q \in Seq(T!All) /\ T!NoRepeat(q)
      /\ T!Queued(q) = (T!Queued(queue) \ {nx}) \cup (IF current = T!NoTask THEN {} ELSE {current})
  <2>1. CASE current = T!NoTask
    BY <1>3, <1>5, <2>1
  <2>2. CASE current # T!NoTask
    <3>1. current \in T!All /\ current \notin T!Queued(rest)
      BY <1>2, <1>5, <2>2
    <3>2. /\ T!Enqueue(rest, current) \in Seq(T!All)
          /\ T!NoRepeat(T!Enqueue(rest, current))
          /\ T!Queued(T!Enqueue(rest, current)) = T!Queued(rest) \cup {current}
      <4>. DEFINE A == T!All
                  x == current
      <4>1. rest \in Seq(A) /\ x \in A /\ T!NoRepeat(rest) /\ x \notin T!Queued(rest)
        BY <1>5, <3>1
      <4>. HIDE DEF A, x
      <4>2. T!Enqueue(rest, x) \in Seq(A)
        BY <4>1, TaskEnqueueFacts
      <4>3. T!Queued(T!Enqueue(rest, x)) = T!Queued(rest) \cup {x}
        BY <4>1, TaskEnqueueFacts
      <4>4. T!NoRepeat(T!Enqueue(rest, x))
        BY <4>1, TaskEnqueueFacts
      <4>. QED BY <4>2, <4>3, <4>4 DEF A, x
    <3>. QED BY <1>3, <1>5, <2>2, <3>2
  <2>. QED BY <2>1, <2>2
<1>8. d \in [T!All -> Nat] /\ \A t \in T!All : d[t] <= PROCESS_MAX_PRIORITY
  <2>1. CASE T!Requeued /\ dyn[current] = 0
    <3>1. current \in T!All /\ T!Base(current) \in 0 .. PROCESS_MAX_PRIORITY
      BY <1>2, <1>3, <2>1, BaseFacts
    <3>. QED BY <1>4, <2>1, <3>1, TaskPriorities
  <2>2. CASE ~(T!Requeued /\ dyn[current] = 0)
    BY <1>4, <2>2
  <2>. QED BY <2>1, <2>2
<1>. HIDE DEF q, d
<1>9. dyn' \in [T!All -> 0 .. PROCESS_MAX_PRIORITY]
  <2>1. /\ T!age_ready_queue(q, d) \in [T!All -> Nat]
        /\ \A t \in T!All : T!age_ready_queue(q, d)[t] <= PROCESS_MAX_PRIORITY
    BY <1>8, TaskAgeFacts
  <2>2. T!Base(nx) \in 0 .. PROCESS_MAX_PRIORITY
    BY <1>5, BaseFacts
  <2>. QED BY <1>1, <1>5, <2>1, <2>2, TaskPriorities
<1>10. tstate' = [t \in T!All |-> IF t = nx THEN "RUNNING"
                                  ELSE IF t = current THEN "READY" ELSE tstate[t]]
  BY <1>1, <1>3, TaskNames
<1>11. T!Queued(queue') = {t \in T!All : tstate'[t] = "READY"}
  <2>1. \A t \in T!All : t \in T!Queued(q) <=> tstate'[t] = "READY"
    BY <1>2, <1>5, <1>6, <1>7, <1>10, TaskNames
  <2>2. T!Queued(q) \subseteq T!All
    BY <1>2, <1>5, <1>7
  <2>. QED BY <1>1, <2>1, <2>2
<1>. QED BY <1>1, <1>5, <1>6, <1>7, <1>9, <1>10, <1>11 DEF nx

(* The scheduler's part of the invariant after a switch.                    *)
LEMMA ScheduleTypes ==
    ASSUME TaskTypes, queue # <<>>, T!scheduler_schedule_locked,
           UNCHANGED <<kind, priority, interrupt_frame>>,
           esp' \in [T!All -> [kind : {"none", "switch", "trap"}, of : T!All \cup {T!NoTask}]],
           exec' \in T!All, prev' \in [T!All -> T!All \cup {T!NoTask}]
    PROVE  TaskTypes'
<1>1. /\ current' \in T!All /\ tstate[current'] = "READY" /\ current' # current
      /\ tstate' = [t \in T!All |-> IF t = current' THEN "RUNNING"
                                    ELSE IF t = current THEN "READY" ELSE tstate[t]]
      /\ queue' \in Seq(T!All) /\ T!NoRepeat(queue')
      /\ T!Queued(queue') = {t \in T!All : tstate'[t] = "READY"}
      /\ dyn' \in [T!All -> 0 .. PROCESS_MAX_PRIORITY]
  BY ScheduleFacts
<1>2. /\ tstate \in [T!All -> {"DEAD", "READY", "RUNNING"}]
      /\ \A t \in T!All : tstate[t] = "RUNNING" <=> t = current
      /\ kind \in {"cooperative", "preemptive"}
      /\ priority \in [T!All -> 0 .. PROCESS_MAX_PRIORITY]
      /\ interrupt_frame \in [T!All -> BOOLEAN]
  BY DEF TaskTypes, T!TypeOK
<1>3. tstate' \in [T!All -> {"DEAD", "READY", "RUNNING"}]
  BY <1>1, <1>2
<1>4. \A t \in T!All : tstate'[t] = "RUNNING" <=> t = current'
  BY <1>1, <1>2
<1>5. T!TypeOK'
  BY <1>1, <1>3 DEF T!TypeOK
<1>6. T!NoRepeat(queue)' /\ T!Queued(queue)' = {t \in T!All : tstate[t] = "READY"}'
  BY <1>1 DEF T!NoRepeat, T!Queued
<1>. QED BY <1>2, <1>4, <1>5, <1>6 DEF TaskTypes

(* The boot flow starts alone and runs.                                     *)
LEMMA TasksInit ==
    T!Init => TasksInv
<1>. SUFFICES ASSUME T!Init PROVE TasksInv
  OBVIOUS
<1>1. /\ kind \in {"cooperative", "preemptive"}
      /\ current = IF kind = "cooperative" THEN T!Boot ELSE T!NoTask
      /\ tstate = [t \in T!All |-> IF t = current THEN "RUNNING" ELSE "DEAD"]
      /\ queue = <<>> /\ exec = T!Boot
      /\ prev = [t \in T!All |-> T!NoTask]
      /\ interrupt_frame = [t \in T!All |-> FALSE]
      /\ esp = [t \in T!All |-> T!NoFrame]
      /\ priority = [t \in T!All |-> 0] /\ dyn = [t \in T!All |-> 0]
  BY DEF T!Init
<1>2. queue \in Seq(T!All) /\ T!Queued(queue) = {} /\ T!NoRepeat(queue)
  BY <1>1 DEF T!Queued, T!NoRepeat
<1>3. T!TypeOK
  BY <1>1, <1>2, TaskNames, TaskPriorities DEF T!TypeOK, T!NoFrame
<1>4. {t \in T!All : tstate[t] = "READY"} = {}
  BY <1>1
<1>5. TaskTypes
  BY <1>1, <1>2, <1>3, <1>4, TaskPriorities DEF TaskTypes
<1>6. kind = "cooperative" => Cooperative
  BY <1>1, TaskNames DEF Cooperative
<1>7. kind = "preemptive" => Preemptive
  BY <1>1, TaskNames DEF Preemptive
<1>. QED BY <1>5, <1>6, <1>7 DEF TasksInv

(* A new task waits in the queue with the frame it starts from.             *)
LEMMA CreateTask ==
    ASSUME TasksInv, NEW t \in Task, NEW p \in Priorities, T!Create(t, p)
    PROVE  TasksInv'
<1>0. TaskTypes /\ T!TypeOK /\ t \in T!All
  BY TaskNames DEF TasksInv, TaskTypes
<1>1. /\ exec = T!Boot /\ prev[T!Boot] = T!NoTask /\ tstate[t] = "DEAD"
      /\ tstate' = [tstate EXCEPT ![t] = "READY"]
      /\ priority' = [priority EXCEPT ![t] = T!Clamped(p)]
      /\ dyn' = [dyn EXCEPT ![t] = T!Clamped(p)]
      /\ interrupt_frame' = [interrupt_frame EXCEPT ![t] = kind = "preemptive"]
      /\ esp' = [esp EXCEPT ![t] = T!FirstFrame(t)]
      /\ queue' = T!Enqueue(queue, t)
      /\ UNCHANGED <<kind, current, exec, prev>>
  BY DEF T!Create
<1>2. T!Clamped(p) \in 0 .. PROCESS_MAX_PRIORITY
  BY TasksAssumption, TaskPriorities DEF T!Clamped
<1>3. /\ T!Enqueue(queue, t) \in Seq(T!All)
      /\ T!Queued(T!Enqueue(queue, t)) = T!Queued(queue) \cup {t}
      /\ T!NoRepeat(T!Enqueue(queue, t))
  <2>. DEFINE A == T!All
  <2>1. queue \in Seq(A) /\ t \in A /\ T!NoRepeat(queue) /\ t \notin T!Queued(queue)
    BY <1>0, <1>1 DEF TaskTypes, T!TypeOK
  <2>. HIDE DEF A
  <2>2. T!Enqueue(queue, t) \in Seq(A)
    BY <2>1, TaskEnqueueFacts
  <2>3. T!Queued(T!Enqueue(queue, t)) = T!Queued(queue) \cup {t}
    BY <2>1, TaskEnqueueFacts
  <2>4. T!NoRepeat(T!Enqueue(queue, t))
    BY <2>1, TaskEnqueueFacts
  <2>. QED BY <2>2, <2>3, <2>4 DEF A
<1>4. T!FirstFrame(t) = Frame(IF kind = "cooperative" THEN "switch" ELSE "trap", t)
  BY DEF T!FirstFrame, Frame
<1>5. T!TypeOK'
  BY <1>0, <1>1, <1>2, <1>3 DEF T!TypeOK, T!FirstFrame
<1>6. TaskTypes'
  <2>1. \A u \in T!All : tstate'[u] = "RUNNING" <=> u = current'
    BY <1>0, <1>1 DEF TaskTypes, T!TypeOK
  <2>2. T!Queued(queue') = {u \in T!All : tstate'[u] = "READY"}
    <3>1. T!Queued(queue) = {u \in T!All : tstate[u] = "READY"} /\ tstate \in [T!All -> {"DEAD", "READY", "RUNNING"}]
      BY <1>0 DEF TaskTypes, T!TypeOK
    <3>. QED BY <1>0, <1>1, <1>3, <3>1
  <2>3. T!NoRepeat(queue)' /\ T!Queued(queue)' = {u \in T!All : tstate[u] = "READY"}'
    BY <1>1, <1>3, <2>2 DEF T!NoRepeat, T!Queued
  <2>4. /\ priority' \in [T!All -> 0 .. PROCESS_MAX_PRIORITY]
        /\ kind' \in {"cooperative", "preemptive"}
    BY <1>0, <1>1, <1>2 DEF TaskTypes
  <2>5. interrupt_frame' \in [T!All -> BOOLEAN]
    BY <1>0, <1>1 DEF TaskTypes
  <2>. QED BY <1>5, <2>1, <2>3, <2>4, <2>5 DEF TaskTypes
<1>7. /\ tstate \in [T!All -> {"DEAD", "READY", "RUNNING"}]
      /\ esp \in [T!All -> [kind : {"none", "switch", "trap"}, of : T!All \cup {T!NoTask}]]
      /\ interrupt_frame \in [T!All -> BOOLEAN]
      /\ \A u \in T!All : tstate[u] = "RUNNING" <=> u = current
  BY <1>0 DEF TaskTypes, T!TypeOK
<1>8. kind' = "cooperative" => Cooperative'
  <2>. SUFFICES ASSUME kind = "cooperative" PROVE Cooperative'
    BY <1>1
  <2>1. Cooperative
    BY DEF TasksInv
  <2>2. \A u \in T!All : ~interrupt_frame'[u]
    BY <1>1, <1>7, <2>1 DEF Cooperative
  <2>3. \A u \in T!All : (tstate'[u] = "READY" \/ u = current) /\ u # exec => esp'[u] = Frame("switch", u)
    BY <1>1, <1>4, <1>7, <2>1 DEF Cooperative
  <2>. QED BY <1>1, <2>1, <2>2, <2>3 DEF Cooperative
<1>9. kind' = "preemptive" => Preemptive'
  <2>. SUFFICES ASSUME kind = "preemptive" PROVE Preemptive'
    BY <1>1
  <2>1. Preemptive
    BY DEF TasksInv
  <2>2. \A u \in T!All : tstate'[u] # "DEAD" => interrupt_frame'[u]
    BY <1>1, <1>7, <2>1 DEF Preemptive
  <2>3. \A u \in T!All : tstate'[u] = "READY" => esp'[u] = Frame("trap", u)
    BY <1>1, <1>4, <1>7, <2>1 DEF Preemptive
  <2>. QED BY <1>1, <2>1, <2>2, <2>3 DEF Preemptive
<1>. QED BY <1>6, <1>8, <1>9 DEF TasksInv

(* yield queues its caller before the stack is saved.                       *)
LEMMA YieldTask ==
    ASSUME TasksInv, T!yield
    PROVE  TasksInv'
<1>0. TaskTypes /\ T!TypeOK
  BY DEF TasksInv, TaskTypes
<1>1. /\ current = exec /\ prev[exec] = T!NoTask /\ ~interrupt_frame[exec]
      /\ queue # <<>> /\ T!scheduler_schedule_locked
      /\ prev' = [prev EXCEPT ![exec] = exec]
      /\ UNCHANGED <<kind, priority, interrupt_frame, esp, exec>>
  BY DEF T!yield
<1>2. TaskTypes'
  <2>1. /\ esp' \in [T!All -> [kind : {"none", "switch", "trap"}, of : T!All \cup {T!NoTask}]]
        /\ exec' \in T!All /\ prev' \in [T!All -> T!All \cup {T!NoTask}]
    BY <1>0, <1>1 DEF T!TypeOK
  <2>. QED BY <1>0, <1>1, <2>1, ScheduleTypes
<1>3. /\ current' \in T!All /\ tstate[current'] = "READY" /\ current' # current
      /\ tstate' = [t \in T!All |-> IF t = current' THEN "RUNNING"
                                    ELSE IF t = current THEN "READY" ELSE tstate[t]]
  BY <1>0, <1>1, ScheduleFacts
<1>4. kind = "cooperative"
  <2>1. exec \in T!All /\ tstate[exec] = "RUNNING" /\ kind \in {"cooperative", "preemptive"}
    BY <1>0, <1>1 DEF TaskTypes, T!TypeOK
  <2>2. kind = "preemptive" => interrupt_frame[exec]
    BY <2>1 DEF TasksInv, Preemptive
  <2>. QED BY <1>1, <2>1, <2>2
<1>5. Cooperative
  BY <1>4 DEF TasksInv
<1>6. Cooperative'
  <2>1. exec \in T!All /\ prev \in [T!All -> T!All \cup {T!NoTask}] /\ exec # T!NoTask
    BY <1>0, TaskNames DEF T!TypeOK
  <2>2. prev'[exec] = exec /\ \A t \in T!All : t # exec => prev'[t] = prev[t]
    BY <1>1, <2>1
  <2>3. current' # T!NoTask
    BY <1>3, TaskNames
  <2>4. \A t \in T!All : (tstate'[t] = "READY" \/ t = current') /\ t # exec => esp[t] = Frame("switch", t)
    BY <1>1, <1>3, <1>5 DEF Cooperative
  <2>. QED BY <1>1, <1>3, <1>5, <2>1, <2>2, <2>3, <2>4 DEF Cooperative
<1>. QED BY <1>1, <1>2, <1>4, <1>6 DEF TasksInv

(* context_switch returns into the task that was made current.              *)
LEMMA SwitchTask ==
    ASSUME TasksInv, T!context_switch
    PROVE  TasksInv'
<1>0. TaskTypes /\ T!TypeOK
  BY DEF TasksInv, TaskTypes
<1>1. /\ prev[exec] # T!NoTask
      /\ esp' = [esp EXCEPT ![exec] = Frame("switch", exec)]
      /\ exec' = esp[current].of
      /\ prev' = [prev EXCEPT ![exec] = T!NoTask]
      /\ UNCHANGED <<kind, tstate, dyn, queue, current, priority, interrupt_frame>>
  BY DEF T!context_switch, T!sched, Frame
<1>2. /\ exec \in T!All /\ prev \in [T!All -> T!All \cup {T!NoTask}]
      /\ esp \in [T!All -> [kind : {"none", "switch", "trap"}, of : T!All \cup {T!NoTask}]]
      /\ current \in T!All \cup {T!NoTask}
      /\ kind \in {"cooperative", "preemptive"}
  BY <1>0 DEF T!TypeOK, TaskTypes
<1>3. kind = "cooperative" /\ Cooperative
  BY <1>1, <1>2 DEF TasksInv, Preemptive
<1>4. current \in T!All /\ current # exec /\ esp[current] = Frame("switch", current)
  BY <1>1, <1>2, <1>3 DEF Cooperative
<1>5. exec' = current
  BY <1>1, <1>4 DEF Frame
<1>6. TaskTypes'
  <2>1. esp' \in [T!All -> [kind : {"none", "switch", "trap"}, of : T!All \cup {T!NoTask}]]
    BY <1>1, <1>2 DEF Frame
  <2>2. prev' \in [T!All -> T!All \cup {T!NoTask}]
    BY <1>1, <1>2
  <2>3. T!TypeOK'
    BY <1>0, <1>1, <1>4, <1>5, <2>1, <2>2 DEF T!TypeOK
  <2>. QED BY <1>0, <1>1, <2>3 DEF TaskTypes, T!NoRepeat, T!Queued
<1>7. Cooperative'
  <2>1. \A t \in T!All : prev'[t] = T!NoTask
    BY <1>1, <1>2, <1>3 DEF Cooperative
  <2>2. \A t \in T!All : (tstate[t] = "READY" \/ t = current) => esp'[t] = Frame("switch", t) \/ t = exec'
    BY <1>1, <1>2, <1>3, <1>5 DEF Cooperative
  <2>. QED BY <1>1, <1>2, <1>3, <1>4, <1>5, <2>1, <2>2 DEF Cooperative
<1>. QED BY <1>1, <1>3, <1>6, <1>7 DEF TasksInv

(* A tick switches only from and to tasks that a trap can leave and resume. *)
LEMMA PreemptTask ==
    ASSUME TasksInv, T!scheduler_preempt
    PROVE  TasksInv'
<1>. DEFINE saved == IF current = T!NoTask THEN esp
                     ELSE [esp EXCEPT ![current] = Frame("trap", exec)]
            nx == T!find_best_ready(queue, dyn)
<1>0. TaskTypes /\ T!TypeOK
  BY DEF TasksInv, TaskTypes
<1>1. /\ queue # <<>> /\ (current # T!NoTask => interrupt_frame[current])
      /\ esp' = saved
      /\ IF interrupt_frame[nx]
         THEN T!scheduler_schedule_locked /\ exec' = saved[nx].of
         ELSE UNCHANGED <<T!sched, exec>>
      /\ UNCHANGED <<kind, priority, interrupt_frame, prev>>
  BY DEF T!scheduler_preempt, T!MaySwitch, Frame
<1>2. /\ exec \in T!All /\ prev \in [T!All -> T!All \cup {T!NoTask}]
      /\ esp \in [T!All -> [kind : {"none", "switch", "trap"}, of : T!All \cup {T!NoTask}]]
      /\ current \in T!All \cup {T!NoTask}
      /\ kind \in {"cooperative", "preemptive"}
      /\ tstate \in [T!All -> {"DEAD", "READY", "RUNNING"}]
      /\ \A t \in T!All : tstate[t] = "RUNNING" <=> t = current
  BY <1>0 DEF T!TypeOK, TaskTypes
<1>3. kind = "preemptive" /\ Preemptive
  BY <1>1, <1>2 DEF TasksInv, Cooperative
<1>4. nx \in T!All /\ tstate[nx] = "READY" /\ interrupt_frame[nx]
  <2>1. /\ queue \in Seq(T!All)
        /\ dyn \in [T!All -> Nat] /\ \A t \in T!All : dyn[t] <= PROCESS_MAX_PRIORITY
        /\ T!Queued(queue) = {t \in T!All : tstate[t] = "READY"}
    BY <1>0, TaskPriorities DEF TaskTypes, T!TypeOK
  <2>2. nx \in T!Queued(queue)
    BY <1>1, <2>1, TaskDequeueFacts
  <2>. QED BY <1>3, <2>1, <2>2 DEF Preemptive
<1>5. T!scheduler_schedule_locked /\ exec' = saved[nx].of
  BY <1>1, <1>4
<1>6. /\ current' = nx /\ nx # current
      /\ tstate' = [t \in T!All |-> IF t = nx THEN "RUNNING"
                                    ELSE IF t = current THEN "READY" ELSE tstate[t]]
  BY <1>0, <1>1, <1>5, ScheduleFacts
<1>. HIDE DEF nx
<1>7. /\ saved \in [T!All -> [kind : {"none", "switch", "trap"}, of : T!All \cup {T!NoTask}]]
      /\ \A t \in T!All : tstate[t] = "READY" => saved[t] = Frame("trap", t)
      /\ current # T!NoTask => saved[current] = Frame("trap", current)
  BY <1>2, <1>3 DEF Preemptive, Frame
<1>. HIDE DEF saved
<1>8. exec' = nx
  BY <1>4, <1>5, <1>7 DEF Frame
<1>9. TaskTypes'
  BY <1>0, <1>1, <1>2, <1>4, <1>5, <1>7, <1>8, ScheduleTypes
<1>10. Preemptive'
  <2>1. \A t \in T!All : tstate'[t] # "DEAD" => interrupt_frame[t]
    BY <1>1, <1>2, <1>3, <1>4, <1>6 DEF Preemptive
  <2>2. ASSUME NEW t \in T!All, tstate'[t] = "READY"
        PROVE  saved[t] = Frame("trap", t)
    <3>1. CASE t = current
      BY <1>7, <3>1, TaskNames
    <3>2. CASE t # current
      <4>1. t # nx
        BY <1>6, <2>2
      <4>2. tstate[t] = "READY"
        BY <1>6, <2>2, <3>2, <4>1
      <4>. QED BY <1>7, <4>2
    <3>. QED BY <3>1, <3>2
  <2>. QED BY <1>1, <1>3, <1>6, <1>8, <2>1, <2>2 DEF Preemptive
<1>. QED BY <1>1, <1>3, <1>9, <1>10 DEF TasksInv

(* Every step of the scheduler and of a task keeps the invariant.           *)
LEMMA TasksNext ==
    ASSUME TasksInv, T!Next
    PROVE  TasksInv'
<1>1. CASE T!scheduler_set_preemption_enabled
  BY <1>1 DEF T!scheduler_set_preemption_enabled, T!sched, TasksInv, TaskTypes,
              T!TypeOK, Cooperative, Preemptive, T!NoRepeat, T!Queued
<1>. QED BY <1>1, CreateTask, YieldTask, SwitchTask, PreemptTask DEF T!Next

(* The invariant is enough: whoever may be switched to has a frame of its   *)
(* own, of the kind the switch pops.                                        *)
LEMMA TasksInvFrames ==
    TasksInv => T!TaskFrames
<1>. SUFFICES ASSUME TasksInv PROVE T!TaskFrames
  OBVIOUS
<1>0. TaskTypes /\ T!TypeOK
  BY DEF TasksInv, TaskTypes
<1>1. /\ T!NoRepeat(queue) /\ T!Queued(queue) = {t \in T!All : tstate[t] = "READY"}
      /\ kind \in {"cooperative", "preemptive"}
      /\ \A t \in T!All : tstate[t] = "RUNNING" <=> t = current
      /\ exec \in T!All /\ interrupt_frame \in [T!All -> BOOLEAN]
  BY <1>0 DEF TaskTypes, T!TypeOK
<1>2. ASSUME NEW t \in T!All, (tstate[t] = "READY" /\ ~T!InYield(t)) \/ (t = current /\ t # exec)
      PROVE  esp[t] = [kind |-> IF interrupt_frame[t] THEN "trap" ELSE "switch", of |-> t]
  <2>1. CASE kind = "cooperative"
    <3>1. Cooperative
      BY <2>1 DEF TasksInv
    <3>2. ~interrupt_frame[t]
      BY <3>1 DEF Cooperative
    <3>3. t # exec
      BY <1>1, <1>2, <3>1 DEF Cooperative, T!InYield
    <3>. QED BY <1>2, <3>1, <3>2, <3>3 DEF Cooperative, Frame
  <2>2. CASE kind = "preemptive"
    <3>1. Preemptive
      BY <2>2 DEF TasksInv
    <3>2. tstate[t] = "READY"
      BY <1>2, <3>1, TaskNames DEF Preemptive
    <3>3. interrupt_frame[t]
      BY <3>1, <3>2 DEF Preemptive
    <3>. QED BY <3>1, <3>2, <3>3 DEF Preemptive, Frame
  <2>. QED BY <1>1, <2>1, <2>2
<1>3. current # T!NoTask /\ ~T!InYield(exec) => current = exec
  BY <1>1 DEF TasksInv, Cooperative, Preemptive, T!InYield
<1>. QED BY <1>1, <1>2, <1>3 DEF T!TaskFrames

(* The kernel tasks keep their invariant.                                   *)
LEMMA TasksInvariant == Spec => [](Idle("tasks") \/ TasksInv)
<1>. DEFINE Inv == Idle("tasks") \/ TasksInv
<1>1. Init => Inv
  BY TasksInit DEF Init
<1>2. Inv /\ [Next]_vars => Inv'
  <2>. SUFFICES ASSUME Inv, [Next]_vars PROVE Inv'
    OBVIOUS
  <2>1. CASE UNCHANGED tasks
    <3>1. TasksInv => TasksInv'
      BY <2>1 DEF tasks, TasksInv, TaskTypes, T!TypeOK, Cooperative, Preemptive,
                  T!NoRepeat, T!Queued
    <3>2. UNCHANGED part
      BY DEF Next, vars
    <3>. QED BY <3>1, <3>2 DEF Idle
  <2>2. CASE part = "tasks" /\ T!Next
    BY <2>2, TasksNext DEF Idle
  <2>. QED BY <2>1, <2>2 DEF Next, vars
<1>. QED BY <1>1, <1>2, PTL DEF Spec

(* A kernel task goes on exactly where it stopped, although yield queues    *)
(* its caller before context_switch saves the stack and the timer may tick  *)
(* in between; nobody is queued twice or lost.                              *)
THEOREM TasksKeepFrames == Spec => []TaskFrames
<1>1. Idle("tasks") \/ TasksInv => TaskFrames
  BY TasksInvFrames DEF TaskFrames
<1>. QED BY <1>1, TasksInvariant, PTL

-----------------------------------------------------------------------------
(***************************************************************************)
(* The check of a user's range. The loop over the pages of the range has   *)
(* found usable every page before the one it is at; that it visits each    *)
(* page once, and ends, is arithmetic of the page size.                    *)
(***************************************************************************)

(* The multiples of a number are that number apart.                         *)
LEMMA MultiplesApart ==
    ASSUME NEW p \in Nat, p > 0, NEW i \in Nat, NEW j \in Nat, i * p < j * p
    PROVE  i < j /\ i * p + p <= j * p
<1>1. i < j
  <2>1. SUFFICES ASSUME j <= i PROVE FALSE
    OBVIOUS
  <2>2. PICK d \in Nat : i = j + d
    <3>1. i - j \in Nat /\ i = j + (i - j)
      BY <2>1
    <3>. QED BY <3>1
  <2>3. i * p = j * p + d * p
    BY <2>2
  <2>4. d * p >= 0 /\ d * p \in Nat /\ j * p \in Nat
    OBVIOUS
  <2>. QED BY <2>3, <2>4
<1>2. PICK d \in Nat : j = i + 1 + d
  <2>1. j - i - 1 \in Nat /\ j = i + 1 + (j - i - 1)
    BY <1>1
  <2>. QED BY <2>1
<1>3. j * p = i * p + p + d * p
  BY <1>2
<1>4. d * p >= 0 /\ d * p \in Nat /\ i * p \in Nat
  OBVIOUS
<1>. QED BY <1>1, <1>3, <1>4

(* Division with remainder.                                                 *)
LEMMA Divided ==
    ASSUME NEW p \in Nat, p > 0, NEW a \in Nat
    PROVE  /\ a \div p \in Nat /\ (a \div p) * p \in Nat
           /\ (a \div p) * p <= a /\ a < (a \div p) * p + p
           /\ a = (a \div p) * p + (a % p)
OBVIOUS

(* The addresses at which a page starts.                                    *)
PageStart(x) == \E k \in Nat : x = k * PAGE_SIZE

(* The constants, one by one.                                               *)
LEMMA AccessConstants ==
    /\ PAGE_SIZE \in Nat /\ PAGE_SIZE > 0
    /\ MaxString \in Nat /\ MaxString > 0
    /\ WORD \in Nat
    /\ USER_SPACE_START \in Nat /\ USER_SPACE_START > 0 /\ USER_SPACE_START < WORD
    /\ USER_SPACE_END \in Nat /\ USER_SPACE_END > 0 /\ USER_SPACE_END < WORD
BY UserAccessAssumption DEF Positive

(* A multiple of the page size that is below another one is a page below.   *)
LEMMA PageBelow ==
    ASSUME NEW x, NEW y, PageStart(x), PageStart(y), x < y
    PROVE  x + PAGE_SIZE <= y
<1>. DEFINE p == PAGE_SIZE
<1>1. PICK i \in Nat : x = i * p
  BY DEF PageStart
<1>2. PICK j \in Nat : y = j * p
  BY DEF PageStart
<1>3. p \in Nat /\ p > 0
  BY AccessConstants
<1>. HIDE DEF p
<1>4. i * p < j * p
  BY <1>1, <1>2
<1>5. i * p + p <= j * p
  BY <1>3, <1>4, MultiplesApart, Zenon
<1>. QED BY <1>1, <1>2, <1>5 DEF p

(* A page starts at a natural, the next one a page size above.              *)
LEMMA PageAfter ==
    ASSUME NEW x, PageStart(x)
    PROVE  x \in Nat /\ PageStart(x + PAGE_SIZE)
<1>1. PICK k \in Nat : x = k * PAGE_SIZE
  BY DEF PageStart
<1>2. x + PAGE_SIZE = (k + 1) * PAGE_SIZE
  BY <1>1, AccessConstants
<1>3. x \in Nat
  BY <1>1, AccessConstants
<1>. QED BY <1>2, <1>3 DEF PageStart

(* PageOf is the start of the page of an address.                           *)
LEMMA PageOfStart ==
    ASSUME NEW a \in Nat
    PROVE  /\ PageStart(U!PageOf(a))
           /\ U!PageOf(a) \in Nat /\ U!PageOf(a) <= a /\ a < U!PageOf(a) + PAGE_SIZE
<1>. DEFINE p == PAGE_SIZE  k == a \div p
<1>1. p \in Nat /\ p > 0
  BY AccessConstants
<1>. HIDE DEF p
<1>2. k \in Nat /\ k * p <= a /\ a < k * p + p
  BY <1>1
<1>3. U!PageOf(a) = k * p
  BY DEF U!PageOf, p
<1>. HIDE DEF k
<1>4. k * p \in Nat
  BY <1>1, <1>2
<1>. QED BY <1>2, <1>3, <1>4 DEF PageStart, p

(* And the only one.                                                        *)
LEMMA PageOfUnique ==
    ASSUME NEW a \in Nat, NEW x, PageStart(x), x <= a, a < x + PAGE_SIZE
    PROVE  U!PageOf(a) = x
<1>. DEFINE y == U!PageOf(a)
<1>1. PageStart(y) /\ y \in Nat /\ y <= a /\ a < y + PAGE_SIZE
  BY PageOfStart
<1>2. x \in Nat
  BY PageAfter
<1>. HIDE DEF y
<1>3. ~(x < y) /\ ~(y < x)
  BY <1>1, <1>2, PageBelow, AccessConstants
<1>. QED BY <1>1, <1>2, <1>3 DEF y

(* A later address has no earlier page.                                     *)
LEMMA PageOfOrder ==
    ASSUME NEW a \in Nat, NEW b \in Nat, a <= b
    PROVE  U!PageOf(a) <= U!PageOf(b)
<1>. DEFINE x == U!PageOf(a)  y == U!PageOf(b)
<1>1. /\ PageStart(x) /\ x \in Nat /\ x <= a /\ a < x + PAGE_SIZE
      /\ PageStart(y) /\ y \in Nat /\ y <= b /\ b < y + PAGE_SIZE
  BY PageOfStart
<1>. HIDE DEF x, y
<1>2. ~(y < x)
  BY <1>1, PageBelow, AccessConstants
<1>. QED BY <1>1, <1>2 DEF x, y

(* Addition in words.                                                       *)
LEMMA PlusFacts ==
    ASSUME NEW a \in Nat, NEW n \in Nat, a < WORD, n <= WORD
    PROVE  /\ a + n < WORD => U!Plus(a, n) = a + n
           /\ a + n >= WORD => U!Plus(a, n) = a + n - WORD
<1>. DEFINE x == a + n
<1>1. x \in Nat /\ x < WORD + WORD /\ WORD \in Nat \ {0}
  BY AccessConstants
<1>. HIDE DEF x
<1>2. x % WORD = IF x < WORD THEN x ELSE x - WORD
  BY <1>1, Turn, Zenon
<1>3. U!Plus(a, n) = x % WORD
  BY DEF x, U!Plus
<1>4. /\ x < WORD => U!Plus(a, n) = x
      /\ x >= WORD => U!Plus(a, n) = x - WORD
  BY <1>1, <1>2, <1>3
<1>. QED BY <1>1, <1>4, AccessConstants DEF x

(* A range is accepted exactly when all of it lies in user space.           *)
LEMMA RangeFacts ==
    ASSUME NEW a \in 0 .. WORD - 1, NEW n \in 0 .. WORD - 1, n # 0
    PROVE  U!uaccess_range_valid(a, n) <=>
               USER_SPACE_START <= a /\ a < USER_SPACE_END /\ a + n <= USER_SPACE_END
<1>1. a \in Nat /\ n \in Nat /\ a < WORD /\ n <= WORD
  BY AccessConstants
<1>2. /\ a + n < WORD => U!Plus(a, n) = a + n
      /\ a + n >= WORD => U!Plus(a, n) = a + n - WORD
  BY <1>1, PlusFacts, Zenon
<1>3. a \in U!UserByte <=> USER_SPACE_START <= a /\ a < USER_SPACE_END
  BY <1>1, AccessConstants DEF U!UserByte
<1>4. U!RangeEndValid(a, n) <=> a + n <= USER_SPACE_END
  BY <1>1, <1>2, AccessConstants DEF U!RangeEndValid
<1>. QED BY <1>3, <1>4 DEF U!uaccess_range_valid

(* What the access under way has established: the range lies in user space, *)
(* the page it is at is one of the range's, and those before it may be      *)
(* used; of a string, the bytes before the one it is at.                    *)
Usable(a) == pages[U!PageOf(a)] \in U!Touchable(req.kind)

(* A byte that a string may be copied from.                                 *)
Readable(a) == a \in U!UserByte /\ active /\ pages[U!PageOf(a)] \in U!Present

(* Of a refused or finished access, the invariant is the property.          *)
AccessInv ==
    /\ req.kind \in {"none", "read", "write", "string"}
    /\ req.address \in U!Word /\ req.size \in Nat
    /\ pages \in [U!UserPage -> U!PageState]
    /\ result = "none" => copied = 0
    /\ result = "walking" =>
          /\ active
          /\ req.kind \in {"read", "write"}
          /\ req.size > 0 /\ req.size < WORD
          /\ USER_SPACE_START <= req.address
          /\ req.address + req.size <= USER_SPACE_END
          /\ \E b \in U!BytesOf(req) : page = U!PageOf(b)
          /\ \A a \in U!BytesOf(req) : U!PageOf(a) < page => Usable(a)
    /\ result = "copying" =>
          /\ req.kind = "string"
          /\ copied \in 0 .. MaxString
          /\ \A k \in 0 .. copied - 1 :
                Readable(req.address + k)
    /\ U!AccessSafe
    /\ U!AccessComplete

(* Before an access nothing is claimed.                                     *)
LEMMA AccessInit == U!Init => AccessInv
BY AccessConstants DEF U!Init, U!NoRequest, AccessInv, U!Word, U!AccessSafe, U!AccessComplete

(* Only a range that is refused for its bounds, or that another directory   *)
(* maps, fails at once.                                                     *)
LEMMA AccessBegin ==
    ASSUME AccessInv, NEW k \in {"read", "write"}, NEW a \in U!Word, NEW n \in U!Word,
           U!Begin(k, a, n)
    PROVE  AccessInv'
<1>1. /\ result = "none" /\ copied' = copied
      /\ req' = [kind |-> k, address |-> a, size |-> n]
      /\ pages' = pages /\ active' = active
  BY DEF U!Begin
<1>2. a \in 0 .. WORD - 1 /\ n \in 0 .. WORD - 1 /\ a \in Nat /\ n \in Nat
  BY AccessConstants DEF U!Word
<1>3. req'.kind = k /\ req'.address = a /\ req'.size = n /\ U!BytesOf(req)' = a .. a + n - 1
  BY <1>1 DEF U!BytesOf
<1>4. CASE ~U!uaccess_range_valid(a, n)
  <2>1. result' = "EFAULT"
    BY <1>4 DEF U!Begin
  <2>2. U!AccessComplete'
    <3>1. CASE n = 0
      BY <1>3, <3>1 DEF U!AccessComplete
    <3>2. CASE n # 0
      <4>1. ~(USER_SPACE_START <= a /\ a < USER_SPACE_END /\ a + n <= USER_SPACE_END)
        BY <1>2, <1>4, <3>2, RangeFacts
      <4>2. PICK b \in {a, a + n - 1} : b \notin U!UserByte
        BY <1>2, <3>2, <4>1, AccessConstants DEF U!UserByte
      <4>3. b \in a .. a + n - 1
        BY <1>2, <3>2, <4>2
      <4>. QED BY <1>3, <4>2, <4>3 DEF U!AccessComplete, U!UserByte
    <3>. QED BY <3>1, <3>2
  <2>. QED BY <1>1, <1>2, <1>3, <2>1, <2>2 DEF AccessInv, U!AccessSafe, U!Word
<1>5. CASE U!uaccess_range_valid(a, n) /\ n = 0
  <2>1. result' = "SUCCESS"
    BY <1>5 DEF U!Begin
  <2>2. U!BytesOf(req)' = {}
    BY <1>2, <1>3, <1>5
  <2>. QED BY <1>1, <1>2, <1>3, <2>1, <2>2 DEF AccessInv, U!AccessSafe, U!AccessComplete, U!Word
<1>6. CASE n # 0 /\ ~active /\ result' = "EFAULT"
  BY <1>1, <1>2, <1>3, <1>6 DEF AccessInv, U!AccessSafe, U!AccessComplete, U!Word
<1>7. CASE U!uaccess_range_valid(a, n) /\ n # 0 /\ active
  <2>1. result' = "walking" /\ page' = U!PageOf(a)
    BY <1>7 DEF U!Begin
  <2>2. USER_SPACE_START <= a /\ a < USER_SPACE_END /\ a + n <= USER_SPACE_END
    BY <1>2, <1>7, RangeFacts
  <2>3. a \in U!BytesOf(req)'
    BY <1>2, <1>3, <1>7
  <2>4. \A b \in U!BytesOf(req)' : ~(U!PageOf(b) < page')
    <3>. SUFFICES ASSUME NEW b \in a .. a + n - 1 PROVE ~(U!PageOf(b) < U!PageOf(a))
      BY <1>3, <2>1
    <3>1. b \in Nat /\ a <= b
      BY <1>2
    <3>. QED BY <1>2, <3>1, PageOfOrder, PageOfStart
  <2>5. \E b \in U!BytesOf(req)' : page' = U!PageOf(b)
    BY <2>1, <2>3
  <2>6. \A b \in U!BytesOf(req)' : (U!PageOf(b) < page') => Usable(b)'
    BY <2>4
  <2>7. USER_SPACE_START <= req'.address /\ req'.address + req'.size <= USER_SPACE_END
    BY <1>3, <2>2
  <2>8. req'.kind \in {"read", "write"} /\ req'.size > 0 /\ req'.size < WORD
    BY <1>2, <1>3, <1>7, AccessConstants
  <2>9. req'.address \in U!Word /\ req'.size \in Nat
    BY <1>2, <1>3
  <2>. QED BY <1>1, <1>7, <2>1, <2>5, <2>6, <2>7, <2>8, <2>9
           DEF AccessInv, U!AccessSafe, U!AccessComplete, U!Word
<1>8. (n # 0 /\ ~active) => result' = "EFAULT"
  BY <1>4 DEF U!Begin
<1>. QED BY <1>4, <1>5, <1>7, <1>6, <1>8

(* After a page that may be used the walk is at the next one of the range   *)
(* or, after the last, the whole range may be used.                         *)
LEMMA AccessVisit ==
    ASSUME AccessInv, result = "walking", U!Visit, UNCHANGED <<active, req, copied>>,
           pages' \in [U!UserPage -> U!PageState],
           pages'[page] \in U!Touchable(req.kind),
           \A p : pages[p] \in U!Touchable(req.kind) => pages'[p] \in U!Touchable(req.kind)
    PROVE  AccessInv'
<1>. DEFINE r == req  a == req.address  n == req.size  z == a + n - 1
<1>1. /\ r.kind \in {"read", "write"} /\ a \in Nat /\ n \in Nat /\ n > 0 /\ n < WORD
      /\ USER_SPACE_START <= a /\ a + n <= USER_SPACE_END
  BY AccessConstants DEF AccessInv, U!Word
<1>2. z \in Nat /\ a <= z /\ z < WORD /\ U!BytesOf(r) = a .. z /\ U!BytesOf(r)' = a .. z
  <2>1. req' = req
    OBVIOUS
  <2>2. z \in Nat /\ a <= z /\ z < WORD
    BY <1>1, AccessConstants
  <2>3. U!BytesOf(r) = a .. z
    BY <1>1 DEF U!BytesOf
  <2>4. U!BytesOf(r)' = a .. z
    BY <1>1, <2>1 DEF U!BytesOf
  <2>. QED BY <2>2, <2>3, <2>4
<1>3. U!LastPage = U!PageOf(z)
  <2>. DEFINE m == n - 1
  <2>1. m \in Nat /\ m <= WORD /\ a < WORD /\ a + m < WORD /\ a + m = z
    BY <1>1, <1>2, AccessConstants
  <2>. HIDE DEF m
  <2>2. U!Plus(a, m) = a + m
    BY <1>1, <2>1, PlusFacts
  <2>. QED BY <2>1, <2>2 DEF U!LastPage, m
<1>4. PICK b \in a .. z : page = U!PageOf(b)
  BY <1>2 DEF AccessInv
<1>. HIDE DEF z
<1>5. PageStart(page) /\ page \in Nat /\ page <= b /\ b \in Nat
  <2>1. b \in Nat
    BY <1>1, <1>2
  <2>. QED BY <1>4, <2>1, PageOfStart
<1>6. \A x \in a .. z : U!PageOf(x) <= page => Usable(x)'
  <2>. SUFFICES ASSUME NEW x \in a .. z, U!PageOf(x) <= page PROVE Usable(x)'
    OBVIOUS
  <2>1. CASE U!PageOf(x) = page
    BY <2>1 DEF Usable
  <2>2. CASE U!PageOf(x) < page
    BY <1>2, <2>2 DEF AccessInv, Usable
  <2>3. x \in Nat
    BY <1>1, <1>2
  <2>. QED BY <1>5, <2>1, <2>2, <2>3, PageOfStart
<1>7. r' = r /\ r.address \in U!Word
  BY DEF AccessInv
<1>8. CASE page = U!LastPage
  <2>1. result' = "SUCCESS"
    BY <1>8 DEF U!Visit
  <2>2. \A x \in a .. z : Usable(x)' /\ x \in U!UserByte
    <3>. SUFFICES ASSUME NEW x \in a .. z PROVE Usable(x)' /\ x \in U!UserByte
      OBVIOUS
    <3>1. x \in Nat /\ x <= z
      BY <1>1, <1>2
    <3>2. U!PageOf(x) <= page
      BY <1>2, <1>3, <1>8, <3>1, PageOfOrder
    <3>. QED BY <1>1, <1>6, <3>1, <3>2, AccessConstants DEF U!UserByte, z
  <2>3. U!AccessSafe'
    BY <1>1, <1>2, <1>7, <2>2 DEF AccessInv, U!AccessSafe, Usable, U!UserByte
  <2>. QED BY <1>1, <1>7, <2>1, <2>3 DEF AccessInv, U!AccessComplete
<1>9. CASE page # U!LastPage
  <2>1. result' = "walking" /\ page' = U!Plus(page, PAGE_SIZE)
    BY <1>9 DEF U!Visit
  <2>. DEFINE q == page + PAGE_SIZE
  <2>2. q \in Nat /\ PageStart(q)
    BY <1>5, PageAfter
  <2>3. page < U!PageOf(z)
    <3>1. page <= U!PageOf(z)
      BY <1>2, <1>4, <1>5, PageOfOrder
    <3>. QED BY <1>2, <1>3, <1>5, <1>9, <3>1, PageOfStart
  <2>4. q <= z
    <3>1. q <= U!PageOf(z)
      BY <1>2, <1>5, <2>3, PageOfStart, PageBelow
    <3>. QED BY <1>2, <2>2, <3>1, PageOfStart
  <2>5. a <= q
    <3>1. U!PageOf(a) <= page
      BY <1>1, <1>4, <1>5, PageOfOrder
    <3>2. a < U!PageOf(a) + PAGE_SIZE /\ U!PageOf(a) \in Nat
      BY <1>1, PageOfStart
    <3>. QED BY <1>1, <1>5, <3>1, <3>2, AccessConstants
  <2>6. page' = q
    <3>1. page < WORD /\ PAGE_SIZE <= WORD /\ page + PAGE_SIZE < WORD
      BY <1>2, <1>5, <2>4, AccessConstants
    <3>2. U!Plus(page, PAGE_SIZE) = page + PAGE_SIZE
      BY <1>5, <3>1, AccessConstants, PlusFacts
    <3>. QED BY <2>1, <3>2
  <2>7. \A x \in a .. z : U!PageOf(x) < q => U!PageOf(x) <= page
    <3>. SUFFICES ASSUME NEW x \in a .. z, page < U!PageOf(x) PROVE q <= U!PageOf(x)
      <4>1. \A x \in a .. z : U!PageOf(x) \in Nat
        BY <1>1, <1>2, PageOfStart
      <4>. QED BY <1>5, <2>2, <4>1
    <3>1. x \in Nat
      BY <1>1, <1>2
    <3>. QED BY <1>5, <3>1, PageOfStart, PageBelow
  <2>. HIDE DEF q
  <2>8. \A x \in a .. z : U!PageOf(x) < page' => Usable(x)'
    BY <1>6, <2>6, <2>7
  <2>9. q \in a .. z /\ page' = U!PageOf(q)
    <3>1. q < q + PAGE_SIZE /\ q <= q
      BY <2>2, AccessConstants
    <3>2. U!PageOf(q) = q
      BY <2>2, <3>1, PageOfUnique
    <3>. QED BY <1>1, <1>2, <2>2, <2>4, <2>5, <2>6, <3>2
  <2>. QED BY <1>1, <1>2, <1>7, <2>1, <2>8, <2>9 DEF AccessInv, U!AccessSafe, U!AccessComplete
<1>. QED BY <1>8, <1>9

(* A walk fails with EFAULT only at a page of the range that is refused.    *)
LEMMA AccessFails ==
    ASSUME AccessInv, U!WalkFails
    PROVE  AccessInv'
<1>1. /\ result = "walking" /\ UNCHANGED <<pages, active, nul, req, page, copied>>
      /\ result' \in {"ENOMEM", "EFAULT"}
      /\ result' = "EFAULT" => pages[page] \notin U!Servable(req.kind)
  BY DEF U!WalkFails
<1>2. \E b \in U!BytesOf(req) : page = U!PageOf(b)
  BY <1>1 DEF AccessInv
<1>. QED BY <1>1, <1>2 DEF AccessInv, U!AccessSafe, U!AccessComplete, U!BytesOf

(* Every byte of the string before the one that is read next was readable,  *)
(* so the address of that one has not wrapped.                              *)
LEMMA AccessCopy ==
    ASSUME AccessInv, U!CopyByte
    PROVE  AccessInv'
<1>. DEFINE a == req.address  x == U!Plus(a, copied)
<1>1. /\ result = "copying" /\ copied < MaxString
      /\ UNCHANGED <<pages, active, nul, req, page>>
      /\ \/ result' = "EFAULT" /\ UNCHANGED copied
         \/ U!ReadableByte(x) /\ x = nul /\ result' = "SUCCESS" /\ UNCHANGED copied
         \/ U!ReadableByte(x) /\ copied' = copied + 1 /\ UNCHANGED result
  BY DEF U!CopyByte
<1>2. /\ req.kind = "string" /\ copied \in Nat /\ a \in Nat /\ a < WORD /\ req.size \in Nat
      /\ \A k \in 0 .. copied - 1 : Readable(a + k)
  BY <1>1, AccessConstants DEF AccessInv, U!Word
<1>3. a \in U!Word /\ req'.address = a /\ req'.kind = "string" /\ req' = req
  BY <1>1, <1>2 DEF AccessInv
<1>4. ASSUME U!ReadableByte(x)
      PROVE  x = a + copied /\ Readable(x)
  <2>1. copied <= WORD /\ (copied = 0 \/ a + copied <= USER_SPACE_END)
    <3>1. CASE copied = 0
      BY <3>1, AccessConstants
    <3>2. CASE copied # 0
      <4>1. copied - 1 \in 0 .. copied - 1 /\ a + (copied - 1) = a + copied - 1
        BY <1>2, <3>2
      <4>2. a + copied - 1 \in U!UserByte
        BY <1>2, <4>1 DEF Readable
      <4>. QED BY <1>2, <4>2, AccessConstants DEF U!UserByte
    <3>. QED BY <3>1, <3>2
  <2>2. a + copied < WORD
    BY <1>2, <2>1, AccessConstants
  <2>3. x = a + copied
    BY <1>2, <2>1, <2>2, PlusFacts
  <2>4. U!uaccess_range_valid(x, 1) /\ active /\ pages[U!PageOf(x)] \in U!Present
    BY <1>4 DEF U!ReadableByte
  <2>5. x \in U!UserByte
    BY <2>4 DEF U!uaccess_range_valid
  <2>. QED BY <2>3, <2>4, <2>5 DEF Readable
<1>5. CASE result' = "EFAULT" /\ UNCHANGED copied
  BY <1>1, <1>2, <1>3, <1>5 DEF AccessInv, U!AccessSafe, U!AccessComplete
<1>6. CASE U!ReadableByte(x) /\ x = nul /\ result' = "SUCCESS" /\ UNCHANGED copied
  <2>1. nul = a + copied /\ Readable(nul) /\ nul \in Nat
    BY <1>2, <1>4, <1>6
  <2>2. \A y \in a .. nul : Readable(y)
    <3>. SUFFICES ASSUME NEW y \in a .. nul, y # nul
                  PROVE  Readable(y)
      BY <2>1
    <3>. DEFINE k == y - a
    <3>1. k \in 0 .. copied - 1 /\ a + k = y
      BY <1>2, <2>1
    <3>. HIDE DEF k
    <3>. QED BY <1>2, <3>1
  <2>3. U!BytesOf(req)' = a .. nul /\ nul - a \in 0 .. MaxString - 1
    BY <1>1, <1>2, <1>3, <2>1, AccessConstants DEF U!BytesOf
  <2>4. U!AccessSafe'
    BY <1>1, <1>3, <2>2, <2>3
       DEF U!AccessSafe, U!Touchable, U!UserByte, U!PageOf, Readable
  <2>. QED BY <1>1, <1>2, <1>3, <1>6, <2>4 DEF AccessInv, U!AccessComplete
<1>7. CASE U!ReadableByte(x) /\ copied' = copied + 1 /\ UNCHANGED result
  <2>1. Readable(a + copied)
    BY <1>4, <1>7
  <2>2. copied' \in 0 .. MaxString
    BY <1>1, <1>2, <1>7, AccessConstants
  <2>3. \A k \in 0 .. copied' - 1 : Readable(a + k)
    <3>1. \A k \in 0 .. copied' - 1 : k = copied \/ k \in 0 .. copied - 1
      BY <1>2, <1>7
    <3>. QED BY <1>2, <2>1, <3>1
  <2>. QED BY <1>1, <1>2, <1>3, <1>7, <2>2, <2>3
           DEF AccessInv, Readable, U!AccessSafe, U!AccessComplete
<1>. QED BY <1>1, <1>5, <1>6, <1>7

(* The page a walk is at is a page of user space.                           *)
WalkInside == result = "walking" => page \in U!UserPage

(* It is the page of a byte of the range, all of which lies in user space.  *)
LEMMA WalksInside ==
    ASSUME AccessInv
    PROVE  WalkInside
<1>. SUFFICES ASSUME result = "walking" PROVE page \in U!UserPage
  BY DEF WalkInside
<1>1. /\ req.kind \in {"read", "write"} /\ req.address \in Nat /\ req.size \in Nat
      /\ USER_SPACE_START <= req.address
      /\ req.address + req.size <= USER_SPACE_END
  BY AccessConstants DEF AccessInv, U!Word
<1>2. PICK b \in U!BytesOf(req) : page = U!PageOf(b)
  BY DEF AccessInv
<1>3. b \in U!UserByte
  BY <1>1, <1>2, AccessConstants DEF U!BytesOf, U!UserByte
<1>. QED BY <1>2, <1>3 DEF U!UserPage

(* Every step of an access keeps the invariant.                             *)
LEMMA AccessNext ==
    ASSUME AccessInv, U!Next
    PROVE  AccessInv'
<1>1. CASE U!WalkPresent
  BY <1>1, AccessVisit DEF U!WalkPresent, AccessInv
<1>2. CASE U!WalkMakes
  <2>1. pages \in [U!UserPage -> U!PageState] /\ page \in U!UserPage
    BY <1>2, WalksInside DEF U!WalkMakes, AccessInv, WalkInside
  <2>2. pages'[page] = "writable" /\ pages' \in [U!UserPage -> U!PageState]
    BY <1>2, <2>1 DEF U!WalkMakes, U!PageState
  <2>3. \A p : pages[p] = "writable" => pages'[p] = "writable"
    BY <1>2, <2>1 DEF U!WalkMakes
  <2>. QED BY <1>2, <2>2, <2>3, AccessVisit DEF U!WalkMakes, U!Touchable
<1>3. ASSUME NEW a \in U!Word, NEW n \in U!UserByte \cup {0}, U!BeginString(a, n)
      PROVE  AccessInv'
  BY <1>3, AccessConstants DEF U!BeginString, AccessInv, U!AccessSafe, U!AccessComplete
<1>4. CASE U!StringTooLong
  BY <1>4 DEF U!StringTooLong, AccessInv, U!AccessSafe, U!AccessComplete
<1>5. CASE U!Done
  BY <1>5 DEF U!Done, U!vars, AccessInv, U!AccessSafe, U!AccessComplete, Usable,
              U!BytesOf
<1>. QED BY <1>1, <1>2, <1>3, <1>4, <1>5, AccessBegin, AccessFails, AccessCopy DEF U!Next

(* An access to user memory keeps its invariant.                            *)
LEMMA AccessInvariant == Spec => [](Idle("access") \/ AccessInv)
<1>. DEFINE Inv == Idle("access") \/ AccessInv
<1>1. Init => Inv
  BY AccessInit DEF Init
<1>2. Inv /\ [Next]_vars => Inv'
  <2>. SUFFICES ASSUME Inv, [Next]_vars PROVE Inv'
    OBVIOUS
  <2>1. CASE UNCHANGED access
    <3>1. AccessInv => AccessInv'
      BY <2>1 DEF access, AccessInv, U!AccessSafe, U!AccessComplete, Usable, Readable,
                  U!BytesOf
    <3>2. UNCHANGED part
      BY DEF Next, vars
    <3>. QED BY <3>1, <3>2 DEF Idle
  <2>2. CASE part = "access" /\ U!Next
    BY <2>2, AccessNext DEF Idle
  <2>. QED BY <2>1, <2>2 DEF Next, vars
<1>. QED BY <1>1, <1>2, PTL DEF Spec

(* The kernel touches user memory only where its checks looked, writes to   *)
(* no page that is read-only to the program, and refuses nothing that the   *)
(* program itself may read or write, whatever the range.                    *)
THEOREM AccessIsExact == Spec => []AccessExact
<1>1. Idle("access") \/ AccessInv => AccessExact
  BY DEF AccessInv, AccessExact
<1>. QED BY <1>1, AccessInvariant, PTL

(* Every step of an access keeps its type.                                  *)
LEMMA AccessTypesNext ==
    ASSUME U!TypeOK, AccessInv, WalkInside, WalkInside', U!Next
    PROVE  U!TypeOK'
<1>. USE DEF U!TypeOK, WalkInside
<1>1. ASSUME NEW k \in {"read", "write"}, NEW a \in U!Word, NEW n \in U!Word, U!Begin(k, a, n)
      PROVE  U!TypeOK'
  BY <1>1 DEF U!Begin
<1>2. CASE U!WalkPresent
  BY <1>2 DEF U!WalkPresent, U!Visit
<1>3. CASE U!WalkMakes
  <2>1. page \in U!UserPage
    BY <1>3 DEF U!WalkMakes
  <2>2. pages' \in [U!UserPage -> U!PageState]
    BY <1>3, <2>1 DEF U!WalkMakes, U!PageState
  <2>. QED BY <1>3, <2>1, <2>2 DEF U!WalkMakes, U!Visit
<1>4. CASE U!WalkFails
  BY <1>4 DEF U!WalkFails
<1>5. ASSUME NEW a \in U!Word, NEW n \in U!UserByte \cup {0}, U!BeginString(a, n)
      PROVE  U!TypeOK'
  <2>1. MaxString \in U!Word /\ n \in U!Word
    BY UserAccessAssumption, AccessConstants DEF U!Word, U!UserByte
  <2>. QED BY <1>5, <2>1 DEF U!BeginString
<1>6. CASE U!CopyByte
  <2>1. copied' \in 0 .. MaxString /\ result' \in {"copying", "EFAULT", "SUCCESS"}
    BY <1>6, AccessConstants DEF U!CopyByte
  <2>. QED BY <1>6, <2>1 DEF U!CopyByte
<1>7. CASE U!StringTooLong
  BY <1>7 DEF U!StringTooLong
<1>8. CASE U!Done
  BY <1>8 DEF U!Done, U!vars
<1>. QED BY <1>1, <1>2, <1>3, <1>4, <1>5, <1>6, <1>7, <1>8 DEF U!Next

(* Walks stay in user space and strings in their buffer.                    *)
LEMMA AccessTyped == Spec => [](Idle("access") \/ U!TypeOK)
<1>. DEFINE Inv == Idle("access") \/ AccessInv
            In  == Idle("access") \/ WalkInside
            Ty  == Idle("access") \/ U!TypeOK
<1>1. Init => Ty
  <2>1. 0 \in U!Word /\ 0 \in 0 .. MaxString
    BY AccessConstants DEF U!Word
  <2>. QED BY <2>1 DEF Init, U!Init, U!NoRequest, U!TypeOK
<1>2. Inv => In
  BY WalksInside
<1>3. Ty /\ Inv /\ In /\ In' /\ [Next]_vars => Ty'
  <2>. SUFFICES ASSUME Ty, Inv, In, In', [Next]_vars PROVE Ty'
    OBVIOUS
  <2>1. UNCHANGED part
    BY DEF Next, vars
  <2>2. CASE UNCHANGED access
    <3>1. U!TypeOK => U!TypeOK'
      BY <2>2 DEF access, U!TypeOK
    <3>. QED BY <2>1, <3>1 DEF Idle
  <2>3. CASE part = "access" /\ U!Next
    BY <2>1, <2>3, AccessTypesNext DEF Idle
  <2>. QED BY <2>2, <2>3 DEF Next, vars
<1>. QED BY <1>1, <1>2, <1>3, AccessInvariant, PTL DEF Spec

-----------------------------------------------------------------------------
(***************************************************************************)
(* The ELF loader. Headers are accepted before any page is mapped, and     *)
(* their page ranges do not overlap; so a segment that is loaded meets no  *)
(* page of another, and what it fills and protects is not touched again.   *)
(*                                                                         *)
(* The load area ends below the last page of the address space, so that    *)
(* rounding an end up does not wrap.                                       *)
(***************************************************************************)

(* The addresses at which a frame's page starts.                            *)
Aligned(x) == \E k \in Nat : x = k * FRAME_SIZE

(* In the words of elf.c.                                                   *)
LEMMA AlignedFacts ==
    ASSUME NEW x \in Nat
    PROVE  Aligned(x) <=> x % FRAME_SIZE = 0
<1>. DEFINE p == FRAME_SIZE  y == x \div p
<1>1. p \in Nat /\ p > 0
  BY ElfAssumption DEF Positive
<1>. HIDE DEF p
<1>2. y \in Nat /\ y * p \in Nat /\ y * p <= x /\ x < y * p + p /\ x = y * p + (x % p)
  BY <1>1, Divided
<1>. HIDE DEF y
<1>3. ASSUME x % p = 0 PROVE Aligned(x)
  <2>1. x = y * p
    BY <1>2, <1>3
  <2>. QED BY <1>2, <2>1 DEF Aligned, p
<1>4. ASSUME Aligned(x) PROVE x % p = 0
  <2>1. PICK k \in Nat : x = k * p
    BY <1>4 DEF Aligned, p
  <2>2. ~(y * p < k * p)
    <3>1. ASSUME y * p < k * p PROVE y * p + p <= k * p
      BY <1>1, <1>2, <2>1, <3>1, MultiplesApart, Zenon
    <3>. QED BY <1>1, <1>2, <2>1, <3>1
  <2>3. x = y * p
    BY <1>2, <2>1, <2>2
  <2>. QED BY <1>1, <1>2, <2>3
<1>. QED BY <1>3, <1>4 DEF p

(* The constants, one by one.                                               *)
LEMMA ElfConstants ==
    /\ FRAME_SIZE \in Nat /\ FRAME_SIZE > 0
    /\ WORD \in Nat /\ Aligned(WORD)
    /\ ELF_USER_LOAD_MIN \in Nat
    /\ ELF_USER_LOAD_MAX \in Nat /\ ELF_USER_LOAD_MAX < WORD /\ Aligned(ELF_USER_LOAD_MAX)
    /\ ELF_MAX_LOAD_MEMORY_SIZE \in Nat /\ Aligned(ELF_MAX_LOAD_MEMORY_SIZE)
<1>1. WORD \in Nat
  BY UserAccessAssumption
<1>2. FRAME_SIZE \in Nat /\ FRAME_SIZE > 0
  BY ElfAssumption DEF Positive
<1>3. /\ ELF_USER_LOAD_MIN \in 0 .. WORD /\ ELF_USER_LOAD_MAX \in 0 .. WORD
      /\ ELF_MAX_LOAD_MEMORY_SIZE \in 0 .. WORD
      /\ WORD % FRAME_SIZE = 0 /\ ELF_USER_LOAD_MAX % FRAME_SIZE = 0
      /\ ELF_MAX_LOAD_MEMORY_SIZE % FRAME_SIZE = 0
  BY ElfAssumption, Zenon
<1>4. ELF_USER_LOAD_MAX < WORD
  BY ElfAssumption, Zenon
<1>5. ELF_USER_LOAD_MIN \in Nat /\ ELF_USER_LOAD_MAX \in Nat /\ ELF_MAX_LOAD_MEMORY_SIZE \in Nat
  BY <1>1, <1>3
<1>. QED BY <1>1, <1>2, <1>3, <1>4, <1>5, AlignedFacts, Zenon

(* Of two pages, the first is below the second.                             *)
LEMMA AlignedBelow ==
    ASSUME NEW x, NEW y, Aligned(x), Aligned(y), x < y
    PROVE  x + FRAME_SIZE <= y
<1>. DEFINE p == FRAME_SIZE
<1>1. PICK i \in Nat : x = i * p
  BY DEF Aligned
<1>2. PICK j \in Nat : y = j * p
  BY DEF Aligned
<1>3. p \in Nat /\ p > 0
  BY ElfConstants
<1>. HIDE DEF p
<1>4. i * p < j * p
  BY <1>1, <1>2
<1>5. i * p + p <= j * p
  BY <1>3, <1>4, MultiplesApart, Zenon
<1>. QED BY <1>1, <1>2, <1>5 DEF p

(* align_down: the start of the page of an address.                         *)
LEMMA DownFacts ==
    ASSUME NEW a \in Nat
    PROVE  /\ E!align_down(a) \in Nat /\ Aligned(E!align_down(a))
           /\ E!align_down(a) <= a /\ a < E!align_down(a) + FRAME_SIZE
<1>. DEFINE p == FRAME_SIZE  k == a \div p
<1>1. p \in Nat /\ p > 0
  BY ElfConstants
<1>. HIDE DEF p
<1>2. k \in Nat /\ k * p \in Nat /\ k * p <= a /\ a < k * p + p
  BY <1>1, Divided
<1>3. E!align_down(a) = k * p
  BY DEF E!align_down, p
<1>. HIDE DEF k
<1>. QED BY <1>2, <1>3 DEF Aligned, p

(* align_up: the first page start that is not below an address of the load  *)
(* area; there it does not wrap.                                            *)
LEMMA UpFacts ==
    ASSUME NEW x \in Nat, x <= ELF_USER_LOAD_MAX
    PROVE  /\ E!align_up(x) \in Nat /\ Aligned(E!align_up(x))
           /\ x <= E!align_up(x) /\ E!align_up(x) < x + FRAME_SIZE
<1>. DEFINE y == x + FRAME_SIZE - 1
<1>1. ELF_USER_LOAD_MAX + FRAME_SIZE <= WORD
  BY ElfConstants, AlignedBelow, Zenon
<1>2. y \in Nat /\ y < WORD
  BY <1>1, ElfConstants
<1>. HIDE DEF y
<1>3. y % WORD = y
  BY <1>2, ElfConstants
<1>4. E!align_up(x) = E!align_down(y)
  BY <1>3, Zenon DEF E!align_up, y
<1>5. /\ E!align_down(y) \in Nat /\ Aligned(E!align_down(y))
      /\ E!align_down(y) <= y /\ y < E!align_down(y) + FRAME_SIZE
  BY <1>2, DownFacts, Zenon
<1>6. /\ x <= E!align_down(y) /\ E!align_down(y) < x + FRAME_SIZE
  BY <1>5, ElfConstants DEF y
<1>. QED BY <1>4, <1>5, <1>6, Zenon

-----------------------------------------------------------------------------
(* A segment that elf.c accepts.                                            *)
Accepted(ph) == ph \in E!Segment /\ E!validate_segment(ph)

(* It is what it says: no sum in it wraps.                                  *)
LEMMA SegmentFacts ==
    ASSUME NEW ph, Accepted(ph)
    PROVE  /\ ph.vaddr \in Nat /\ ph.memsz \in Nat /\ ph.memsz > 0
           /\ ph.filesz \in Nat /\ ph.filesz <= ph.memsz
           /\ ELF_USER_LOAD_MIN <= ph.vaddr
           /\ ph.vaddr + ph.memsz <= ELF_USER_LOAD_MAX
           /\ ph.memsz <= ELF_MAX_LOAD_MEMORY_SIZE
           /\ (ph.vaddr + ph.memsz) % WORD = ph.vaddr + ph.memsz
<1>. DEFINE v == ph.vaddr  m == ph.memsz  f == ph.filesz  s == v + m
<1>1. /\ ph.load /\ v \in E!Word /\ m \in MemorySizes /\ f \in FileSizes
  BY DEF Accepted, E!Segment
<1>2. MemorySizes \subseteq 0 .. WORD - 1 /\ FileSizes \subseteq 0 .. WORD - 1
  BY ElfAssumption, Zenon
<1>3. v \in 0 .. WORD - 1 /\ m \in 0 .. WORD - 1 /\ f \in 0 .. WORD - 1
  BY <1>1, <1>2 DEF E!Word
<1>4. /\ m # 0 /\ f <= m /\ ~(m > ELF_MAX_LOAD_MEMORY_SIZE - 0)
      /\ ~(s % WORD < v) /\ v >= ELF_USER_LOAD_MIN /\ s % WORD <= ELF_USER_LOAD_MAX
  BY <1>1, Zenon DEF Accepted, E!validate_segment, E!range_inside_user_space, E!add_overflows, E!OverLimit
<1>. HIDE DEF v, m, f
<1>5. s \in Nat /\ s < WORD + WORD /\ WORD \in Nat \ {0} /\ v \in Nat /\ m \in Nat
  BY <1>3, ElfConstants
<1>6. s % WORD = IF s < WORD THEN s ELSE s - WORD
  <2>. HIDE DEF s
  <2>. QED BY <1>5, Turn, Zenon
<1>7. s < WORD /\ s % WORD = s
  BY <1>3, <1>4, <1>5, <1>6
<1>8. /\ v \in Nat /\ m \in Nat /\ m > 0 /\ f \in Nat /\ f <= m
      /\ ELF_USER_LOAD_MIN <= v /\ s <= ELF_USER_LOAD_MAX
      /\ m <= ELF_MAX_LOAD_MEMORY_SIZE /\ s % WORD = s
  BY <1>3, <1>4, <1>5, <1>7, ElfConstants
<1>. QED BY <1>8 DEF v, m, f

(* Its pages start in the page of its first byte and end behind its last.   *)
LEMMA PageRange ==
    ASSUME NEW ph, Accepted(ph)
    PROVE  /\ E!PageStart(ph) \in Nat /\ Aligned(E!PageStart(ph))
           /\ E!PageStart(ph) <= ph.vaddr /\ ph.vaddr < E!PageStart(ph) + FRAME_SIZE
           /\ E!PageEnd(ph) \in Nat /\ Aligned(E!PageEnd(ph))
           /\ ph.vaddr + ph.memsz <= E!PageEnd(ph)
           /\ E!PageEnd(ph) < ph.vaddr + ph.memsz + FRAME_SIZE
<1>. DEFINE v == ph.vaddr  s == v + ph.memsz
<1>1. /\ v \in Nat /\ s \in Nat /\ s <= ELF_USER_LOAD_MAX /\ s % WORD = s
  BY SegmentFacts
<1>2. E!PageStart(ph) = E!align_down(v) /\ E!PageEnd(ph) = E!align_up(s)
  BY <1>1, Zenon DEF E!PageStart, E!PageEnd
<1>. HIDE DEF v, s
<1>3. /\ E!align_down(v) \in Nat /\ Aligned(E!align_down(v))
      /\ E!align_down(v) <= v /\ v < E!align_down(v) + FRAME_SIZE
  BY <1>1, DownFacts, Zenon
<1>4. /\ E!align_up(s) \in Nat /\ Aligned(E!align_up(s))
      /\ s <= E!align_up(s) /\ E!align_up(s) < s + FRAME_SIZE
  BY <1>1, UpFacts, Zenon
<1>. QED BY <1>2, <1>3, <1>4, Zenon DEF v, s

(* Each of its bytes lies in the load area and in one of its pages.         *)
LEMMA BytePage ==
    ASSUME NEW ph, Accepted(ph), NEW a \in E!BytesOf(ph)
    PROVE  a \in E!UserByte /\ E!align_down(a) \in E!PagesOf(ph)
<1>. DEFINE v == ph.vaddr  m == ph.memsz  s == E!PageStart(ph)  e == E!PageEnd(ph)
            d == E!align_down(a)
<1>1. /\ v \in Nat /\ m \in Nat /\ ELF_USER_LOAD_MIN <= v /\ v + m <= ELF_USER_LOAD_MAX
  BY SegmentFacts
<1>2. a \in v .. v + m - 1
  BY DEF E!BytesOf
<1>3. /\ s \in Nat /\ Aligned(s) /\ s <= v /\ v < s + FRAME_SIZE
      /\ e \in Nat /\ v + m <= e
  BY PageRange
<1>. HIDE DEF v, m, s, e
<1>4. a \in Nat /\ v <= a /\ a < v + m
  BY <1>1, <1>2
<1>5. d \in Nat /\ Aligned(d) /\ d <= a /\ a < d + FRAME_SIZE
  BY <1>4, DownFacts, Zenon
<1>. HIDE DEF d
<1>6. ~(d < s)
  <2>1. d < s => d + FRAME_SIZE <= s
    BY <1>3, <1>5, AlignedBelow, Zenon
  <2>. QED BY <1>1, <1>3, <1>4, <1>5, <2>1, ElfConstants
<1>7. d % FRAME_SIZE = 0
  BY <1>5, AlignedFacts, Zenon
<1>8. a \in E!UserByte
  BY <1>1, <1>4, ElfConstants DEF E!UserByte
<1>9. d \in 0 .. WORD - 1 /\ s <= d /\ d < e
  BY <1>1, <1>3, <1>4, <1>5, <1>6, ElfConstants
<1>10. d \in E!PagesOf(ph)
  BY <1>7, <1>9, Zenon DEF E!PagesOf, E!Word, s, e
<1>. QED BY <1>8, <1>10 DEF d

(* Segments whose page ranges do not overlap share no page and no byte.     *)
LEMMA Apart ==
    ASSUME NEW ph, NEW qh, Accepted(ph), Accepted(qh), ~E!ranges_overlap(ph, qh)
    PROVE  /\ E!PagesOf(ph) \cap E!PagesOf(qh) = {}
           /\ E!BytesOf(ph) \cap E!BytesOf(qh) = {}
<1>1. ASSUME NEW a \in E!PagesOf(ph), a \in E!PagesOf(qh) PROVE FALSE
  <2>1. /\ E!PageStart(ph) \in Nat /\ E!PageEnd(ph) \in Nat
        /\ E!PageStart(qh) \in Nat /\ E!PageEnd(qh) \in Nat
    BY PageRange, Zenon
  <2>2. /\ a \in E!Word /\ E!PageStart(ph) <= a /\ a < E!PageEnd(ph)
        /\ E!PageStart(qh) <= a /\ a < E!PageEnd(qh)
    BY <1>1, Zenon DEF E!PagesOf
  <2>3. a \in Nat
    BY <2>2, ElfConstants DEF E!Word
  <2>4. E!PageStart(ph) < E!PageEnd(qh) /\ E!PageStart(qh) < E!PageEnd(ph)
    BY <2>1, <2>2, <2>3
  <2>. QED BY <2>4, Zenon DEF E!ranges_overlap
<1>2. ASSUME NEW a \in E!BytesOf(ph), a \in E!BytesOf(qh) PROVE FALSE
  BY <1>1, <1>2, BytePage, Zenon
<1>. QED BY <1>1, <1>2, Zenon

(* The pages of a segment of the greatest size are one more than its size   *)
(* when it starts inside a page, and never more.                            *)
LEMMA PagesFit ==
    ASSUME NEW ph, Accepted(ph)
    PROVE  Cardinality(E!PagesOf(ph)) <= ELF_MAX_LOAD_MEMORY_SIZE \div FRAME_SIZE + 1
<1>. DEFINE p == FRAME_SIZE  m == ELF_MAX_LOAD_MEMORY_SIZE  n == m \div p
            s == E!PageStart(ph)  e == E!PageEnd(ph)
            f == [k \in 0 .. n |-> s + k * p]
<1>1. p \in Nat /\ p > 0 /\ m \in Nat /\ Aligned(m)
  BY ElfConstants
<1>2. n \in Nat /\ m = n * p
  <2>1. m % p = 0
    BY <1>1, AlignedFacts, Zenon
  <2>. HIDE DEF p, m
  <2>2. n \in Nat /\ n * p \in Nat /\ m = n * p + (m % p)
    BY <1>1, Divided
  <2>. QED BY <1>1, <2>1, <2>2
<1>3. /\ s \in Nat /\ Aligned(s) /\ s <= ph.vaddr /\ ph.vaddr < s + p
      /\ e \in Nat /\ Aligned(e) /\ e < ph.vaddr + ph.memsz + p
      /\ ph.vaddr \in Nat /\ ph.memsz \in Nat /\ ph.memsz <= m
  BY PageRange, SegmentFacts
<1>4. PICK j \in Nat : s = j * p
  BY <1>3 DEF Aligned
<1>5. ASSUME NEW a \in E!PagesOf(ph) PROVE \E k \in 0 .. n : a = f[k]
  <2>1. a \in E!Word /\ a % p = 0 /\ s <= a /\ a < e
    BY DEF E!PagesOf
  <2>2. a \in Nat
    BY <2>1, ElfConstants DEF E!Word
  <2>3. Aligned(a)
    BY <2>1, <2>2, AlignedFacts, Zenon
  <2>4. PICK i \in Nat : a = i * p
    BY <2>3 DEF Aligned
  <2>5. a + p <= e
    BY <1>3, <2>1, <2>3, AlignedBelow, Zenon
  <2>. HIDE DEF p, m, n, s, e
  <2>6. j <= i
    <3>1. i * p < j * p => i * p + p <= j * p
      BY <1>1, MultiplesApart, Zenon
    <3>2. ~(i * p < j * p)
      BY <1>1, <1>4, <2>1, <2>4
    <3>3. ASSUME i < j PROVE FALSE
      <4>1. PICK d \in Nat : j = i + 1 + d
        <5>1. j - i - 1 \in Nat /\ j = i + 1 + (j - i - 1)
          BY <3>3
        <5>. QED BY <5>1
      <4>2. j * p = i * p + p + d * p /\ d * p \in Nat /\ i * p \in Nat
        BY <1>1, <4>1
      <4>. QED BY <1>1, <3>2, <4>2
    <3>. QED BY <3>3
  <2>7. PICK k \in Nat : i = j + k
    <3>1. i - j \in Nat /\ i = j + (i - j)
      BY <2>6
    <3>. QED BY <3>1
  <2>8. i * p = j * p + k * p /\ k * p \in Nat
    BY <1>1, <2>7
  <2>9. a = s + k * p
    BY <1>4, <2>4, <2>8
  <2>10. k <= n
    <3>1. ASSUME n < k PROVE FALSE
      <4>1. PICK d \in Nat : k = n + 1 + d
        <5>1. k - n - 1 \in Nat /\ k = n + 1 + (k - n - 1)
          BY <1>2, <3>1
        <5>. QED BY <5>1
      <4>2. k * p = n * p + p + d * p /\ d * p \in Nat /\ n * p \in Nat
        BY <1>1, <1>2, <4>1
      <4>3. a >= s + m + p
        BY <1>1, <1>2, <1>3, <2>9, <4>2
      <4>. QED BY <1>1, <1>3, <2>2, <2>5, <4>3
    <3>. QED BY <1>2, <3>1
  <2>. QED BY <1>2, <2>9, <2>10
<1>. DEFINE Starts == {f[k] : k \in 0 .. n}
<1>6. IsFiniteSet(0 .. n) /\ Cardinality(0 .. n) = n + 1
  <2>. HIDE DEF n
  <2>. QED BY <1>2, FS_Interval
<1>7. IsFiniteSet(Starts) /\ Cardinality(Starts) <= Cardinality(0 .. n)
  <2>1. f \in Surjection(0 .. n, Starts)
    <3>. HIDE DEF n
    <3>. QED BY DEF Surjection
  <2>. HIDE DEF f, n, Starts
  <2>. QED BY <1>6, <2>1, FS_Surjection
<1>8. E!PagesOf(ph) \subseteq Starts
  BY <1>5
<1>. HIDE DEF Starts
<1>9. IsFiniteSet(E!PagesOf(ph)) /\ Cardinality(E!PagesOf(ph)) <= Cardinality(Starts)
  BY <1>7, <1>8, FS_Subset
<1>10. Cardinality(Starts) \in Nat /\ Cardinality(E!PagesOf(ph)) \in Nat
  BY <1>7, <1>9, FS_CardinalityType
<1>. HIDE DEF n
<1>. QED BY <1>2, <1>6, <1>7, <1>9, <1>10 DEF n

-----------------------------------------------------------------------------
(* What a segment that has been loaded looks like.                          *)
Whole(ph) ==
    /\ \A a \in E!BytesOf(ph) : mem[a] = E!ByteOf(ph, a - ph.vaddr)
    /\ \A a \in E!PagesOf(ph) : a \in mapped /\ (a \in writable <=> ph.w)

(* The headers read so far: each accepted, no two in each other's way.      *)
HeadersInv ==
    /\ phs \in Seq(E!Segment \cup {E!Note})
    /\ phnum \in Nat /\ next \in Nat /\ next > 0
    /\ status = "start" => phs = <<>>
    /\ status \in {"start", "checking"} => next = Len(phs) + 1
    /\ status \in {"loading", "SUCCESS"} => phnum = Len(phs)
    /\ \A i \in E!Segments : Accepted(phs[i])
    /\ \A i, j \in E!Segments : i # j => ~E!ranges_overlap(phs[i], phs[j])

(* The address space: nothing before the headers are checked, then the      *)
(* segments before the one the loop is at, whole, and no other page.        *)
SpaceInv ==
    /\ status \in {"start", "checking", "EINVAL"} => mapped = {} /\ writable = {}
    /\ status \in {"loading", "SUCCESS"} =>
          /\ writable \subseteq mapped
          /\ \A a \in mapped : \E i \in E!Segments : i < next /\ a \in E!PagesOf(phs[i])
          /\ \A i \in E!Segments : i < next => Whole(phs[i])
    /\ status = "SUCCESS" => next = phnum + 1

(* Together they are inductive.                                             *)
ElfInv ==
    /\ status \in {"start", "checking", "loading", "SUCCESS", "EINVAL", "ENOSPC"}
    /\ HeadersInv
    /\ SpaceInv

(* The cardinality Elf speaks of is that of the lemmas on finite sets.      *)
LEMMA ElfCardinality == \A A : E!Cardinality(A) = Cardinality(A)
BY Zenon DEF E!Cardinality, Cardinality

(* They hold the properties.                                                *)
LEMMA ElfInvSound ==
    ASSUME ElfInv
    PROVE  E!NoPartialImage /\ E!ArraysHold /\ E!ImageLoaded
<1>1. E!NoPartialImage
  BY DEF ElfInv, SpaceInv, E!NoPartialImage
<1>2. E!ArraysHold
  <2>1. SUFFICES ASSUME NEW i \in E!Segments
                 PROVE  Cardinality(E!PagesOf(phs[i])) <= ELF_MAX_LOAD_MEMORY_SIZE \div FRAME_SIZE + 1
    BY ElfCardinality, Zenon DEF E!ArraysHold
  <2>. QED BY PagesFit, Zenon DEF ElfInv, HeadersInv
<1>3. E!ImageLoaded
  <2>1. SUFFICES ASSUME status = "SUCCESS", NEW i \in E!Segments, NEW a \in E!BytesOf(phs[i])
                 PROVE  /\ a \in E!UserByte
                        /\ mem[a] = E!ByteOf(phs[i], a - phs[i].vaddr)
                        /\ E!align_down(a) \in mapped
                        /\ E!align_down(a) \in writable <=> phs[i].w
    BY Zenon DEF E!ImageLoaded
  <2>2. i < next
    <3>1. i \in 1 .. Len(phs) /\ Len(phs) \in Nat
      BY DEF ElfInv, HeadersInv, E!Segments
    <3>2. next = Len(phs) + 1
      BY <2>1 DEF ElfInv, HeadersInv, SpaceInv
    <3>. QED BY <3>1, <3>2
  <2>3. Whole(phs[i])
    BY <2>1, <2>2 DEF ElfInv, SpaceInv
  <2>4. a \in E!UserByte /\ E!align_down(a) \in E!PagesOf(phs[i])
    BY BytePage, Zenon DEF ElfInv, HeadersInv
  <2>. QED BY <2>3, <2>4, Zenon DEF Whole
<1>. QED BY <1>1, <1>2, <1>3

(* Before the file is read.                                                 *)
LEMMA ElfInit == E!Init => ElfInv
<1>. SUFFICES ASSUME E!Init PROVE ElfInv
  OBVIOUS
<1>1. phs = <<>> /\ E!Segments = {} /\ Len(phs) = 0
  BY DEF E!Init, E!Segments
<1>2. HeadersInv
  BY <1>1 DEF E!Init, HeadersInv
<1>. QED BY <1>2 DEF E!Init, ElfInv, SpaceInv

(* Whether a header is accepted depends on the size of the file.            *)
LEMMA AcceptedStays ==
    ASSUME UNCHANGED size
    PROVE  \A ph : Accepted(ph)' <=> Accepted(ph)
BY DEF Accepted, E!validate_segment, E!range_inside_file

(* A step that leaves the headers alone.                                    *)
LEMMA SameHeaders ==
    ASSUME UNCHANGED <<size, phs>>, HeadersInv
    PROVE  /\ E!Segments' = E!Segments
           /\ \A i \in E!Segments' : (Accepted(phs[i]))'
           /\ \A i, j \in E!Segments' : i # j => ~E!ranges_overlap(phs'[i], phs'[j])
<1>1. E!Segments' = E!Segments
  BY DEF E!Segments
<1>. QED BY <1>1, AcceptedStays DEF HeadersInv

(* A refusal.                                                               *)
LEMMA ElfFails ==
    ASSUME ElfInv, NEW error \in {"EINVAL", "ENOSPC"}, E!Fail(error),
           error = "EINVAL" => status \in {"start", "checking"}
    PROVE  ElfInv'
<1>1. /\ status' = error /\ UNCHANGED <<size, phnum, phs, next, mapped, writable, mem>>
  BY DEF E!Fail, E!space
<1>2. HeadersInv
  BY DEF ElfInv
<1>3. HeadersInv'
  BY <1>1, <1>2, SameHeaders DEF HeadersInv
<1>4. SpaceInv'
  BY <1>1 DEF ElfInv, SpaceInv
<1>. QED BY <1>1, <1>3, <1>4 DEF ElfInv

(* The header of the file.                                                  *)
LEMMA ElfHeader ==
    ASSUME ElfInv, NEW w \in BOOLEAN, NEW n \in 0 .. ELF_MAX_SEGMENTS + 1, NEW o \in Offsets,
           E!validate_header(w, n, o)
    PROVE  ElfInv'
<1>1. CASE E!Fail("EINVAL")
  BY <1>1, ElfFails DEF E!validate_header
<1>2. CASE /\ status' = "checking" /\ phnum' = n
           /\ UNCHANGED <<size, phs, next, E!space>>
  <2>1. /\ status = "start" /\ UNCHANGED <<size, phs, next, mapped, writable, mem>>
    BY <1>2 DEF E!validate_header, E!space
  <2>2. HeadersInv
    BY DEF ElfInv
  <2>3. n \in Nat
    BY ElfAssumption
  <2>4. HeadersInv'
    BY <1>2, <2>1, <2>2, <2>3, SameHeaders DEF HeadersInv
  <2>5. SpaceInv'
    BY <1>2, <2>1 DEF ElfInv, SpaceInv
  <2>. QED BY <1>2, <2>4, <2>5 DEF ElfInv
<1>. QED BY <1>1, <1>2 DEF E!validate_header

(* A program header: the new one overlaps none of the others.               *)
LEMMA ElfCheckSegment ==
    ASSUME ElfInv, NEW ph \in E!Segment \cup {E!Note}, E!CheckSegment(ph)
    PROVE  ElfInv'
<1>1. CASE E!Fail("EINVAL")
  BY <1>1, ElfFails DEF E!CheckSegment
<1>2. CASE /\ E!AcceptsHeader(ph) /\ phs' = Append(phs, ph) /\ next' = next + 1
           /\ UNCHANGED <<status, size, phnum, E!space>>
  <2>1. /\ status = "checking" /\ UNCHANGED <<status, size, phnum, mapped, writable, mem>>
    BY <1>2 DEF E!CheckSegment, E!space
  <2>2. PICK n \in Nat : n = Len(phs)
    BY DEF ElfInv, HeadersInv
  <2>3. /\ phs \in Seq(E!Segment \cup {E!Note})
        /\ phs' \in Seq(E!Segment \cup {E!Note}) /\ Len(phs') = n + 1
        /\ \A i \in 1 .. n : phs'[i] = phs[i]
        /\ phs'[n + 1] = ph
    BY <1>2, <2>2 DEF ElfInv, HeadersInv
  <2>4. /\ \A i \in E!Segments : i \in 1 .. n /\ phs[i].load
        /\ \A i \in E!Segments' : i \in 1 .. n + 1 /\ phs'[i].load
    BY <2>2, <2>3 DEF E!Segments
  <2>5. \A i \in E!Segments' : i # n + 1 => i \in 1 .. n /\ i \in E!Segments /\ phs'[i] = phs[i]
    BY <2>2, <2>3 DEF E!Segments
  <2>6. ph.load => Accepted(ph) /\ \A i \in E!Segments : ~E!ranges_overlap(ph, phs[i])
    <3>1. ph.load => ph \in E!Segment
      BY DEF E!Note
    <3>. QED BY <1>2, <3>1 DEF E!AcceptsHeader, Accepted
  <2>7. \A i \in E!Segments' : (Accepted(phs[i]))'
    <3>. TAKE i \in E!Segments'
    <3>1. CASE i = n + 1
      BY <2>1, <2>3, <2>4, <2>6, <3>1, AcceptedStays, Zenon
    <3>2. CASE i # n + 1
      BY <2>1, <2>5, <3>2, AcceptedStays, Zenon DEF ElfInv, HeadersInv
    <3>. QED BY <3>1, <3>2
  <2>8. \A i, j \in E!Segments' : i # j => ~E!ranges_overlap(phs'[i], phs'[j])
    <3>. TAKE i, j \in E!Segments'
    <3>. HAVE i # j
    <3>1. CASE i = n + 1
      <4>1. j # n + 1
        BY <3>1
      <4>2. ph.load /\ phs'[i] = ph /\ j \in E!Segments /\ phs'[j] = phs[j]
        BY <2>3, <2>4, <2>5, <3>1, <4>1, Zenon
      <4>. QED BY <2>6, <4>2, Zenon
    <3>2. CASE i # n + 1 /\ j = n + 1
      <4>1. ph.load /\ phs'[j] = ph /\ i \in E!Segments /\ phs'[i] = phs[i]
        BY <2>3, <2>4, <2>5, <3>2, Zenon
      <4>2. ~E!ranges_overlap(ph, phs[i])
        BY <2>6, <4>1, Zenon
      <4>. QED BY <4>1, <4>2, Zenon DEF E!ranges_overlap
    <3>3. CASE i # n + 1 /\ j # n + 1
      BY <2>5, <3>3, Zenon DEF ElfInv, HeadersInv
    <3>. QED BY <3>1, <3>2, <3>3
  <2>9. phnum' \in Nat /\ next' \in Nat /\ next' > 0 /\ next' = Len(phs') + 1
    BY <1>2, <2>1, <2>2, <2>3 DEF ElfInv, HeadersInv
  <2>10. HeadersInv'
    BY <2>1, <2>3, <2>7, <2>8, <2>9 DEF HeadersInv
  <2>11. SpaceInv'
    BY <2>1 DEF ElfInv, SpaceInv
  <2>. QED BY <2>1, <2>10, <2>11 DEF ElfInv
<1>. QED BY <1>1, <1>2 DEF E!CheckSegment

(* A step of the loop that loads, with the headers as they are.             *)
LEMMA LoadStep ==
    ASSUME ElfInv, UNCHANGED <<size, phnum, phs>>, next' \in Nat, next' > 0,
           status \in {"loading", "SUCCESS"}, status' \in {"loading", "SUCCESS"}
    PROVE  HeadersInv' /\ E!Segments' = E!Segments
<1>1. HeadersInv
  BY DEF ElfInv
<1>. QED BY <1>1, SameHeaders DEF HeadersInv

(* The entry point; the loop that loads starts with nothing mapped.         *)
LEMMA ElfCheckEntry ==
    ASSUME ElfInv, NEW entry \in E!Word, E!CheckEntry(entry)
    PROVE  ElfInv'
<1>1. CASE E!Fail("EINVAL")
  BY <1>1, ElfFails DEF E!CheckEntry
<1>2. CASE /\ status' = "loading" /\ next' = 1
           /\ UNCHANGED <<size, phnum, phs, E!space>>
  <2>1. /\ status = "checking" /\ next = phnum + 1
        /\ UNCHANGED <<size, phnum, phs, mapped, writable, mem>>
    BY <1>2 DEF E!CheckEntry, E!space
  <2>2. HeadersInv
    BY DEF ElfInv
  <2>3. Len(phs) = phnum
    <3>1. PICK n \in Nat : n = Len(phs)
      BY <2>2 DEF HeadersInv
    <3>2. next = n + 1 /\ phnum \in Nat
      BY <2>1, <2>2, <3>1 DEF HeadersInv
    <3>. QED BY <2>1, <3>1, <3>2
  <2>4. HeadersInv'
    BY <1>2, <2>1, <2>2, <2>3, SameHeaders DEF HeadersInv
  <2>5. \A i \in E!Segments' : ~(i < next')
    BY <1>2, <2>2 DEF HeadersInv, E!Segments
  <2>6. mapped' = {} /\ writable' = {}
    BY <2>1 DEF ElfInv, SpaceInv
  <2>7. SpaceInv'
    BY <1>2, <2>5, <2>6 DEF SpaceInv
  <2>. QED BY <1>2, <2>4, <2>7 DEF ElfInv
<1>. QED BY <1>1, <1>2 DEF E!CheckEntry

(* A header of another kind is passed over.                                 *)
LEMMA ElfSkip ==
    ASSUME ElfInv, E!SkipHeader
    PROVE  ElfInv'
<1>1. /\ status = "loading" /\ ~phs[next].load /\ next' = next + 1
      /\ UNCHANGED <<status, size, phnum, phs, mapped, writable, mem>>
  BY DEF E!SkipHeader, E!space
<1>2. next \in Nat /\ next > 0
  BY DEF ElfInv, HeadersInv
<1>3. HeadersInv' /\ E!Segments' = E!Segments
  BY <1>1, <1>2, LoadStep
<1>4. \A i \in E!Segments : i \in Nat /\ i # next
  BY <1>1 DEF ElfInv, HeadersInv, E!Segments
<1>5. \A i \in E!Segments : i < next' <=> i < next
  BY <1>1, <1>2, <1>4
<1>6. /\ writable' \subseteq mapped'
      /\ \A a \in mapped' : \E i \in E!Segments' : i < next' /\ a \in E!PagesOf(phs'[i])
  BY <1>1, <1>3, <1>5, Zenon DEF ElfInv, SpaceInv
<1>7. \A i \in E!Segments' : i < next' => (Whole(phs[i]))'
  <2>1. \A ph : Whole(ph)' <=> Whole(ph)
    BY <1>1 DEF Whole
  <2>. QED BY <1>1, <1>3, <1>5, <2>1, Zenon DEF ElfInv, SpaceInv
<1>8. SpaceInv'
  BY <1>1, <1>6, <1>7 DEF SpaceInv
<1>. QED BY <1>1, <1>3, <1>8 DEF ElfInv

(* All segments are loaded.                                                 *)
LEMMA ElfLoaded ==
    ASSUME ElfInv, E!Loaded
    PROVE  ElfInv'
<1>1. /\ status = "loading" /\ status' = "SUCCESS" /\ next = phnum + 1
      /\ UNCHANGED <<size, phnum, phs, next, mapped, writable, mem>>
  BY DEF E!Loaded, E!space
<1>2. HeadersInv' /\ E!Segments' = E!Segments
  BY <1>1, LoadStep DEF ElfInv, HeadersInv
<1>3. \A ph : Whole(ph)' <=> Whole(ph)
  BY <1>1 DEF Whole
<1>4. SpaceInv'
  BY <1>1, <1>2, <1>3 DEF ElfInv, SpaceInv
<1>. QED BY <1>1, <1>2, <1>4 DEF ElfInv

(* The bytes of the segment are the file's, then zeros; the others stay.    *)
LEMMA FilledFacts ==
    ASSUME NEW ph, Accepted(ph), NEW a \in E!UserByte
    PROVE  /\ a \in E!BytesOf(ph) => E!Filled(ph)[a] = E!ByteOf(ph, a - ph.vaddr)
           /\ a \notin E!BytesOf(ph) => E!Filled(ph)[a] = mem[a]
<1>. DEFINE v == ph.vaddr  m == ph.memsz  f == ph.filesz  o == ph.offset
<1>1. v \in Nat /\ m \in Nat /\ f \in Nat /\ f <= m
  BY SegmentFacts
<1>2. a \in Nat
  BY ElfConstants DEF E!UserByte
<1>3. E!Filled(ph)[a] = IF a - v \in 0 .. f - 1 THEN o + (a - v) + 1
                        ELSE IF a \in E!BytesOf(ph) THEN 0 ELSE mem[a]
  BY Zenon DEF E!Filled
<1>4. E!ByteOf(ph, a - v) = IF a - v < f THEN o + (a - v) + 1 ELSE 0
  BY Zenon DEF E!ByteOf
<1>5. a \in E!BytesOf(ph) <=> v <= a /\ a < v + m
  <2>1. E!BytesOf(ph) = v .. v + m - 1
    BY DEF E!BytesOf
  <2>. HIDE DEF v, m
  <2>. QED BY <1>1, <1>2, <2>1
<1>. HIDE DEF v, m, f, o
<1>6. a - v \in 0 .. f - 1 <=> v <= a /\ a - v < f
  BY <1>1, <1>2
<1>7. a - v < f => a < v + m
  BY <1>1, <1>2
<1>8. CASE a \in E!BytesOf(ph)
  <2>1. a - v \in 0 .. f - 1 <=> a - v < f
    BY <1>5, <1>6, <1>8
  <2>. QED BY <1>3, <1>4, <1>8, <2>1, Zenon DEF v
<1>9. CASE a \notin E!BytesOf(ph)
  <2>1. ~(a - v \in 0 .. f - 1)
    BY <1>5, <1>6, <1>7, <1>9
  <2>. QED BY <1>3, <1>9, <2>1, Zenon
<1>. QED BY <1>8, <1>9

(* A segment is loaded: no page is in its way, and no other segment notices.  *)
LEMMA ElfLoad ==
    ASSUME ElfInv, E!LoadSegment
    PROVE  ElfInv'
<1>0. PICK ph : ph = phs[next]
  OBVIOUS
<1>1. /\ status = "loading" /\ next <= phnum /\ ph.load
      /\ mapped' = mapped \cup E!Mappable(ph)
      /\ writable' = IF E!InTheWay(ph) = {} /\ ~ph.w THEN writable ELSE writable \cup E!Mappable(ph)
      /\ mem' = IF E!InTheWay(ph) = {} THEN E!Filled(ph) ELSE mem
      /\ status' = IF E!InTheWay(ph) = {} THEN "loading" ELSE "EINVAL"
      /\ next' = next + 1
      /\ UNCHANGED <<size, phnum, phs>>
  BY <1>0 DEF E!LoadSegment, E!AtSegment
<1>2. next \in E!Segments /\ next \in Nat
  <2>1. PICK n \in Nat : n = Len(phs) /\ DOMAIN phs = 1 .. n /\ phnum = n
    BY <1>1 DEF ElfInv, HeadersInv
  <2>2. next \in 1 .. n
    BY <1>1, <2>1 DEF ElfInv, HeadersInv
  <2>. QED BY <1>1, <2>1, <2>2, <1>0 DEF E!Segments
<1>3. Accepted(ph) /\ \A i \in E!Segments : i # next => Accepted(phs[i]) /\ ~E!ranges_overlap(ph, phs[i])
  BY <1>0, <1>2, Zenon DEF ElfInv, HeadersInv
<1>4. \A i \in E!Segments : i < next => i # next
  BY <1>2
<1>5. \A i \in E!Segments : i < next =>
          /\ E!PagesOf(ph) \cap E!PagesOf(phs[i]) = {}
          /\ E!BytesOf(ph) \cap E!BytesOf(phs[i]) = {}
  BY <1>3, <1>4, Apart, Zenon
<1>6. /\ writable \subseteq mapped
      /\ \A a \in mapped : \E i \in E!Segments : i < next /\ a \in E!PagesOf(phs[i])
      /\ \A i \in E!Segments : i < next => Whole(phs[i])
  BY <1>1 DEF ElfInv, SpaceInv
<1>7. \A a \in E!PagesOf(ph) : a \notin mapped
  BY <1>5, <1>6
<1>8. E!InTheWay(ph) = {} /\ E!Mappable(ph) = E!PagesOf(ph)
  BY <1>7 DEF E!InTheWay, E!Mappable
<1>9. /\ mapped' = mapped \cup E!PagesOf(ph)
      /\ writable' = IF ph.w THEN writable \cup E!PagesOf(ph) ELSE writable
      /\ mem' = E!Filled(ph)
      /\ status' = "loading"
  BY <1>1, <1>8, Zenon
<1>10. next' \in Nat /\ next' > 0
  BY <1>1, <1>2
<1>11. HeadersInv' /\ E!Segments' = E!Segments
  BY <1>1, <1>9, <1>10, LoadStep, Zenon
<1>12. Whole(ph)'
  <2>1. ASSUME NEW a \in E!BytesOf(ph) PROVE mem'[a] = E!ByteOf(ph, a - ph.vaddr)
    BY <1>3, <1>9, BytePage, FilledFacts, Zenon
  <2>2. ASSUME NEW a \in E!PagesOf(ph) PROVE a \in mapped' /\ (a \in writable' <=> ph.w)
    BY <1>6, <1>7, <1>9
  <2>. QED BY <2>1, <2>2 DEF Whole
<1>13. ASSUME NEW i \in E!Segments, i < next PROVE (Whole(phs[i]))'
  <2>. DEFINE qh == phs[i]
  <2>1. Accepted(qh) /\ Whole(qh) /\ phs' = phs
    BY <1>1, <1>3, <1>4, <1>6, <1>13
  <2>2. /\ E!PagesOf(ph) \cap E!PagesOf(qh) = {}
        /\ E!BytesOf(ph) \cap E!BytesOf(qh) = {}
    BY <1>5, <1>13, Zenon
  <2>. HIDE DEF qh
  <2>3. ASSUME NEW a \in E!BytesOf(qh) PROVE mem'[a] = E!ByteOf(qh, a - qh.vaddr)
    <3>1. a \in E!UserByte /\ a \notin E!BytesOf(ph)
      BY <2>1, <2>2, BytePage, Zenon
    <3>2. mem'[a] = mem[a]
      BY <1>3, <1>9, <3>1, FilledFacts, Zenon
    <3>. QED BY <2>1, <3>2, Zenon DEF Whole
  <2>4. ASSUME NEW a \in E!PagesOf(qh) PROVE a \in mapped' /\ (a \in writable' <=> qh.w)
    BY <1>9, <2>1, <2>2 DEF Whole
  <2>5. phs'[i] = qh
    BY <2>1 DEF qh
  <2>. QED BY <2>3, <2>4, <2>5, Zenon DEF Whole
<1>14. \A i \in E!Segments' : i < next' => (Whole(phs[i]))'
  <2>1. \A i \in E!Segments : i < next' => i < next \/ i = next
    <3>1. \A i \in E!Segments : i \in Nat
      BY DEF ElfInv, HeadersInv, E!Segments
    <3>. QED BY <1>1, <1>2, <3>1
  <2>2. phs'[next] = ph
    BY <1>0, <1>1
  <2>. QED BY <1>11, <1>12, <1>13, <2>1, <2>2, Zenon
<1>15. \A a \in mapped' : \E i \in E!Segments' : i < next' /\ a \in E!PagesOf(phs'[i])
  <2>. SUFFICES ASSUME NEW a \in mapped'
                PROVE  \E i \in E!Segments : i < next' /\ a \in E!PagesOf(phs'[i])
    BY <1>11
  <2>1. CASE a \in E!PagesOf(ph)
    <3>1. next < next' /\ phs'[next] = ph
      BY <1>0, <1>1, <1>2
    <3>. QED BY <1>2, <2>1, <3>1, Zenon
  <2>2. CASE a \in mapped
    <3>1. PICK i \in E!Segments : i < next /\ a \in E!PagesOf(phs[i])
      BY <1>6, <2>2, Zenon
    <3>2. i < next' /\ phs'[i] = phs[i]
      <4>1. i \in Nat
        BY DEF ElfInv, HeadersInv, E!Segments
      <4>. QED BY <1>1, <1>2, <3>1, <4>1
    <3>. QED BY <3>1, <3>2, Zenon
  <2>. QED BY <1>9, <2>1, <2>2
<1>16. writable' \subseteq mapped'
  BY <1>6, <1>9
<1>17. SpaceInv'
  BY <1>9, <1>14, <1>15, <1>16 DEF SpaceInv
<1>. QED BY <1>9, <1>11, <1>17 DEF ElfInv

(* When nothing moves, it stays.                                            *)
LEMMA ElfStays ==
    ASSUME ElfInv, UNCHANGED <<status, size, phnum, phs, next, mapped, writable, mem>>
    PROVE  ElfInv'
<1>1. E!Segments' = E!Segments
  BY DEF E!Segments
<1>2. \A ph : Whole(ph)' <=> Whole(ph)
  BY DEF Whole
<1>3. HeadersInv'
  BY SameHeaders DEF ElfInv, HeadersInv
<1>4. SpaceInv'
  BY <1>1, <1>2 DEF ElfInv, SpaceInv
<1>. QED BY <1>3, <1>4 DEF ElfInv

(* Every step keeps it.                                                     *)
LEMMA ElfNext == ElfInv /\ E!Next => ElfInv'
<1>. SUFFICES ASSUME ElfInv, E!Next PROVE ElfInv'
  OBVIOUS
<1>1. ASSUME NEW w \in BOOLEAN, NEW n \in 0 .. ELF_MAX_SEGMENTS + 1, NEW o \in Offsets,
             E!validate_header(w, n, o)
      PROVE  ElfInv'
  BY <1>1, ElfHeader, Zenon
<1>2. ASSUME NEW ph \in E!Segment \cup {E!Note}, E!CheckSegment(ph) PROVE ElfInv'
  BY <1>2, ElfCheckSegment, Zenon
<1>3. ASSUME NEW entry \in E!Word, E!CheckEntry(entry) PROVE ElfInv'
  BY <1>3, ElfCheckEntry, Zenon
<1>4. CASE E!LoadSegment
  BY <1>4, ElfLoad, Zenon
<1>5. CASE E!MapFails
  BY <1>5, ElfFails DEF E!MapFails
<1>6. CASE E!SkipHeader
  BY <1>6, ElfSkip, Zenon
<1>7. CASE E!Loaded
  BY <1>7, ElfLoaded, Zenon
<1>8. CASE E!Finished
  <2>1. UNCHANGED <<status, size, phnum, phs, next, mapped, writable, mem>>
    BY <1>8 DEF E!Finished, E!vars, E!space
  <2>. QED BY <2>1, ElfStays
<1>. QED BY <1>1, <1>2, <1>3, <1>4, <1>5, <1>6, <1>7, <1>8 DEF E!Next

(* The loader keeps its invariant.                                          *)
LEMMA ElfInvariant == Spec => [](Idle("elf") \/ ElfInv)
<1>. DEFINE Inv == Idle("elf") \/ ElfInv
<1>1. Init => Inv
  BY ElfInit DEF Init
<1>2. Inv /\ [Next]_vars => Inv'
  <2>. SUFFICES ASSUME Inv, [Next]_vars PROVE Inv'
    OBVIOUS
  <2>1. CASE UNCHANGED elf
    <3>1. ElfInv => ElfInv'
      BY <2>1, ElfStays DEF elf
    <3>2. UNCHANGED part
      BY DEF Next, vars
    <3>. QED BY <3>1, <3>2 DEF Idle
  <2>2. CASE part = "elf" /\ E!Next
    BY <2>2, ElfNext DEF Idle
  <2>. QED BY <2>1, <2>2 DEF Next, vars
<1>. QED BY <1>1, <1>2, PTL DEF Spec

(* A loaded program finds each segment whole, zero-filled and protected, a  *)
(* file refused as invalid has mapped no page, and the arrays of            *)
(* map_segment_pages hold the pages of the largest segment (elf.c).         *)
THEOREM ImageWhole == Spec => []ImageSound
<1>1. Idle("elf") \/ ElfInv => ImageSound
  BY ElfInvSound DEF ImageSound
<1>. QED BY <1>1, ElfInvariant, PTL

(* The pages of an accepted segment lie in the load area.                   *)
LEMMA PagesInside ==
    ASSUME NEW ph, Accepted(ph)
    PROVE  E!PagesOf(ph) \subseteq E!UserPage
<1>. SUFFICES ASSUME NEW a \in E!PagesOf(ph) PROVE a \in E!UserPage
  OBVIOUS
<1>. DEFINE s == E!PageStart(ph)  e == E!PageEnd(ph)  v == ph.vaddr  m == ph.memsz
            lo == ELF_USER_LOAD_MIN  hi == ELF_USER_LOAD_MAX
<1>1. a \in E!Word /\ a % FRAME_SIZE = 0 /\ s <= a /\ a < e
  BY Zenon DEF E!PagesOf
<1>2. a \in Nat
  BY <1>1, ElfConstants DEF E!Word
<1>3. Aligned(a) /\ Aligned(lo) /\ Aligned(hi)
  <2>1. lo \in Nat /\ lo % FRAME_SIZE = 0
    BY ElfAssumption, ElfConstants, Zenon
  <2>. QED BY <1>1, <1>2, <2>1, AlignedFacts, ElfConstants, Zenon
<1>4. /\ s \in Nat /\ Aligned(s) /\ s <= v /\ v < s + FRAME_SIZE
      /\ e \in Nat /\ Aligned(e) /\ e < v + m + FRAME_SIZE
      /\ v \in Nat /\ m \in Nat /\ lo <= v /\ v + m <= hi
  BY PageRange, SegmentFacts
<1>. HIDE DEF s, e, v, m
<1>5. lo \in Nat /\ hi \in Nat /\ FRAME_SIZE \in Nat /\ FRAME_SIZE > 0
  BY ElfConstants
<1>6. ~(s < lo)
  <2>1. s < lo => s + FRAME_SIZE <= lo
    BY <1>3, <1>4, AlignedBelow, Zenon
  <2>. QED BY <1>4, <1>5, <2>1
<1>7. ~(hi < e)
  <2>1. hi < e => hi + FRAME_SIZE <= e
    BY <1>3, <1>4, AlignedBelow, Zenon
  <2>. QED BY <1>4, <1>5, <2>1
<1>8. lo <= a /\ a <= hi - 1
  BY <1>1, <1>2, <1>4, <1>5, <1>6, <1>7
<1>9. a \in E!UserByte
  BY <1>2, <1>5, <1>8 DEF E!UserByte
<1>. QED BY <1>1, <1>9, Zenon DEF E!UserPage

(* The bytes of the load area stay bytes when a segment is filled.          *)
LEMMA FilledTyped ==
    ASSUME NEW ph, Accepted(ph), mem \in [E!UserByte -> Int]
    PROVE  E!Filled(ph) \in [E!UserByte -> Int]
<1>1. ph.offset \in Int /\ ph.vaddr \in Int
  <2>1. ph.offset \in Offsets
    BY DEF Accepted, E!Segment
  <2>2. Offsets \subseteq 0 .. WORD - 1
    BY ElfAssumption, Zenon
  <2>3. ph.offset \in 0 .. WORD - 1
    BY <2>1, <2>2, Zenon
  <2>4. ph.offset \in Int
    BY <2>3
  <2>5. ph.vaddr \in Nat
    BY SegmentFacts
  <2>. QED BY <2>4, <2>5
<1>2. ASSUME NEW a \in E!UserByte PROVE E!Filled(ph)[a] \in Int
  <2>1. a \in Int /\ mem[a] \in Int
    BY <1>2 DEF E!UserByte
  <2>2. E!Filled(ph)[a] \in {ph.offset + (a - ph.vaddr) + 1, 0, mem[a]}
    BY DEF E!Filled
  <2>. QED BY <1>1, <2>1, <2>2
<1>3. E!Filled(ph) = [a \in E!UserByte |-> E!Filled(ph)[a]]
  BY DEF E!Filled
<1>. QED BY <1>2, <1>3

(* The space a failed step leaves is the one it found.                      *)
LEMMA ElfTypesFail ==
    ASSUME E!TypeOK, NEW error \in E!LoadError, E!Fail(error)
    PROVE  E!TypeOK'
BY DEF E!Fail, E!TypeOK, E!space

(* Every step of the loader keeps its type.                                 *)
LEMMA ElfTypesNext ==
    ASSUME E!TypeOK, ElfInv, E!Next
    PROVE  E!TypeOK'
<1>1. phnum \in Nat /\ Len(phs) \in Nat /\ ELF_MAX_SEGMENTS \in Nat /\ next \in 1 .. phnum + 1
  BY ElfAssumption DEF E!TypeOK, ElfInv, HeadersInv
<1>2. ASSUME NEW w \in BOOLEAN, NEW n \in 0 .. ELF_MAX_SEGMENTS + 1, NEW o \in Offsets,
             E!validate_header(w, n, o)
      PROVE  E!TypeOK'
  <2>1. CASE E!Fail("EINVAL")
    BY <2>1, ElfTypesFail DEF E!LoadError
  <2>2. CASE /\ status = "start" /\ E!HeaderFits(n, o) /\ status' = "checking" /\ phnum' = n
             /\ UNCHANGED <<size, phs, next, E!space>>
    <3>1. n \in 1 .. ELF_MAX_SEGMENTS
      BY <2>2 DEF E!HeaderFits
    <3>2. Len(phs) = 0 /\ next = 1
      BY <2>2 DEF ElfInv, HeadersInv
    <3>3. phnum' \in 0 .. ELF_MAX_SEGMENTS /\ Len(phs') <= phnum' /\ next' \in 1 .. phnum' + 1
      BY <1>1, <2>2, <3>1, <3>2
    <3>. QED BY <2>2, <3>3 DEF E!TypeOK, E!space
  <2>. QED BY <1>2, <2>1, <2>2, Zenon DEF E!validate_header
<1>3. ASSUME NEW ph \in E!Segment \cup {E!Note}, E!CheckSegment(ph) PROVE E!TypeOK'
  <2>1. CASE E!Fail("EINVAL")
    BY <2>1, ElfTypesFail DEF E!LoadError
  <2>2. CASE /\ status = "checking" /\ next <= phnum
             /\ phs' = Append(phs, ph) /\ next' = next + 1
             /\ UNCHANGED <<status, size, phnum, E!space>>
    <3>1. next = Len(phs) + 1 /\ Len(phs') = Len(phs) + 1
      BY <2>2 DEF ElfInv, HeadersInv
    <3>2. Len(phs') <= phnum' /\ next' \in 1 .. phnum' + 1
      BY <1>1, <2>2, <3>1
    <3>. QED BY <2>2, <3>2 DEF E!TypeOK, E!space
  <2>. QED BY <1>3, <2>1, <2>2, Zenon DEF E!CheckSegment
<1>4. ASSUME NEW entry \in E!Word, E!CheckEntry(entry) PROVE E!TypeOK'
  <2>1. CASE E!Fail("EINVAL")
    BY <2>1, ElfTypesFail DEF E!LoadError
  <2>2. CASE status' = "loading" /\ next' = 1 /\ UNCHANGED <<size, phnum, phs, E!space>>
    <3>1. next' \in 1 .. phnum' + 1
      BY <1>1, <2>2
    <3>. QED BY <2>2, <3>1 DEF E!TypeOK, E!space
  <2>. QED BY <1>4, <2>1, <2>2, Zenon DEF E!CheckEntry
<1>5. CASE E!LoadSegment
  <2>0. PICK ph : ph = phs[next]
    OBVIOUS
  <2>1. /\ status = "loading" /\ next <= phnum /\ ph.load
        /\ mapped' = mapped \cup E!Mappable(ph)
        /\ writable' = IF E!InTheWay(ph) = {} /\ ~ph.w THEN writable
                       ELSE writable \cup E!Mappable(ph)
        /\ mem' = IF E!InTheWay(ph) = {} THEN E!Filled(ph) ELSE mem
        /\ status' = IF E!InTheWay(ph) = {} THEN "loading" ELSE "EINVAL"
        /\ next' = next + 1
        /\ UNCHANGED <<size, phnum, phs>>
    BY <1>5, <2>0 DEF E!LoadSegment, E!AtSegment
  <2>2. next \in E!Segments
    <3>1. PICK n \in Nat : n = Len(phs) /\ DOMAIN phs = 1 .. n /\ phnum = n
      BY <2>1 DEF ElfInv, HeadersInv
    <3>2. next \in 1 .. n
      BY <2>1, <3>1 DEF ElfInv, HeadersInv
    <3>. QED BY <2>0, <2>1, <3>1, <3>2 DEF E!Segments
  <2>3. Accepted(ph)
    BY <2>0, <2>2, Zenon DEF ElfInv, HeadersInv
  <2>4. E!Mappable(ph) \subseteq E!UserPage
    BY <2>3, PagesInside DEF E!Mappable
  <2>5. mem' \in [E!UserByte -> Int]
    BY <2>1, <2>3, FilledTyped, Zenon DEF E!TypeOK
  <2>6. mapped' \in SUBSET E!UserPage /\ writable' \in SUBSET mapped'
    BY <2>1, <2>4 DEF E!TypeOK
  <2>7. next' \in 1 .. phnum' + 1 /\ Len(phs') <= phnum'
    BY <1>1, <2>1 DEF E!TypeOK
  <2>8. status' \in {"loading", "EINVAL"}
    BY <2>1, Zenon
  <2>. QED BY <2>1, <2>5, <2>6, <2>7, <2>8 DEF E!TypeOK, E!LoadError
<1>6. CASE E!MapFails
  BY <1>6, ElfTypesFail DEF E!MapFails, E!LoadError
<1>7. CASE E!SkipHeader
  <2>1. next' \in 1 .. phnum' + 1
    BY <1>1, <1>7 DEF E!SkipHeader
  <2>. QED BY <1>7, <2>1 DEF E!SkipHeader, E!TypeOK, E!space
<1>8. CASE E!Loaded
  BY <1>8 DEF E!Loaded, E!TypeOK, E!space
<1>9. CASE E!Finished
  BY <1>9 DEF E!Finished, E!vars, E!TypeOK, E!space
<1>. QED BY <1>2, <1>3, <1>4, <1>5, <1>6, <1>7, <1>8, <1>9 DEF E!Next

(* Whatever the file says, only pages of the load area are mapped.          *)
LEMMA ElfTyped == Spec => [](Idle("elf") \/ E!TypeOK)
<1>. DEFINE Inv == Idle("elf") \/ ElfInv
            Ty  == Idle("elf") \/ E!TypeOK
<1>1. Init => Ty
  <2>1. /\ ELF_MAX_SEGMENTS \in Nat
        /\ [a \in E!UserByte |-> E!Stale] \in [E!UserByte -> Int]
    BY ElfAssumption DEF E!Stale
  <2>. QED BY <2>1 DEF Init, E!Init, E!TypeOK
<1>2. Ty /\ Inv /\ [Next]_vars => Ty'
  <2>. SUFFICES ASSUME Ty, Inv, [Next]_vars PROVE Ty'
    OBVIOUS
  <2>1. UNCHANGED part
    BY DEF Next, vars
  <2>2. CASE UNCHANGED elf
    <3>1. E!TypeOK => E!TypeOK'
      BY <2>2 DEF elf, E!TypeOK
    <3>. QED BY <2>1, <3>1 DEF Idle
  <2>3. CASE part = "elf" /\ E!Next
    BY <2>1, <2>3, ElfTypesNext DEF Idle
  <2>. QED BY <2>2, <2>3 DEF Next, vars
<1>. QED BY <1>1, <1>2, ElfInvariant, PTL DEF Spec

-----------------------------------------------------------------------------
(***************************************************************************)
(* The arguments of exec. ArgsInv says of each phase what the phases       *)
(* before it leave: the strings one after the other in the kernel's        *)
(* buffer, then on the stack below its top, then their addresses below the *)
(* strings.                                                                *)
(***************************************************************************)

(* Where the string before the i-th of a vector ends in the buffer; envp    *)
(* follows argv.                                                            *)
ArgvEnd(i) == IF i = 0 THEN 0 ELSE offsets["argv"][i] + passed["argv"][i]

(* Of both vectors.                                                         *)
EndOf(v, i) ==
    IF v = "argv" THEN ArgvEnd(i)
    ELSE IF i = 0 THEN ArgvEnd(Len(passed["argv"]))
    ELSE offsets["envp"][i] + passed["envp"][i]

(* The i-th string of v, of n characters, lies in b behind index f.         *)
TextIn(b, f, v, i, n) == \A k \in 1 .. n : b[f + k] = S!Text(v, i, n)[k]

(* What the first vector and then the second leave in the buffer.           *)
CopiedInv ==
    /\ passed \in [S!Vectors -> Seq(Positive)]
    /\ offsets \in [S!Vectors -> Seq(Nat)]
    /\ data \in Seq(Int) /\ Len(data) <= EXEC_MAX_VECTOR_BYTES
    /\ \A v \in S!Vectors :
          Len(offsets[v]) = Len(passed[v]) /\ Len(passed[v]) <= S!Limit[v]
    /\ \A v \in S!Vectors : \A i \in 1 .. Len(passed[v]) :
          /\ offsets[v][i] = EndOf(v, i - 1)
          /\ offsets[v][i] + passed[v][i] <= Len(data)
          /\ TextIn(data, offsets[v][i], v, i, passed[v][i])
    /\ phase = "argv" => passed["envp"] = <<>> /\ Len(data) = ArgvEnd(Len(passed["argv"]))
    /\ phase \in {"envp", "push envp", "push argv", "table", "built"} =>
          Len(data) = EndOf("envp", Len(passed["envp"]))

(* The strings that are in the stack already.                               *)
Placed(v, i) ==
    \/ phase \in {"table", "built"}
    \/ phase = "push argv" /\ v = "envp"
    \/ phase = S!Pushing(v) /\ i > left

(* The stack pointer is as far down as the strings that are pushed are      *)
(* long, and none of them reaches below it.                                 *)
PushedInv ==
    /\ stack_size \in StackSizes
    /\ sp \in Int /\ S!stack_page <= sp /\ sp <= USER_STACK_TOP
    /\ DOMAIN ptr = S!Vectors
    /\ \A v \in S!Vectors : ptr[v] \in [1 .. S!Limit[v] -> Int]
    /\ phase \in {"argv", "envp"} => sp = USER_STACK_TOP
    /\ \A v \in S!Vectors : phase = S!Pushing(v) =>
          left \in 0 .. Len(passed[v]) /\ USER_STACK_TOP - sp = Len(data) - EndOf(v, left)
    /\ phase = "table" => USER_STACK_TOP - sp = Len(data)
    /\ \A v \in S!Vectors : \A i \in 1 .. Len(passed[v]) : Placed(v, i) =>
          /\ sp <= ptr[v][i] /\ ptr[v][i] + passed[v][i] <= USER_STACK_TOP
          /\ TextIn(stack, ptr[v][i] - 1, v, i, passed[v][i])

(* Together they are inductive, with the property itself.                   *)
ArgsInv ==
    /\ phase \in {"argv", "envp", "push envp", "push argv", "table", "built",
                  "E2BIG", "E2BIG late", "EFAULT"}
    /\ CopiedInv
    /\ PushedInv
    /\ S!ArgsDelivered
    /\ S!NeverTooBigLate

(* The constants, one by one.                                               *)
LEMMA StackConstants ==
    /\ EXEC_MAX_ARGS \in Nat /\ EXEC_MAX_ENVS \in Nat
    /\ EXEC_MAX_STRING_BYTES \in Nat /\ EXEC_MAX_VECTOR_BYTES \in Nat
    /\ WORD_SIZE \in Nat /\ WORD_SIZE > 0 /\ STACK_ALIGN \in Nat /\ STACK_ALIGN > 0
    /\ USER_STACK_TOP \in Nat /\ USER_STACK_TOP > 0
    /\ \A n \in StackSizes : n \in Nat /\ n > 0 /\ n < USER_STACK_TOP
    /\ Lengths \subseteq Positive
BY ExecStackAssumption DEF Positive

(* So many strings a vector has at most.                                    *)
LEMMA LimitFacts ==
    /\ S!Limit["argv"] = EXEC_MAX_ARGS /\ S!Limit["envp"] = EXEC_MAX_ENVS
    /\ \A v \in S!Vectors : S!Limit[v] \in Nat
BY StackConstants DEF S!Limit, S!Vectors

(* No two vectors are pushed at once.                                       *)
LEMMA PushingDiffers ==
    ASSUME NEW v \in S!Vectors, NEW w \in S!Vectors, S!Pushing(v) = S!Pushing(w)
    PROVE  v = w
<1>1. CASE v = "argv" /\ w = "envp"
  BY <1>1 DEF S!Pushing
<1>2. CASE v = "envp" /\ w = "argv"
  BY <1>2 DEF S!Pushing
<1>. QED BY <1>1, <1>2 DEF S!Vectors

(* The stack page lies above address 0.                                     *)
LEMMA StackPage ==
    ASSUME stack_size \in StackSizes
    PROVE  /\ stack_size \in Nat
           /\ S!stack_page \in Nat /\ S!stack_page > 0 /\ S!stack_page < USER_STACK_TOP
           /\ USER_STACK_TOP - S!stack_page = stack_size
BY StackConstants DEF S!stack_page

(* The characters of a string are not 0, and a NUL ends it.                 *)
LEMMA TextFacts ==
    ASSUME NEW v \in S!Vectors, NEW i \in Nat, NEW n \in Positive
    PROVE  /\ S!Text(v, i, n) \in Seq(Int)
           /\ Len(S!Text(v, i, n)) = n
           /\ \A k \in 1 .. n : S!Text(v, i, n)[k] = 0 <=> k = n
<1>1. S!Letter(v, i) \in Int /\ S!Letter(v, i) # 0
  <2>1. CASE v = "argv"
    <3>1. S!Letter(v, i) = USER_STACK_TOP + i + 0
      BY <2>1 DEF S!Letter
    <3>2. USER_STACK_TOP > 0
      BY StackConstants
    <3>. QED BY <3>1, <3>2, StackConstants
  <2>2. CASE v # "argv"
    <3>1. S!Letter(v, i) = USER_STACK_TOP + i + (EXEC_MAX_ARGS + 1)
      BY <2>2 DEF S!Letter
    <3>. QED BY <3>1, StackConstants
  <2>. QED BY <2>1, <2>2
<1>. DEFINE l == S!Letter(v, i)
<1>2. l \in Int /\ l # 0
  BY <1>1
<1>3. S!Text(v, i, n) = [k \in 1 .. n |-> IF k = n THEN 0 ELSE l]
  BY DEF S!Text
<1>. HIDE DEF l
<1>4. n \in Nat
  BY DEF Positive
<1>. QED BY <1>2, <1>3, <1>4

(* A string that lies in a buffer is as long as strlen says.                *)
LEMMA StrlenFacts ==
    ASSUME NEW v \in S!Vectors, NEW i \in Nat, NEW n \in Positive,
           NEW b \in Seq(Int), NEW f \in Nat, f + n <= Len(b), TextIn(b, f, v, i, n)
    PROVE  S!strlen(b, f) + 1 = n
<1>. DEFINE z == {k \in f + 1 .. Len(b) : b[k] = 0}
            m == CHOOSE k \in z : \A e \in z : k <= e
<1>1. n \in Nat /\ n > 0 /\ Len(b) \in Nat
  BY DEF Positive
<1>2. \A k \in 1 .. n : b[f + k] = 0 <=> k = n
  <2>1. \A k \in 1 .. n : S!Text(v, i, n)[k] = 0 <=> k = n
    BY TextFacts
  <2>. QED BY <2>1 DEF TextIn
<1>3. f + n \in z
  BY <1>1, <1>2
<1>4. \A e \in z : f + n <= e
  <2>. SUFFICES ASSUME NEW e \in z, e < f + n PROVE FALSE
    BY <1>1
  <2>. DEFINE k == e - f
  <2>1. k \in 1 .. n /\ k # n /\ f + k = e
    BY <1>1
  <2>. HIDE DEF k
  <2>. QED BY <1>2, <2>1
<1>5. z \subseteq Int
  BY <1>1
<1>6. S!strlen(b, f) = m - f - 1
  BY DEF S!strlen
<1>. HIDE DEF z
<1>7. m \in z /\ \A e \in z : m <= e
  BY <1>3, <1>4
<1>. HIDE DEF m
<1>8. m = f + n
  <2>1. m \in Int /\ f + n <= m
    BY <1>4, <1>5, <1>7
  <2>2. m <= f + n
    BY <1>3, <1>7
  <2>. QED BY <1>1, <2>1, <2>2
<1>. QED BY <1>1, <1>6, <1>8

(* What is copied behind a buffer leaves the strings in it where they are.  *)
LEMMA TextKept ==
    ASSUME NEW b \in Seq(Int), NEW s \in Seq(Int), NEW v, NEW i, NEW n \in Nat,
           NEW f \in Nat, f + n <= Len(b), TextIn(b, f, v, i, n)
    PROVE  TextIn(b \o s, f, v, i, n)
<1>. SUFFICES ASSUME NEW k \in 1 .. n PROVE (b \o s)[f + k] = S!Text(v, i, n)[k]
  BY DEF TextIn
<1>1. f + k \in 1 .. Len(b) + Len(s) /\ f + k <= Len(b)
  BY LenProperties
<1>2. (b \o s)[f + k] = b[f + k]
  <2>. DEFINE x == f + k
  <2>1. x \in 1 .. Len(b) + Len(s) /\ x <= Len(b)
    BY <1>1
  <2>. HIDE DEF x
  <2>2. (b \o s)[x] = b[x]
    BY <2>1, ConcatProperties
  <2>. QED BY <2>2 DEF x
<1>. QED BY <1>2 DEF TextIn

(* And it lies behind them itself.                                          *)
LEMMA TextAdded ==
    ASSUME NEW b \in Seq(Int), NEW v \in S!Vectors, NEW i \in Nat, NEW n \in Positive
    PROVE  /\ b \o S!Text(v, i, n) \in Seq(Int)
           /\ Len(b \o S!Text(v, i, n)) = Len(b) + n
           /\ TextIn(b \o S!Text(v, i, n), Len(b), v, i, n)
<1>. DEFINE s == S!Text(v, i, n)
<1>1. s \in Seq(Int) /\ Len(s) = n /\ n \in Nat /\ Len(b) \in Nat
  BY TextFacts DEF Positive
<1>. HIDE DEF s
<1>2. ASSUME NEW k \in 1 .. n PROVE (b \o s)[Len(b) + k] = s[k]
  <2>. DEFINE x == Len(b) + k
  <2>1. x \in 1 .. Len(b) + Len(s) /\ ~(x <= Len(b)) /\ x - Len(b) = k
    BY <1>1
  <2>. HIDE DEF x
  <2>2. (b \o s)[x] = s[x - Len(b)]
    BY <1>1, <2>1, ConcatProperties
  <2>. QED BY <2>1, <2>2 DEF x
<1>3. b \o s \in Seq(Int) /\ Len(b \o s) = Len(b) + n
  BY <1>1, ConcatProperties
<1>. QED BY <1>2, <1>3 DEF TextIn, s

(* What the invariant says of the strings, under the names of a step.       *)
LEMMA CopiedTypes ==
    ASSUME CopiedInv, NEW v \in S!Vectors
    PROVE  /\ passed[v] \in Seq(Positive) /\ offsets[v] \in Seq(Nat)
           /\ Len(passed[v]) \in Nat /\ Len(offsets[v]) = Len(passed[v])
           /\ Len(passed[v]) <= S!Limit[v]
           /\ data \in Seq(Int) /\ Len(data) \in Nat /\ Len(data) <= EXEC_MAX_VECTOR_BYTES
           /\ \A i \in 1 .. Len(passed[v]) :
                 passed[v][i] \in Positive /\ passed[v][i] \in Nat /\ offsets[v][i] \in Nat
<1>1. passed[v] \in Seq(Positive) /\ offsets[v] \in Seq(Nat) /\ data \in Seq(Int)
  BY DEF CopiedInv
<1>. QED BY <1>1, LenProperties, ElementOfSeq DEF CopiedInv, Positive

(* The strings are where they were while their vectors are.                 *)
LEMMA CopiedKept ==
    ASSUME CopiedInv, UNCHANGED <<passed, offsets, data>>,
           phase' = "argv" => phase = "argv",
           phase' \in {"envp", "push envp", "push argv", "table", "built"} =>
               Len(data) = EndOf("envp", Len(passed["envp"]))
    PROVE  CopiedInv'
<1>1. \A v \in S!Vectors : \A i \in 1 .. Len(passed[v]) :
          /\ (EndOf(v, i - 1))' = EndOf(v, i - 1)
          /\ TextIn(data, offsets[v][i], v, i, passed[v][i])'
                 <=> TextIn(data, offsets[v][i], v, i, passed[v][i])
  BY DEF EndOf, ArgvEnd, TextIn
<1>2. /\ (ArgvEnd(Len(passed["argv"])))' = ArgvEnd(Len(passed["argv"]))
      /\ (EndOf("envp", Len(passed["envp"])))' = EndOf("envp", Len(passed["envp"]))
  BY DEF EndOf, ArgvEnd
<1>. QED BY <1>1, <1>2 DEF CopiedInv

(* A sequence with one element more.                                        *)
LEMMA Grown ==
    ASSUME NEW A, NEW ss \in Seq(A), NEW x \in A, NEW l, Len(ss) = l
    PROVE  /\ Len(Append(ss, x)) = l + 1 /\ Append(ss, x)[l + 1] = x
           /\ \A j \in 1 .. l : Append(ss, x)[j] = ss[j]
OBVIOUS

(* A string is added where the last one of both vectors ends.               *)
LEMMA CopyAdds ==
    ASSUME CopiedInv, NEW v \in S!Vectors, NEW n \in Lengths, S!CopyString(v, n)
    PROVE  CopiedInv'
<1>0. PICK l \in Nat : l = Len(passed[v])
  BY CopiedTypes
<1>. DEFINE q == passed[v]  o == offsets[v]  t == Len(data)
<1>1. /\ phase = v /\ phase' = phase /\ l + 1 <= S!Limit[v]
      /\ Len(data) + n <= EXEC_MAX_VECTOR_BYTES
      /\ passed' = [passed EXCEPT ![v] = Append(q, n)]
      /\ offsets' = [offsets EXCEPT ![v] = Append(o, t)]
      /\ data' = data \o S!Text(v, l + 1, n)
  BY <1>0 DEF S!CopyString, S!CopyFits
<1>2. /\ q \in Seq(Positive) /\ o \in Seq(Nat) /\ Len(q) = l /\ Len(o) = l
      /\ data \in Seq(Int) /\ t \in Nat /\ n \in Positive /\ n \in Nat
  BY <1>0, CopiedTypes, StackConstants DEF Positive
<1>3. /\ passed' \in [S!Vectors -> Seq(Positive)]
      /\ offsets' \in [S!Vectors -> Seq(Nat)]
      /\ passed'[v] = Append(q, n) /\ offsets'[v] = Append(o, t)
      /\ \A w \in S!Vectors \ {v} : passed'[w] = passed[w] /\ offsets'[w] = offsets[w]
  <2>1. Append(q, n) \in Seq(Positive) /\ Append(o, t) \in Seq(Nat)
    BY <1>2
  <2>2. passed \in [S!Vectors -> Seq(Positive)] /\ offsets \in [S!Vectors -> Seq(Nat)]
    BY DEF CopiedInv
  <2>. QED BY <1>1, <2>1, <2>2
<1>4. /\ Len(passed'[v]) = l + 1 /\ Len(offsets'[v]) = l + 1
      /\ \A j \in 1 .. l : passed'[v][j] = q[j] /\ offsets'[v][j] = o[j]
      /\ passed'[v][l + 1] = n /\ offsets'[v][l + 1] = t
  <2>1. q \in Seq(Positive) /\ n \in Positive /\ Len(q) = l
    BY <1>2
  <2>2. o \in Seq(Nat) /\ t \in Nat /\ Len(o) = l
    BY <1>2
  <2>. HIDE DEF q, o, t
  <2>3. /\ Len(Append(q, n)) = l + 1 /\ Append(q, n)[l + 1] = n
        /\ \A j \in 1 .. l : Append(q, n)[j] = q[j]
    BY <2>1
  <2>4. /\ Len(Append(o, t)) = l + 1 /\ Append(o, t)[l + 1] = t
        /\ \A j \in 1 .. l : Append(o, t)[j] = o[j]
    BY <2>2
  <2>. QED BY <1>3, <2>3, <2>4, Zenon
<1>5. /\ data' \in Seq(Int) /\ Len(data') = t + n
      /\ TextIn(data', t, v, l + 1, n)
  <2>. DEFINE i == l + 1
  <2>1. i \in Nat
    BY <1>2
  <2>. HIDE DEF i
  <2>2. /\ data \o S!Text(v, i, n) \in Seq(Int) /\ Len(data \o S!Text(v, i, n)) = Len(data) + n
        /\ TextIn(data \o S!Text(v, i, n), Len(data), v, i, n)
    BY <1>2, <2>1, TextAdded, Zenon
  <2>. QED BY <1>1, <2>2 DEF i
<1>6. EndOf(v, l) = t
  BY <1>0, <1>1 DEF CopiedInv, EndOf, S!Vectors
<1>7. \A j \in 0 .. l : (EndOf(v, j))' = EndOf(v, j)
  <2>1. CASE v = "argv"
    BY <1>4, <2>1 DEF EndOf, ArgvEnd
  <2>2. CASE v = "envp"
    <3>1. passed'["argv"] = passed["argv"] /\ offsets'["argv"] = offsets["argv"]
      BY <1>3, <2>2 DEF S!Vectors
    <3>. QED BY <1>4, <2>2, <3>1 DEF EndOf, ArgvEnd
  <2>. QED BY <2>1, <2>2 DEF S!Vectors
<1>8. ASSUME NEW w \in S!Vectors \ {v}, NEW j \in 1 .. Len(passed[w])
      PROVE  (EndOf(w, j - 1))' = EndOf(w, j - 1)
  <2>1. v = "envp" /\ w = "argv"
    <3>1. v = "argv" => passed["envp"] = <<>>
      BY <1>1 DEF CopiedInv
    <3>. QED BY <3>1 DEF S!Vectors
  <2>2. passed'["argv"] = passed["argv"] /\ offsets'["argv"] = offsets["argv"]
    BY <1>3, <2>1 DEF S!Vectors
  <2>. QED BY <2>1, <2>2 DEF EndOf, ArgvEnd
<1>9. (EndOf(v, l + 1))' = t + n
  <2>1. l + 1 # 0 /\ v \in {"argv", "envp"}
    BY <1>2 DEF S!Vectors
  <2>2. (EndOf(v, l + 1))' = offsets'[v][l + 1] + passed'[v][l + 1]
    BY <2>1 DEF EndOf, ArgvEnd
  <2>. QED BY <1>4, <2>2
<1>10. ASSUME NEW w \in S!Vectors, NEW j \in 1 .. Len(passed[w])
       PROVE  TextIn(data', offsets[w][j], w, j, passed[w][j])
  <2>. DEFINE f == offsets[w][j]  m == passed[w][j]  s == S!Text(v, l + 1, n)
  <2>1. f \in Nat /\ m \in Nat
    BY CopiedTypes
  <2>2. f + m <= Len(data) /\ TextIn(data, f, w, j, m)
    BY DEF CopiedInv
  <2>3. s \in Seq(Int)
    BY <1>2, TextFacts
  <2>. HIDE DEF f, m, s
  <2>4. TextIn(data \o s, f, w, j, m)
    BY <1>2, <2>1, <2>2, <2>3, TextKept
  <2>. QED BY <1>1, <2>4 DEF f, m, s
<1>11. ASSUME NEW w \in S!Vectors, NEW j \in 1 .. Len(passed'[w])
       PROVE  /\ offsets'[w][j] = (EndOf(w, j - 1))'
              /\ offsets'[w][j] + passed'[w][j] <= Len(data')
              /\ TextIn(data', offsets'[w][j], w, j, passed'[w][j])
  <2>1. ASSUME w = v, j = l + 1
        PROVE  /\ offsets'[w][j] = (EndOf(w, j - 1))'
               /\ offsets'[w][j] + passed'[w][j] <= Len(data')
               /\ TextIn(data', offsets'[w][j], w, j, passed'[w][j])
    <3>1. j - 1 = l
      BY <1>2, <2>1
    <3>2. (EndOf(w, j - 1))' = t
      BY <1>2, <1>6, <1>7, <2>1, <3>1
    <3>3. offsets'[w][j] = t /\ passed'[w][j] = n
      BY <1>4, <2>1, Zenon
    <3>4. Len(data') = t + n /\ TextIn(data', t, w, j, n)
      BY <1>5, <2>1, Zenon
    <3>5. t + n <= Len(data')
      BY <1>2, <3>4
    <3>. QED BY <3>2, <3>3, <3>4, <3>5, Zenon
  <2>2. ASSUME ~(w = v /\ j = l + 1)
        PROVE  /\ j \in 1 .. Len(passed[w])
               /\ offsets'[w][j] = offsets[w][j] /\ passed'[w][j] = passed[w][j]
               /\ (EndOf(w, j - 1))' = EndOf(w, j - 1)
    <3>1. CASE w = v
      <4>. DEFINE x == j - 1
      <4>1. j \in 1 .. l /\ x \in 0 .. l
        BY <1>2, <1>4, <2>2, <3>1
      <4>. HIDE DEF x
      <4>2. (EndOf(v, x))' = EndOf(v, x)
        BY <1>7, <4>1
      <4>3. (EndOf(w, j - 1))' = EndOf(w, j - 1)
        BY <3>1, <4>2 DEF x
      <4>. QED BY <1>0, <1>4, <3>1, <4>1, <4>3
    <3>2. CASE w # v
      BY <1>3, <1>8, <3>2
    <3>. QED BY <3>1, <3>2
  <2>3. ASSUME ~(w = v /\ j = l + 1)
        PROVE  offsets[w][j] + passed[w][j] <= Len(data')
    <3>1. j \in 1 .. Len(passed[w])
      BY <2>2, <2>3
    <3>2. offsets[w][j] + passed[w][j] <= Len(data)
      BY <3>1 DEF CopiedInv
    <3>3. offsets[w][j] \in Nat /\ passed[w][j] \in Nat
      BY <3>1, CopiedTypes
    <3>. QED BY <1>2, <1>5, <3>2, <3>3
  <2>4. ASSUME ~(w = v /\ j = l + 1)
        PROVE  offsets[w][j] = EndOf(w, j - 1)
    BY <2>2, <2>4 DEF CopiedInv
  <2>. QED BY <1>10, <2>1, <2>2, <2>3, <2>4
<1>12. \A w \in S!Vectors : Len(offsets'[w]) = Len(passed'[w]) /\ Len(passed'[w]) <= S!Limit[w]
  BY <1>1, <1>3, <1>4 DEF CopiedInv
<1>13. v = "argv" => passed'["envp"] = <<>> /\ Len(data') = (ArgvEnd(Len(passed["argv"])))'
  <2>. SUFFICES ASSUME v = "argv"
                PROVE  passed'["envp"] = <<>> /\ Len(data') = (ArgvEnd(Len(passed["argv"])))'
    OBVIOUS
  <2>1. passed'["envp"] = passed["envp"] /\ passed["envp"] = <<>>
    BY <1>1, <1>3 DEF CopiedInv, S!Vectors
  <2>2. (ArgvEnd(Len(passed["argv"])))' = (EndOf("argv", l + 1))'
    BY <1>4 DEF EndOf, ArgvEnd
  <2>. QED BY <1>5, <1>9, <2>1, <2>2
<1>14. v = "envp" => Len(data') = (EndOf("envp", Len(passed["envp"])))'
  BY <1>4, <1>5, <1>9 DEF EndOf
<1>15. Len(data') <= EXEC_MAX_VECTOR_BYTES /\ phase' = v
  BY <1>1, <1>5
<1>. QED BY <1>3, <1>5, <1>11, <1>12, <1>13, <1>14, <1>15 DEF CopiedInv, S!Vectors

(* The longest table fits under the longest strings if the limits do.       *)
LEMMA LimitsMean ==
    ASSUME stack_size \in StackSizes, S!LimitsFit,
           NEW k \in Nat, k <= EXEC_MAX_ARGS + EXEC_MAX_ENVS + 3
    PROVE  /\ EXEC_MAX_VECTOR_BYTES + k * WORD_SIZE <= stack_size
           /\ k * WORD_SIZE \in Nat
<1>. DEFINE m == EXEC_MAX_ARGS + EXEC_MAX_ENVS + 3  w == WORD_SIZE  s == STACK_ALIGN
<1>1. m \in Nat /\ w \in Nat /\ w > 0 /\ s \in Nat /\ s > 0 /\ k <= m
      /\ EXEC_MAX_VECTOR_BYTES \in Nat /\ stack_size \in Nat
  BY StackConstants
<1>2. EXEC_MAX_VECTOR_BYTES + m * w + s - 1 <= stack_size
  BY DEF S!LimitsFit
<1>. HIDE DEF m, w, s
<1>3. PICK d \in Nat : m = k + d
  <2>1. m - k \in Nat /\ m = k + (m - k)
    BY <1>1
  <2>. QED BY <2>1
<1>4. m * w = k * w + d * w
  BY <1>1, <1>3
<1>5. k * w \in Nat /\ d * w \in Nat
  BY <1>1
<1>. QED BY <1>1, <1>2, <1>4, <1>5 DEF w

(* A failure leaves everything behind.                                      *)
LEMMA ArgsFail ==
    ASSUME ArgsInv, NEW e \in {"E2BIG", "E2BIG late", "EFAULT"}, S!Fail(e),
           e = "E2BIG late" => ~S!LimitsFit
    PROVE  ArgsInv'
<1>1. phase' = e /\ UNCHANGED <<stack_size, passed, offsets, data, ptr, sp, left, stack>>
  BY DEF S!Fail
<1>2. CopiedInv'
  BY <1>1, CopiedKept DEF ArgsInv
<1>4. PushedInv'
  <2>1. \A v \in S!Vectors : \A i \in 1 .. Len(passed'[v]) : ~(Placed(v, i))'
    BY <1>1 DEF Placed, S!Pushing
  <2>. QED BY <1>1, <2>1 DEF PushedInv, ArgsInv, S!Pushing, S!stack_page
<1>. QED BY <1>1, <1>2, <1>4
         DEF ArgsInv, S!ArgsDelivered, S!NeverTooBigLate, S!LimitsFit

(* Copying does not touch the stack.                                        *)
LEMMA ArgsCopy ==
    ASSUME ArgsInv, NEW v \in S!Vectors, NEW n \in Lengths, S!CopyString(v, n)
    PROVE  ArgsInv'
<1>1. /\ phase = v /\ phase' = phase
      /\ UNCHANGED <<stack_size, ptr, sp, left, stack>>
  BY DEF S!CopyString
<1>2. phase' \in {"argv", "envp"}
  BY <1>1 DEF S!Vectors
<1>3. CopiedInv'
  BY CopyAdds DEF ArgsInv
<1>4. PushedInv'
  <2>1. \A w \in S!Vectors : \A i \in 1 .. Len(passed'[w]) : ~(Placed(w, i))'
    BY <1>2 DEF Placed, S!Pushing
  <2>. QED BY <1>1, <1>2, <2>1 DEF PushedInv, ArgsInv, S!Pushing, S!stack_page
<1>. QED BY <1>2, <1>3, <1>4 DEF ArgsInv, S!ArgsDelivered, S!NeverTooBigLate

(* The end of a vector: envp is copied behind argv, then pushed first.      *)
LEMMA ArgsEndOfVector ==
    ASSUME ArgsInv, NEW v \in S!Vectors, S!EndOfVector(v)
    PROVE  ArgsInv'
<1>1. /\ phase = v
      /\ phase' = IF v = "argv" THEN "envp" ELSE "push envp"
      /\ left' = IF v = "argv" THEN 0 ELSE Len(passed["envp"])
      /\ UNCHANGED <<stack_size, passed, offsets, data, ptr, sp, stack>>
  BY DEF S!EndOfVector
<1>2. Len(data) = EndOf("envp", Len(passed["envp"]))
  <2>1. CASE v = "argv"
    BY <1>1, <2>1 DEF ArgsInv, CopiedInv, EndOf
  <2>2. CASE v = "envp"
    BY <1>1, <2>2 DEF ArgsInv, CopiedInv
  <2>. QED BY <2>1, <2>2 DEF S!Vectors
<1>3. CopiedInv'
  BY <1>1, <1>2, CopiedKept DEF ArgsInv
<1>4. sp = USER_STACK_TOP /\ S!stack_page' = S!stack_page
  BY <1>1 DEF ArgsInv, PushedInv, S!Vectors, S!stack_page
<1>5. CASE v = "argv"
  <2>1. \A w \in S!Vectors : \A i \in 1 .. Len(passed'[w]) : ~(Placed(w, i))'
    BY <1>1, <1>5 DEF Placed, S!Pushing
  <2>2. PushedInv'
    BY <1>1, <1>4, <1>5, <2>1 DEF PushedInv, ArgsInv, S!Pushing
  <2>. QED BY <1>1, <1>3, <1>5, <2>2 DEF ArgsInv, S!ArgsDelivered, S!NeverTooBigLate
<1>6. CASE v = "envp"
  <2>1. phase' = "push envp" /\ left' = Len(passed["envp"]) /\ left' \in Nat
        /\ Len(data) \in Nat /\ passed' = passed
    BY <1>1, <1>6, CopiedTypes DEF ArgsInv, S!Vectors
  <2>2. ASSUME NEW w \in S!Vectors, NEW i \in 1 .. Len(passed'[w]) PROVE ~(Placed(w, i))'
    <3>1. CASE w = "argv"
      BY <2>1, <3>1 DEF Placed, S!Pushing
    <3>2. CASE w = "envp"
      <4>1. Len(passed'[w]) = left'
        BY <2>1, <3>2, Zenon
      <4>2. i \in 1 .. left' /\ left' \in Nat
        BY <2>1, <4>1, Zenon
      <4>3. ~(i > left')
        BY <4>2
      <4>. QED BY <2>1, <3>2, <4>3 DEF Placed, S!Pushing
    <3>. QED BY <3>1, <3>2 DEF S!Vectors
  <2>3. (EndOf("envp", left))' = EndOf("envp", Len(passed["envp"]))
    BY <1>1, <2>1 DEF EndOf, ArgvEnd
  <2>4. USER_STACK_TOP - sp' = Len(data') - (EndOf("envp", left))'
    <3>. DEFINE e == EndOf("envp", Len(passed["envp"]))
    <3>1. Len(data') = e /\ (EndOf("envp", left))' = e /\ e \in Nat /\ sp' = USER_STACK_TOP
      BY <1>1, <1>2, <1>4, <2>1, <2>3
    <3>. HIDE DEF e
    <3>. QED BY <3>1, StackConstants
  <2>5. PushedInv'
    <3>1. ASSUME NEW w \in S!Vectors, phase' = S!Pushing(w)
          PROVE  /\ left' \in 0 .. Len(passed'[w])
                 /\ USER_STACK_TOP - sp' = Len(data') - (EndOf(w, left))'
      <4>1. w = "envp"
        BY <2>1, <3>1 DEF S!Vectors, S!Pushing
      <4>2. left' \in 0 .. Len(passed'[w])
        <5>. DEFINE z == Len(passed'[w])
        <5>1. z = left'
          BY <2>1, <4>1, Zenon
        <5>. HIDE DEF z
        <5>2. left' \in Nat
          BY <2>1, Zenon
        <5>3. left' \in 0 .. z
          BY <5>1, <5>2
        <5>. QED BY <5>3 DEF z
      <4>. QED BY <2>4, <4>1, <4>2, Zenon
    <3>. QED BY <1>1, <1>4, <2>1, <2>2, <3>1 DEF PushedInv, ArgsInv
  <2>. QED BY <2>1, <1>3, <2>5 DEF ArgsInv, S!ArgsDelivered, S!NeverTooBigLate
<1>. QED BY <1>5, <1>6 DEF S!Vectors

(* When the last string of envp is in the stack, all of argv is left.       *)
LEMMA ArgsPushed ==
    ASSUME ArgsInv, NEW v \in S!Vectors, S!Pushed(v)
    PROVE  ArgsInv'
<1>1. /\ phase = S!Pushing(v) /\ left = 0
      /\ phase' = IF v = "argv" THEN "table" ELSE "push argv"
      /\ left' = IF v = "argv" THEN 0 ELSE Len(passed["argv"])
      /\ UNCHANGED <<stack_size, passed, offsets, data, ptr, sp, stack>>
  BY DEF S!Pushed
<1>2. Len(data) = EndOf("envp", Len(passed["envp"]))
  BY <1>1 DEF ArgsInv, CopiedInv, S!Pushing
<1>3. CopiedInv'
  BY <1>1, <1>2, CopiedKept DEF ArgsInv
<1>4. USER_STACK_TOP - sp = Len(data) - EndOf(v, 0)
  BY <1>1 DEF ArgsInv, PushedInv
<1>5. S!stack_page' = S!stack_page
  BY <1>1 DEF S!stack_page
<1>6. ASSUME NEW w \in S!Vectors, NEW i \in 1 .. Len(passed[w]), (Placed(w, i))'
      PROVE  Placed(w, i)
  <2>1. w = v \/ (v = "argv" /\ w = "envp")
    <3>1. CASE v = "argv"
      BY <3>1 DEF S!Vectors
    <3>2. CASE v = "envp" /\ w = "argv"
      <4>1. phase' = "push argv" /\ left' = Len(passed["argv"])
        BY <1>1, <3>2
      <4>2. Len(passed[w]) = left'
        BY <3>2, <4>1, Zenon
      <4>3. Len(passed["argv"]) \in Nat
        BY CopiedTypes DEF ArgsInv, S!Vectors
      <4>4. i \in 1 .. left' /\ left' \in Nat
        BY <4>1, <4>2, <4>3, Zenon
      <4>5. ~(i > left')
        BY <4>4
      <4>. QED BY <1>6, <3>2, <4>1, <4>5 DEF Placed, S!Pushing
    <3>. QED BY <3>1, <3>2 DEF S!Vectors
  <2>2. i > 0
    OBVIOUS
  <2>. QED BY <1>1, <2>1, <2>2 DEF Placed, S!Pushing, S!Vectors
<1>7. \A w \in S!Vectors : \A i \in 1 .. Len(passed'[w]) : (Placed(w, i))' =>
          /\ sp' <= ptr'[w][i] /\ ptr'[w][i] + passed'[w][i] <= USER_STACK_TOP
          /\ TextIn(stack', ptr'[w][i] - 1, w, i, passed'[w][i])
  BY <1>1, <1>6 DEF ArgsInv, PushedInv
<1>8. CASE v = "argv"
  <2>1. phase' = "table"
    BY <1>1, <1>8
  <2>2. USER_STACK_TOP - sp' = Len(data')
    <3>1. EndOf(v, 0) = 0
      BY <1>8 DEF EndOf, ArgvEnd
    <3>2. Len(data) \in Nat
      BY CopiedTypes DEF ArgsInv
    <3>. DEFINE z == Len(data)
    <3>3. USER_STACK_TOP - sp' = z - 0 /\ z \in Nat /\ z = Len(data')
      BY <1>1, <1>4, <3>1, <3>2
    <3>. HIDE DEF z
    <3>. QED BY <3>3
  <2>3. PushedInv'
    BY <1>1, <1>5, <1>7, <2>1, <2>2 DEF PushedInv, ArgsInv, S!Pushing
  <2>. QED BY <1>3, <2>1, <2>3 DEF ArgsInv, S!ArgsDelivered, S!NeverTooBigLate
<1>9. CASE v = "envp"
  <2>1. phase' = "push argv" /\ left' = Len(passed["argv"]) /\ left' \in Nat
    BY <1>1, <1>9, CopiedTypes DEF ArgsInv, S!Vectors
  <2>2. (EndOf("argv", left))' = EndOf("envp", 0)
    BY <1>1, <2>1 DEF EndOf, ArgvEnd
  <2>3. ASSUME NEW w \in S!Vectors, phase' = S!Pushing(w)
        PROVE  /\ left' \in 0 .. Len(passed'[w])
               /\ USER_STACK_TOP - sp' = Len(data') - (EndOf(w, left))'
    <3>1. w = "argv"
      BY <2>1, <2>3 DEF S!Vectors, S!Pushing
    <3>2. left' \in 0 .. Len(passed'[w])
      <4>. DEFINE z == Len(passed'[w])
      <4>1. z = left'
        BY <1>1, <2>1, <3>1, Zenon
      <4>. HIDE DEF z
      <4>2. left' \in Nat
        BY <2>1, Zenon
      <4>3. left' \in 0 .. z
        BY <4>1, <4>2
      <4>. QED BY <4>3 DEF z
    <3>3. (EndOf(w, left))' = EndOf(v, 0)
      BY <1>9, <2>2, <3>1, Zenon
    <3>. DEFINE e == EndOf(v, 0)
    <3>4. USER_STACK_TOP - sp' = Len(data') - e /\ (EndOf(w, left))' = e
      BY <1>1, <1>4, <3>3
    <3>. HIDE DEF e
    <3>. QED BY <3>2, <3>4
  <2>4. PushedInv'
    BY <1>1, <1>5, <1>7, <2>1, <2>3 DEF PushedInv, ArgsInv
  <2>. QED BY <1>3, <2>1, <2>4 DEF ArgsInv, S!ArgsDelivered, S!NeverTooBigLate
<1>. QED BY <1>8, <1>9 DEF S!Vectors

(* The string that is pushed next: its offset and its length.               *)
LEMMA StringLeft ==
    ASSUME ArgsInv, NEW v \in S!Vectors, phase = S!Pushing(v), left > 0
    PROVE  /\ left \in 1 .. Len(passed[v])
           /\ passed[v][left] \in Positive /\ offsets[v][left] \in Nat
           /\ S!strlen(data, offsets[v][left]) + 1 = passed[v][left]
           /\ TextIn(data, offsets[v][left], v, left, passed[v][left])
           /\ offsets[v][left] + passed[v][left] <= Len(data)
           /\ USER_STACK_TOP - sp = Len(data) - EndOf(v, left)
           /\ EndOf(v, left) = offsets[v][left] + passed[v][left]
           /\ EndOf(v, left - 1) = offsets[v][left]
<1>1. left \in 0 .. Len(passed[v]) /\ USER_STACK_TOP - sp = Len(data) - EndOf(v, left)
  BY DEF ArgsInv, PushedInv
<1>2. left \in 1 .. Len(passed[v])
  BY <1>1
<1>3. passed[v][left] \in Positive /\ offsets[v][left] \in Nat /\ data \in Seq(Int)
  BY <1>2, CopiedTypes DEF ArgsInv
<1>4. /\ TextIn(data, offsets[v][left], v, left, passed[v][left])
      /\ offsets[v][left] + passed[v][left] <= Len(data)
      /\ EndOf(v, left - 1) = offsets[v][left]
  BY <1>2 DEF ArgsInv, CopiedInv
<1>5. left \in Nat
  BY <1>2
<1>6. S!strlen(data, offsets[v][left]) + 1 = passed[v][left]
  BY <1>3, <1>4, <1>5, StrlenFacts
<1>7. EndOf(v, left) = offsets[v][left] + passed[v][left]
  BY <1>2, CopiedTypes DEF EndOf, ArgvEnd, S!Vectors
<1>. QED BY <1>1, <1>2, <1>3, <1>4, <1>6, <1>7

(* The stack st from lo on with n bytes of b behind index f below s.        *)
WithString(st, lo, s, n, b, f) ==
    [a \in lo .. USER_STACK_TOP - 1 |-> IF a - (s - n) \in 0 .. n - 1
                                        THEN b[f + 1 + a - (s - n)] ELSE st[a]]

(* The n bytes of b behind index f lie at p.                                *)
Arrived(st, p, b, f, n) == \A k \in 1 .. n : st[p - 1 + k] = b[f + k]

(* The string arrives, and what lies from s on stays.                       *)
LEMMA PutString ==
    ASSUME NEW st, NEW lo \in Nat, NEW s \in Nat, NEW n \in Nat, n <= s - lo, s <= USER_STACK_TOP,
           NEW b, NEW f \in Nat, NEW p, p = s - n
    PROVE  /\ Arrived(WithString(st, lo, s, n, b, f), p, b, f, n)
           /\ \A a \in s .. USER_STACK_TOP - 1 : WithString(st, lo, s, n, b, f)[a] = st[a]
<1>. DEFINE new == WithString(st, lo, s, n, b, f)
<1>0. USER_STACK_TOP \in Nat
  BY StackConstants
<1>1. ASSUME NEW k \in 1 .. n PROVE new[s - n - 1 + k] = b[f + k]
  <2>. DEFINE a == s - n - 1 + k
  <2>1. a \in lo .. USER_STACK_TOP - 1 /\ a - (s - n) \in 0 .. n - 1
        /\ f + 1 + a - (s - n) = f + k
    BY <1>0
  <2>. HIDE DEF a
  <2>2. new[a] = b[f + 1 + a - (s - n)]
    BY <2>1 DEF WithString
  <2>3. new[a] = b[f + k]
    BY <2>1, <2>2
  <2>. QED BY <2>3 DEF a
<1>2. ASSUME NEW a \in s .. USER_STACK_TOP - 1 PROVE new[a] = st[a]
  <2>1. a \in lo .. USER_STACK_TOP - 1 /\ a - (s - n) \notin 0 .. n - 1
    BY <1>0
  <2>. QED BY <2>1 DEF WithString
<1>3. Arrived(new, p, b, f, n)
  <2>. SUFFICES ASSUME NEW k \in 1 .. n PROVE new[p - 1 + k] = b[f + k]
    BY DEF Arrived
  <2>1. p - 1 + k = s - n - 1 + k
    OBVIOUS
  <2>. QED BY <1>1, <2>1
<1>. QED BY <1>2, <1>3

(* Strings that lie above the old stack pointer stay.                       *)
LEMMA TextStays ==
    ASSUME NEW st, NEW new, NEW s \in Int,
           \A a \in s .. USER_STACK_TOP - 1 : new[a] = st[a],
           NEW p \in Int, NEW n \in Nat, s <= p, p + n <= USER_STACK_TOP,
           NEW v, NEW i, TextIn(st, p - 1, v, i, n)
    PROVE  TextIn(new, p - 1, v, i, n)
<1>. SUFFICES ASSUME NEW k \in 1 .. n PROVE new[p - 1 + k] = S!Text(v, i, n)[k]
  BY DEF TextIn
<1>. DEFINE a == p - 1 + k
<1>1. a \in s .. USER_STACK_TOP - 1
  BY StackConstants
<1>2. st[a] = S!Text(v, i, n)[k]
  BY DEF TextIn
<1>. HIDE DEF a
<1>3. new[a] = S!Text(v, i, n)[k]
  BY <1>1, <1>2
<1>. QED BY <1>3 DEF a

(* A string is pushed below those that are in the stack.                    *)
LEMMA ArgsPush ==
    ASSUME ArgsInv, NEW v \in S!Vectors, S!PushString(v)
    PROVE  ArgsInv'
<1>0. PICK l \in Nat : l = left /\ l > 0 /\ l \in 1 .. Len(passed[v])
  BY StringLeft DEF S!PushString
<1>. DEFINE n == passed[v][l]  f == offsets[v][l]  lo == S!stack_page
<1>1. phase = S!Pushing(v) /\ left > 0
  BY DEF S!PushString
<1>2. /\ n \in Positive /\ n \in Nat /\ n > 0 /\ f \in Nat
      /\ S!strlen(data, f) + 1 = n
      /\ TextIn(data, f, v, l, n)
      /\ f + n <= Len(data) /\ Len(data) \in Nat
      /\ USER_STACK_TOP - sp = Len(data) - (f + n)
      /\ EndOf(v, l - 1) = f
  <2>1. /\ n \in Positive /\ f \in Nat /\ S!strlen(data, f) + 1 = n
        /\ TextIn(data, f, v, l, n) /\ f + n <= Len(data)
        /\ USER_STACK_TOP - sp = Len(data) - EndOf(v, l) /\ EndOf(v, l) = f + n
        /\ EndOf(v, l - 1) = f
    BY <1>0, <1>1, StringLeft
  <2>2. Len(data) \in Nat
    BY CopiedTypes DEF ArgsInv
  <2>3. USER_STACK_TOP - sp = Len(data) - (f + n)
    BY <2>1
  <2>. QED BY <2>1, <2>2, <2>3 DEF Positive
<1>3. /\ n <= sp - lo /\ sp' = sp - n
      /\ stack' = [a \in S!Stack |-> IF a - sp' \in 0 .. n - 1
                                     THEN data[f + 1 + a - sp'] ELSE stack[a]]
      /\ ptr' = [ptr EXCEPT ![v][l] = sp']
      /\ left' = l - 1
      /\ UNCHANGED <<stack_size, phase, passed, offsets, data>>
  BY <1>0, <1>2 DEF S!PushString, S!Room
<1>4. /\ lo \in Nat /\ lo' = lo /\ lo < USER_STACK_TOP
      /\ sp \in Nat /\ lo <= sp /\ sp <= USER_STACK_TOP /\ USER_STACK_TOP \in Nat
  <2>1. stack_size \in StackSizes /\ sp \in Int /\ S!stack_page <= sp /\ sp <= USER_STACK_TOP
    BY DEF ArgsInv, PushedInv
  <2>2. lo' = lo
    BY <1>3 DEF S!stack_page
  <2>3. lo \in Nat /\ lo < USER_STACK_TOP /\ lo <= sp
    BY <2>1, StackPage
  <2>. HIDE DEF lo
  <2>. QED BY <2>1, <2>2, <2>3, StackConstants
<1>5. stack' = WithString(stack, lo, sp, n, data, f)
  BY <1>3 DEF S!Stack, WithString
<1>. HIDE DEF n, f, lo
<1>6. /\ Arrived(stack', sp', data, f, n)
      /\ \A a \in sp .. USER_STACK_TOP - 1 : stack'[a] = stack[a]
  <2>. DEFINE lw == lo  s == sp  p == sp'
  <2>1. /\ lw \in Nat /\ s \in Nat /\ n \in Nat /\ n <= s - lw /\ s <= USER_STACK_TOP
        /\ f \in Nat /\ p = s - n
    BY <1>2, <1>3, <1>4
  <2>2. stack' = WithString(stack, lw, s, n, data, f)
    BY <1>5
  <2>. HIDE DEF lw, s, p
  <2>3. Arrived(WithString(stack, lw, s, n, data, f), p, data, f, n)
    BY <2>1, PutString
  <2>4. \A a \in s .. USER_STACK_TOP - 1 : WithString(stack, lw, s, n, data, f)[a] = stack[a]
    BY <2>1, PutString
  <2>. QED BY <2>2, <2>3, <2>4 DEF s, p
<1>7. TextIn(stack', sp' - 1, v, l, n)
  BY <1>2, <1>6 DEF TextIn, Arrived
<1>8. \A w \in S!Vectors : ptr'[w] \in [1 .. S!Limit[w] -> Int]
  <2>1. sp' \in Int
    BY <1>2, <1>3, <1>4
  <2>2. DOMAIN ptr = S!Vectors /\ \A w \in S!Vectors : ptr[w] \in [1 .. S!Limit[w] -> Int]
    BY DEF ArgsInv, PushedInv
  <2>. QED BY <1>3, <2>1, <2>2
<1>9. ptr'[v][l] = sp' /\ \A w \in S!Vectors : \A j \in 1 .. S!Limit[w] :
          ~(w = v /\ j = l) => ptr'[w][j] = ptr[w][j]
  <2>1. l \in 1 .. S!Limit[v]
    <3>1. Len(passed[v]) \in Nat /\ Len(passed[v]) <= S!Limit[v]
      BY CopiedTypes DEF ArgsInv
    <3>2. S!Limit[v] \in Nat
      BY LimitFacts
    <3>. QED BY <1>0, <3>1, <3>2
  <2>2. \A w \in S!Vectors : ptr[w] \in [1 .. S!Limit[w] -> Int]
    BY DEF ArgsInv, PushedInv
  <2>3. v \in DOMAIN ptr /\ DOMAIN ptr = S!Vectors
    BY DEF ArgsInv, PushedInv
  <2>. DEFINE new == [ptr[v] EXCEPT ![l] = sp']
  <2>4. ptr' = [ptr EXCEPT ![v] = new]
    BY <1>3
  <2>5. new[l] = sp' /\ \A j \in 1 .. S!Limit[v] : j # l => new[j] = ptr[v][j]
    BY <2>1, <2>2
  <2>. HIDE DEF new
  <2>6. ptr'[v] = new /\ \A w \in S!Vectors : w # v => ptr'[w] = ptr[w]
    BY <2>3, <2>4
  <2>. QED BY <2>5, <2>6
<1>10. ASSUME NEW w \in S!Vectors, NEW j \in 1 .. Len(passed[w]), (Placed(w, j))'
       PROVE  (w = v /\ j = l) \/ Placed(w, j)
  <2>1. \/ phase \in {"table", "built"}
        \/ phase = "push argv" /\ w = "envp"
        \/ phase = S!Pushing(w) /\ j > left'
    BY <1>3, <1>10 DEF Placed
  <2>2. phase = S!Pushing(w) => w = v
    BY <1>1, PushingDiffers
  <2>3. j > left' => j = l \/ j > left
    BY <1>0, <1>3
  <2>. QED BY <2>1, <2>2, <2>3 DEF Placed
<1>11. ASSUME NEW w \in S!Vectors, NEW j \in 1 .. Len(passed[w]), (Placed(w, j))'
       PROVE  /\ sp' <= ptr'[w][j] /\ ptr'[w][j] + passed[w][j] <= USER_STACK_TOP
              /\ TextIn(stack', ptr'[w][j] - 1, w, j, passed[w][j])
  <2>1. CASE w = v /\ j = l
    <3>1. passed[w][j] = n /\ ptr'[w][j] = sp'
      BY <1>9, <2>1 DEF n
    <3>2. sp' \in Nat /\ sp' + n <= USER_STACK_TOP
      BY <1>2, <1>3, <1>4
    <3>. QED BY <1>7, <2>1, <3>1, <3>2
  <2>2. CASE ~(w = v /\ j = l)
    <3>. DEFINE p == ptr[w][j]  m == passed[w][j]
    <3>1. j \in 1 .. S!Limit[w] /\ m \in Nat
      <4>1. /\ Len(passed[w]) \in Nat /\ Len(passed[w]) <= S!Limit[w] /\ m \in Nat
        BY CopiedTypes DEF ArgsInv
      <4>. HIDE DEF m
      <4>2. S!Limit[w] \in Nat
        BY LimitFacts
      <4>. QED BY <4>1, <4>2
    <3>2. p \in Int /\ ptr'[w][j] = p
      BY <1>9, <2>2, <3>1 DEF ArgsInv, PushedInv
    <3>3. sp <= p /\ p + m <= USER_STACK_TOP /\ TextIn(stack, p - 1, w, j, m)
      BY <1>10, <1>11, <2>2 DEF ArgsInv, PushedInv
    <3>. DEFINE new == stack'
    <3>4. \A a \in sp .. USER_STACK_TOP - 1 : new[a] = stack[a]
      BY <1>6
    <3>. HIDE DEF p, m, new
    <3>5. TextIn(new, p - 1, w, j, m)
      <4>1. sp \in Int
      BY <1>4
    <4>. QED BY <4>1, <3>1, <3>2, <3>3, <3>4, TextStays, Zenon
    <3>6. sp' <= p
      BY <1>2, <1>3, <1>4, <3>2, <3>3
    <3>. QED BY <3>2, <3>3, <3>5, <3>6 DEF p, m, new
  <2>. QED BY <2>1, <2>2
<1>12. CopiedInv'
  <2>1. Len(data) = EndOf("envp", Len(passed["envp"]))
    BY <1>1 DEF ArgsInv, CopiedInv, S!Pushing
  <2>. QED BY <1>1, <1>3, <2>1, CopiedKept DEF ArgsInv
<1>13. ASSUME NEW w \in S!Vectors, phase' = S!Pushing(w)
       PROVE  /\ left' \in 0 .. Len(passed'[w])
              /\ USER_STACK_TOP - sp' = Len(data') - (EndOf(w, left))'
  <2>1. w = v
    BY <1>1, <1>3, <1>13, PushingDiffers
  <2>2. left' \in 0 .. Len(passed[v])
    <3>1. Len(passed[v]) \in Nat
      BY CopiedTypes DEF ArgsInv
    <3>. QED BY <1>0, <1>3, <3>1
  <2>. DEFINE x == l - 1
  <2>3. x = l - 1
    OBVIOUS
  <2>. HIDE DEF x
  <2>4. (EndOf(v, x))' = EndOf(v, x)
    BY <1>3 DEF EndOf, ArgvEnd
  <2>5. (EndOf(v, left))' = f
    <3>1. left' = x
      BY <1>3, <2>3
    <3>2. (EndOf(v, left))' = (EndOf(v, x))'
      BY <3>1 DEF EndOf, ArgvEnd
    <3>. QED BY <1>2, <2>3, <2>4, <3>2
  <2>6. USER_STACK_TOP - sp' = Len(data) - f
    <3>. DEFINE z == Len(data)  y == sp'
    <3>1. z \in Nat /\ n \in Nat /\ f \in Nat /\ USER_STACK_TOP - sp = z - (f + n)
      BY <1>2
    <3>2. y = sp - n /\ sp \in Nat /\ USER_STACK_TOP \in Nat
      BY <1>3, <1>4
    <3>. HIDE DEF z, y
    <3>3. USER_STACK_TOP - y = z - f
      BY <3>1, <3>2
    <3>. QED BY <3>3 DEF z, y
  <2>. QED BY <1>3, <2>1, <2>2, <2>5, <2>6
<1>14. PushedInv'
  <2>1. /\ stack_size' \in StackSizes /\ DOMAIN ptr' = S!Vectors
        /\ phase' \notin {"argv", "envp", "table"}
    BY <1>1, <1>3 DEF ArgsInv, PushedInv, S!Pushing
  <2>2. sp' \in Int /\ S!stack_page' <= sp' /\ sp' <= USER_STACK_TOP
    <3>1. sp' \in Int /\ lo' <= sp' /\ sp' <= USER_STACK_TOP
      BY <1>2, <1>3, <1>4
    <3>. QED BY <3>1 DEF lo
  <2>3. \A w \in S!Vectors : \A j \in 1 .. Len(passed'[w]) : (Placed(w, j))' =>
          /\ sp' <= ptr'[w][j] /\ ptr'[w][j] + passed'[w][j] <= USER_STACK_TOP
          /\ TextIn(stack', ptr'[w][j] - 1, w, j, passed'[w][j])
    BY <1>3, <1>11
  <2>. QED BY <1>8, <1>13, <2>1, <2>2, <2>3 DEF PushedInv
<1>. QED BY <1>1, <1>3, <1>12, <1>14 DEF ArgsInv, S!ArgsDelivered, S!NeverTooBigLate, S!Pushing

(* A string has no room only when the limits leave too little.              *)
LEMMA ArgsNoRoom ==
    ASSUME ArgsInv, NEW v \in S!Vectors, S!NoRoomForString(v)
    PROVE  ArgsInv'
<1>1. phase = S!Pushing(v) /\ left > 0
      /\ ~S!Room(S!strlen(data, offsets[v][left]) + 1)
      /\ S!Fail("E2BIG late")
  BY DEF S!NoRoomForString
<1>. DEFINE n == passed[v][left]  f == offsets[v][left]
<1>2. /\ n \in Positive /\ f \in Nat /\ f + n <= Len(data)
      /\ USER_STACK_TOP - sp = Len(data) - (f + n)
      /\ S!strlen(data, f) + 1 = n
  BY <1>1, StringLeft
<1>. HIDE DEF n, f
<1>3. ~(n <= sp - S!stack_page)
  BY <1>1, <1>2 DEF S!Room, f
<1>4. /\ stack_size \in StackSizes /\ sp \in Int
      /\ S!stack_page \in Nat /\ USER_STACK_TOP - S!stack_page = stack_size
      /\ stack_size \in Nat
  BY StackPage DEF ArgsInv, PushedInv
<1>5. ASSUME S!LimitsFit PROVE FALSE
  <2>1. EXEC_MAX_VECTOR_BYTES + 0 * WORD_SIZE <= stack_size
    BY <1>4, <1>5, LimitsMean, StackConstants
  <2>2. Len(data) \in Nat /\ Len(data) <= EXEC_MAX_VECTOR_BYTES
    BY CopiedTypes DEF ArgsInv
  <2>. QED BY <1>2, <1>3, <1>4, <2>1, <2>2, StackConstants DEF Positive
<1>. QED BY <1>1, <1>5, ArgsFail

(* The entries of p and behind them those of q.                             *)
Behind(r, p, q) ==
    /\ r \in Seq(Int) /\ Len(r) = Len(p) + Len(q)
    /\ \A i \in 1 .. Len(p) : r[i] = p[i]
    /\ \A i \in 1 .. Len(q) : r[Len(p) + i] = q[i]

(* Concatenation in these terms.                                            *)
LEMMA BehindFacts ==
    ASSUME NEW p \in Seq(Int), NEW q \in Seq(Int), NEW r, r = p \o q
    PROVE  Behind(r, p, q)
<1>1. /\ p \o q \in Seq(Int) /\ Len(p \o q) = Len(p) + Len(q)
      /\ Len(p) \in Nat /\ Len(q) \in Nat
  BY ConcatProperties
<1>2. ASSUME NEW i \in 1 .. Len(p) PROVE (p \o q)[i] = p[i]
  <2>1. i \in 1 .. Len(p) + Len(q) /\ i <= Len(p)
    BY <1>1
  <2>. QED BY <2>1, ConcatProperties
<1>3. ASSUME NEW i \in 1 .. Len(q) PROVE (p \o q)[Len(p) + i] = q[i]
  <2>. DEFINE x == Len(p) + i
  <2>1. x \in 1 .. Len(p) + Len(q) /\ ~(x <= Len(p)) /\ x - Len(p) = i
    BY <1>1
  <2>. HIDE DEF x
  <2>2. (p \o q)[x] = q[x - Len(p)]
    BY <2>1, ConcatProperties
  <2>. QED BY <2>1, <2>2 DEF x
<1>. QED BY <1>1, <1>2, <1>3 DEF Behind

(* The words of a table.                                                    *)
TableOf(n, p, q) == <<n>> \o p \o <<0>> \o q \o <<0>>

(* What a program reads in such a table.                                    *)
TableHas(t, n, p, q, a, b) ==
    /\ t \in Seq(Int) /\ Len(t) = a + b + 3
    /\ t[1] = n /\ t[a + 2] = 0 /\ t[a + b + 3] = 0
    /\ \A i \in 1 .. a : t[i + 1] = p[i]
    /\ \A i \in 1 .. b : t[a + 2 + i] = q[i]

(* The five parts of the table one after the other.                         *)
LEMMA TableWords ==
    ASSUME NEW n \in Int, NEW p \in Seq(Int), NEW q \in Seq(Int),
           NEW a \in Nat, a = Len(p), NEW b \in Nat, b = Len(q)
    PROVE  TableHas(TableOf(n, p, q), n, p, q, a, b)
<1>. DEFINE z == <<0>>  r == <<n>>
            s1 == r \o p  s2 == s1 \o z  s3 == s2 \o q  t == s3 \o z
<1>1. z \in Seq(Int) /\ Len(z) = 1 /\ z[1] = 0 /\ r \in Seq(Int) /\ Len(r) = 1 /\ r[1] = n
  OBVIOUS
<1>2. t = TableOf(n, p, q)
  BY DEF TableOf
<1>. HIDE DEF z, r
<1>3. Behind(s1, r, p)
  BY <1>1, BehindFacts
<1>. HIDE DEF s1
<1>4. s1 \in Seq(Int) /\ Len(s1) = a + 1
  BY <1>1, <1>3 DEF Behind
<1>5. Behind(s2, s1, z)
  BY <1>1, <1>4, BehindFacts
<1>. HIDE DEF s2
<1>6. s2 \in Seq(Int) /\ Len(s2) = a + 2
  BY <1>1, <1>4, <1>5 DEF Behind
<1>7. Behind(s3, s2, q)
  BY <1>6, BehindFacts
<1>. HIDE DEF s3
<1>8. s3 \in Seq(Int) /\ Len(s3) = a + b + 2
  BY <1>6, <1>7 DEF Behind
<1>9. Behind(t, s3, z)
  BY <1>1, <1>8, BehindFacts
<1>. HIDE DEF t
<1>10. t \in Seq(Int) /\ Len(t) = a + b + 3
  BY <1>1, <1>8, <1>9 DEF Behind
<1>11. \A j \in 1 .. a + 1 : t[j] = s1[j]
  <2>1. \A j \in 1 .. a + 1 : s2[j] = s1[j]
    BY <1>4, <1>5 DEF Behind
  <2>2. \A j \in 1 .. a + 2 : s3[j] = s2[j]
    BY <1>6, <1>7 DEF Behind
  <2>3. \A j \in 1 .. a + b + 2 : t[j] = s3[j]
    BY <1>8, <1>9 DEF Behind
  <2>. SUFFICES ASSUME NEW j \in 1 .. a + 1 PROVE t[j] = s1[j]
    OBVIOUS
  <2>4. j \in 1 .. a + 2 /\ j \in 1 .. a + b + 2
    OBVIOUS
  <2>. QED BY <2>1, <2>2, <2>3, <2>4
<1>12. t[1] = n
  <2>1. s1[1] = n
    BY <1>1, <1>3 DEF Behind
  <2>. QED BY <1>11, <2>1
<1>13. \A i \in 1 .. a : t[i + 1] = p[i]
  <2>. SUFFICES ASSUME NEW i \in 1 .. a PROVE t[i + 1] = p[i]
    OBVIOUS
  <2>1. s1[Len(r) + i] = p[i]
    BY <1>3 DEF Behind
  <2>2. Len(r) + i = i + 1 /\ i + 1 \in 1 .. a + 1
    BY <1>1
  <2>. QED BY <1>11, <2>1, <2>2
<1>14. t[a + 2] = 0
  <2>1. s2[a + 2] = 0
    <3>1. s2[Len(s1) + 1] = z[1]
      BY <1>1, <1>5 DEF Behind
    <3>2. Len(s1) + 1 = a + 2
      BY <1>4
    <3>. QED BY <1>1, <3>1, <3>2
  <2>2. s3[a + 2] = s2[a + 2]
    BY <1>6, <1>7 DEF Behind
  <2>3. t[a + 2] = s3[a + 2]
    BY <1>8, <1>9 DEF Behind
  <2>. QED BY <2>1, <2>2, <2>3
<1>15. \A i \in 1 .. b : t[a + 2 + i] = q[i]
  <2>. SUFFICES ASSUME NEW i \in 1 .. b PROVE t[a + 2 + i] = q[i]
    OBVIOUS
  <2>1. s3[Len(s2) + i] = q[i]
    BY <1>7 DEF Behind
  <2>2. Len(s2) + i = a + 2 + i /\ a + 2 + i \in 1 .. a + b + 2
    BY <1>6
  <2>3. \A j \in 1 .. a + b + 2 : t[j] = s3[j]
    BY <1>8, <1>9 DEF Behind
  <2>. QED BY <2>1, <2>2, <2>3
<1>16. t[a + b + 3] = 0
  <2>1. t[Len(s3) + 1] = z[1]
    BY <1>1, <1>9 DEF Behind
  <2>2. Len(s3) + 1 = a + b + 3
    BY <1>8
  <2>. QED BY <1>1, <2>1, <2>2
<1>17. TableHas(t, n, p, q, a, b)
  BY <1>10, <1>12, <1>13, <1>14, <1>15, <1>16 DEF TableHas
<1>. QED BY <1>2, <1>17

(* The k-th word from address at on.                                        *)
WordIn(st, x, k) == st[x + k * WORD_SIZE]

(* The words of t lie at x.                                                 *)
HasWords(st, x, t) == \A k \in 0 .. Len(t) - 1 : WordIn(st, x, k) = t[k + 1]

(* The stack st from lo on with the words of t at the address at.           *)
WithTable(st, lo, x, t) ==
    [a \in lo .. USER_STACK_TOP - 1 |->
        IF a - x \notin 0 .. (Len(t) * WORD_SIZE) - 1 THEN st[a]
        ELSE IF (a - x) % WORD_SIZE = 0 THEN t[((a - x) \div WORD_SIZE) + 1]
        ELSE -1]

(* The words arrive, and what lies above them stays.                        *)
LEMMA PutWords ==
    ASSUME NEW st, NEW lo \in Nat, NEW x \in Nat, lo <= x, NEW t \in Seq(Int),
           NEW s \in Nat, s <= USER_STACK_TOP, x + Len(t) * WORD_SIZE <= s
    PROVE  /\ HasWords(WithTable(st, lo, x, t), x, t)
           /\ \A a \in s .. USER_STACK_TOP - 1 : WithTable(st, lo, x, t)[a] = st[a]
<1>. DEFINE w == WORD_SIZE  n == Len(t)  new == WithTable(st, lo, x, t)
<1>0. w \in Nat /\ w > 0 /\ n \in Nat /\ USER_STACK_TOP \in Nat
  BY StackConstants
<1>1. x + n * w <= s
  OBVIOUS
<1>. HIDE DEF w, n
<1>2. n * w \in Nat
  BY <1>0
<1>3. ASSUME NEW k \in 0 .. n - 1 PROVE WordIn(new, x, k) = t[k + 1]
  <2>. DEFINE o == k * w
  <2>1. PICK d \in Nat : n = k + 1 + d
    <3>1. n - k - 1 \in Nat /\ n = k + 1 + (n - k - 1)
      BY <1>0
    <3>. QED BY <3>1
  <2>2. k \in Nat /\ n * w = k * w + w + d * w /\ d * w \in Nat /\ o \in Nat
    BY <1>0, <2>1
  <2>3. o \in 0 .. n * w - 1
    BY <1>0, <2>2
  <2>4. o % w = 0 /\ o \div w = k
    BY <1>0, <2>2
  <2>. HIDE DEF o
  <2>. DEFINE a == x + o
  <2>5. a \in lo .. USER_STACK_TOP - 1 /\ a - x = o
    BY <1>0, <1>1, <1>2, <2>3
  <2>6. new[a] = IF a - x \notin 0 .. (n * w) - 1 THEN st[a]
                 ELSE IF (a - x) % w = 0 THEN t[((a - x) \div w) + 1] ELSE -1
    BY <2>5 DEF WithTable, w, n
  <2>. HIDE DEF a
  <2>7. new[a] = t[k + 1]
    BY <2>3, <2>4, <2>5, <2>6
  <2>. QED BY <2>7 DEF WordIn, a, o, w
<1>4. ASSUME NEW a \in s .. USER_STACK_TOP - 1 PROVE new[a] = st[a]
  <2>1. a \in lo .. USER_STACK_TOP - 1 /\ a - x \notin 0 .. (n * w) - 1
    BY <1>0, <1>1, <1>2
  <2>. QED BY <2>1 DEF WithTable, w, n
<1>. QED BY <1>3, <1>4 DEF n, HasWords

(* Aligning goes down, to a multiple.                                       *)
LEMMA AlignFacts ==
    ASSUME NEW x \in Nat
    PROVE  /\ S!AlignDown(x) \in Nat /\ S!AlignDown(x) <= x
           /\ S!AlignDown(x) % STACK_ALIGN = 0
<1>. DEFINE p == STACK_ALIGN  k == x \div p
<1>1. p \in Nat /\ p > 0
  BY StackConstants
<1>2. S!AlignDown(x) = k * p
  BY DEF S!AlignDown
<1>. HIDE DEF p
<1>3. k \in Nat /\ k * p <= x
  BY <1>1
<1>. HIDE DEF k
<1>4. k * p \in Nat /\ (k * p) % p = 0
  BY <1>1, <1>3
<1>. QED BY <1>2, <1>3, <1>4 DEF p

(* The table of the arguments that were copied.                             *)
LEMMA TableFacts ==
    ASSUME ArgsInv, NEW a \in Nat, a = Len(passed["argv"]), NEW b \in Nat, b = Len(passed["envp"])
    PROVE  /\ S!Table \in Seq(Int) /\ Len(S!Table) = a + b + 3
           /\ S!Table[1] = a /\ S!Table[a + 2] = 0 /\ S!Table[a + b + 3] = 0
           /\ \A i \in 1 .. a : S!Table[i + 1] = ptr["argv"][i]
           /\ \A i \in 1 .. b : S!Table[a + 2 + i] = ptr["envp"][i]
<1>1. /\ a <= EXEC_MAX_ARGS /\ b <= EXEC_MAX_ENVS
      /\ ptr["argv"] \in [1 .. EXEC_MAX_ARGS -> Int]
      /\ ptr["envp"] \in [1 .. EXEC_MAX_ENVS -> Int]
  BY LimitFacts, CopiedTypes DEF ArgsInv, PushedInv, S!Vectors
<1>. DEFINE p == SubSeq(ptr["argv"], 1, a)  q == SubSeq(ptr["envp"], 1, b)  t == S!Table
            f == ptr["argv"]  g == ptr["envp"]
<1>. HIDE DEF f, g
<1>2. /\ SubSeq(f, 1, a) \in Seq(Int) /\ Len(SubSeq(f, 1, a)) = a
      /\ \A i \in 1 .. a : SubSeq(f, 1, a)[i] = f[i]
  <2>1. \A i \in 1 .. a : f[i] \in Int
    BY <1>1, StackConstants DEF f
  <2>. QED BY <2>1, SubSeqProperties
<1>3. /\ SubSeq(g, 1, b) \in Seq(Int) /\ Len(SubSeq(g, 1, b)) = b
      /\ \A i \in 1 .. b : SubSeq(g, 1, b)[i] = g[i]
  <2>1. \A i \in 1 .. b : g[i] \in Int
    BY <1>1, StackConstants DEF g
  <2>. QED BY <2>1, SubSeqProperties
<1>4. t = TableOf(a, p, q)
  BY DEF S!Table, TableOf
<1>5. /\ p \in Seq(Int) /\ Len(p) = a /\ \A i \in 1 .. a : p[i] = ptr["argv"][i]
      /\ q \in Seq(Int) /\ Len(q) = b /\ \A i \in 1 .. b : q[i] = ptr["envp"][i]
  BY <1>2, <1>3 DEF f, g
<1>. HIDE DEF p, q, t
<1>6. TableHas(t, a, p, q, a, b)
  BY <1>4, <1>5, TableWords
<1>7. /\ t \in Seq(Int) /\ Len(t) = a + b + 3
      /\ t[1] = a /\ t[a + 2] = 0 /\ t[a + b + 3] = 0
      /\ \A i \in 1 .. a : t[i + 1] = p[i]
      /\ \A i \in 1 .. b : t[a + 2 + i] = q[i]
  BY <1>6, Zenon DEF TableHas
<1>. QED BY <1>5, <1>7 DEF t

(* The table lies below all strings, so each of its pointers leads to its   *)
(* string in the stack that is left.                                        *)
LEMMA ArgsTable ==
    ASSUME ArgsInv, S!PutTable
    PROVE  ArgsInv'
<1>0. PICK a \in Nat, b \in Nat : a = Len(passed["argv"]) /\ b = Len(passed["envp"])
  BY CopiedTypes DEF ArgsInv, S!Vectors
<1>. DEFINE t == S!Table  lo == S!stack_page  n == S!table_bytes  x == S!AlignDown(sp - n)
<1>1. /\ phase = "table" /\ n <= sp - lo /\ x >= lo
      /\ stack' = [y \in S!Stack |->
            IF y - x \notin 0 .. n - 1 THEN stack[y]
            ELSE IF (y - x) % WORD_SIZE = 0 THEN t[(y - x) \div WORD_SIZE + 1]
            ELSE -1]
      /\ sp' = x /\ phase' = "built"
      /\ UNCHANGED <<stack_size, passed, offsets, data, ptr, left>>
  BY DEF S!PutTable, S!Room, S!WordTail
<1>2. /\ t \in Seq(Int) /\ Len(t) = a + b + 3
      /\ t[1] = a /\ t[a + 2] = 0 /\ t[a + b + 3] = 0
      /\ \A i \in 1 .. a : t[i + 1] = ptr["argv"][i]
      /\ \A i \in 1 .. b : t[a + 2 + i] = ptr["envp"][i]
  BY <1>0, TableFacts
<1>3. /\ lo \in Nat /\ lo < USER_STACK_TOP /\ USER_STACK_TOP \in Nat
      /\ sp \in Nat /\ lo <= sp /\ sp <= USER_STACK_TOP
  <2>1. stack_size \in StackSizes /\ sp \in Int /\ S!stack_page <= sp /\ sp <= USER_STACK_TOP
    BY DEF ArgsInv, PushedInv
  <2>2. lo \in Nat /\ lo < USER_STACK_TOP /\ lo <= sp
    BY <2>1, StackPage
  <2>. HIDE DEF lo
  <2>. QED BY <2>1, <2>2, StackConstants
<1>4. n = Len(t) * WORD_SIZE
  BY DEF S!table_bytes
<1>5. stack' = WithTable(stack, lo, x, t)
  BY <1>1, <1>4 DEF S!Stack, WithTable
<1>6. lo' = lo /\ n' = n
  BY <1>1 DEF S!stack_page, S!table_bytes, S!Table
<1>7. n \in Nat
  BY <1>2, <1>4, StackConstants
<1>. HIDE DEF t, lo, n
<1>8. x \in Nat /\ x <= sp - n /\ x % STACK_ALIGN = 0
  <2>. DEFINE y == sp - n
  <2>1. y \in Nat
    BY <1>1, <1>3, <1>7
  <2>. HIDE DEF y
  <2>2. S!AlignDown(y) \in Nat /\ S!AlignDown(y) <= y /\ S!AlignDown(y) % STACK_ALIGN = 0
    BY <2>1, AlignFacts
  <2>. QED BY <2>2 DEF y
<1>. HIDE DEF x
<1>9. /\ \A k \in 0 .. Len(t) - 1 : WordIn(stack', x, k) = t[k + 1]
      /\ \A y \in sp .. USER_STACK_TOP - 1 : stack'[y] = stack[y]
  <2>1. lo <= x /\ x + Len(t) * WORD_SIZE <= sp
    BY <1>1, <1>3, <1>4, <1>7, <1>8
  <2>2. /\ HasWords(WithTable(stack, lo, x, t), x, t)
        /\ \A y \in sp .. USER_STACK_TOP - 1 : WithTable(stack, lo, x, t)[y] = stack[y]
    <3>. DEFINE s == sp
    <3>1. /\ lo \in Nat /\ x \in Nat /\ lo <= x /\ t \in Seq(Int) /\ s \in Nat
          /\ s <= USER_STACK_TOP /\ x + Len(t) * WORD_SIZE <= s
      BY <1>2, <1>3, <1>8, <2>1
    <3>. HIDE DEF s
    <3>2. HasWords(WithTable(stack, lo, x, t), x, t)
      BY <3>1, PutWords
    <3>3. \A y \in s .. USER_STACK_TOP - 1 : WithTable(stack, lo, x, t)[y] = stack[y]
      BY <3>1, PutWords
    <3>. QED BY <3>2, <3>3 DEF s
  <2>. QED BY <1>5, <2>2 DEF HasWords
<1>10. \A k \in Nat : (S!WordAt(k))' = WordIn(stack', x, k)
  BY <1>1 DEF S!WordAt, WordIn
<1>11. ASSUME NEW v \in S!Vectors, NEW j \in 1 .. Len(passed[v])
       PROVE  /\ sp' <= ptr[v][j] /\ ptr[v][j] + passed[v][j] <= USER_STACK_TOP
              /\ ptr[v][j] \in Int
              /\ TextIn(stack', ptr[v][j] - 1, v, j, passed[v][j])
  <2>. DEFINE p == ptr[v][j]  m == passed[v][j]
  <2>1. Placed(v, j)
    BY <1>1 DEF Placed
  <2>2. sp <= p /\ p + m <= USER_STACK_TOP /\ TextIn(stack, p - 1, v, j, m)
    BY <2>1 DEF ArgsInv, PushedInv
  <2>3. m \in Nat /\ p \in Int
    <3>1. /\ Len(passed[v]) \in Nat /\ Len(passed[v]) <= S!Limit[v] /\ m \in Nat
      BY CopiedTypes DEF ArgsInv
    <3>2. S!Limit[v] \in Nat /\ ptr[v] \in [1 .. S!Limit[v] -> Int]
      BY LimitFacts DEF ArgsInv, PushedInv
    <3>3. j \in 1 .. S!Limit[v]
      BY <3>1, <3>2
    <3>. QED BY <3>1, <3>2, <3>3
  <2>. DEFINE new == stack'
  <2>4. \A y \in sp .. USER_STACK_TOP - 1 : new[y] = stack[y]
    BY <1>9
  <2>. HIDE DEF p, m, new
  <2>5. TextIn(new, p - 1, v, j, m)
    <3>1. sp \in Int
      BY <1>3
    <3>. QED BY <2>2, <2>3, <2>4, <3>1, TextStays, Zenon
  <2>6. sp' <= p
    BY <1>1, <1>3, <1>7, <1>8, <2>2, <2>3
  <2>. QED BY <2>2, <2>3, <2>5, <2>6 DEF p, m, new
<1>12. ASSUME NEW v \in S!Vectors, NEW j \in 1 .. Len(passed[v]), NEW h \in Nat,
              WordIn(stack', x, h) = ptr[v][j], NEW k \in 1 .. passed[v][j]
       PROVE  stack'[(S!WordAt(h))' + k - 1] = S!Text(v, j, passed[v][j])[k]
  <2>. DEFINE p == ptr[v][j]
  <2>1. p \in Int /\ TextIn(stack', p - 1, v, j, passed[v][j])
    BY <1>11
  <2>2. (S!WordAt(h))' = p
    BY <1>10, <1>12
  <2>. HIDE DEF p
  <2>3. p + k - 1 = p - 1 + k
    BY <2>1
  <2>4. stack'[p - 1 + k] = S!Text(v, j, passed[v][j])[k]
    BY <2>1 DEF TextIn
  <2>. QED BY <2>2, <2>3, <2>4
<1>13. (S!WordAt(0))' = a /\ (\A h \in {a + 1, a + b + 2} : WordIn(stack', x, h) = 0)
  <2>1. 0 \in 0 .. Len(t) - 1 /\ a + 1 \in 0 .. Len(t) - 1 /\ a + b + 2 \in 0 .. Len(t) - 1
    BY <1>2
  <2>2. WordIn(stack', x, 0) = t[0 + 1] /\ WordIn(stack', x, a + 1) = t[a + 1 + 1]
        /\ WordIn(stack', x, a + b + 2) = t[a + b + 2 + 1]
    BY <1>9, <2>1
  <2>3. 0 + 1 = 1 /\ a + 1 + 1 = a + 2 /\ a + b + 2 + 1 = a + b + 3
    OBVIOUS
  <2>. QED BY <1>2, <1>10, <2>2, <2>3
<1>14. ASSUME NEW j \in 1 .. a PROVE WordIn(stack', x, 1 + j - 1) = ptr["argv"][j]
  <2>. DEFINE h == 1 + j - 1
  <2>1. h \in 0 .. Len(t) - 1 /\ h + 1 = j + 1
    BY <1>2
  <2>. HIDE DEF h
  <2>2. WordIn(stack', x, h) = t[h + 1]
    BY <1>9, <2>1
  <2>. QED BY <1>2, <2>1, <2>2 DEF h
<1>15. ASSUME NEW j \in 1 .. b PROVE WordIn(stack', x, a + 2 + j - 1) = ptr["envp"][j]
  <2>. DEFINE h == a + 2 + j - 1
  <2>1. h \in 0 .. Len(t) - 1 /\ h + 1 = a + 2 + j
    <3>1. Len(t) = a + b + 3
      BY <1>2
    <3>2. h \in 0 .. a + b + 3 - 1 /\ h + 1 = a + 2 + j
      OBVIOUS
    <3>. HIDE DEF h
    <3>. QED BY <3>1, <3>2
  <2>. HIDE DEF h
  <2>2. WordIn(stack', x, h) = t[h + 1]
    BY <1>9, <2>1
  <2>. QED BY <1>2, <2>1, <2>2 DEF h
<1>16. (S!StringsAt("argv", 1))'
  <2>1. ASSUME NEW j \in 1 .. a, NEW k \in 1 .. passed["argv"][j]
        PROVE  stack'[(S!WordAt(1 + j - 1))' + k - 1] = S!Text("argv", j, passed["argv"][j])[k]
    <3>1. 1 + j - 1 \in Nat /\ "argv" \in S!Vectors
      BY DEF S!Vectors
    <3>. QED BY <1>0, <1>12, <1>14, <3>1
  <2>. QED BY <1>0, <1>1, <2>1 DEF S!StringsAt, S!WordAt
<1>17. (S!StringsAt("envp", a + 2))'
  <2>1. ASSUME NEW j \in 1 .. b, NEW k \in 1 .. passed["envp"][j]
        PROVE  stack'[(S!WordAt(a + 2 + j - 1))' + k - 1] = S!Text("envp", j, passed["envp"][j])[k]
    <3>1. a + 2 + j - 1 \in Nat /\ "envp" \in S!Vectors
      BY DEF S!Vectors
    <3>. QED BY <1>0, <1>12, <1>15, <3>1
  <2>2. passed' = passed /\ Len(passed["envp"]) = b
    BY <1>0, <1>1
  <2>. QED BY <2>1, <2>2, Zenon DEF S!StringsAt
<1>18. (S!WordAt(a + 1))' = 0 /\ (S!WordAt(a + b + 2))' = 0
  BY <1>10, <1>13
<1>19. sp' + n' <= USER_STACK_TOP /\ sp' % STACK_ALIGN = 0
  BY <1>1, <1>3, <1>6, <1>7, <1>8
<1>20. S!ArgsDelivered'
  <2>1. Len(passed'["argv"]) = a /\ Len(passed'["envp"]) = b
    BY <1>0, <1>1
  <2>. QED BY <1>13, <1>16, <1>17, <1>18, <1>19, <2>1 DEF S!ArgsDelivered, S!WordAt, S!StringsAt, n
<1>21. CopiedInv'
  <2>1. Len(data) = EndOf("envp", Len(passed["envp"]))
    BY <1>1 DEF ArgsInv, CopiedInv
  <2>. QED BY <1>1, <2>1, CopiedKept DEF ArgsInv
<1>22. PushedInv'
  <2>1. stack_size' \in StackSizes /\ DOMAIN ptr' = S!Vectors
        /\ \A v \in S!Vectors : ptr'[v] \in [1 .. S!Limit[v] -> Int]
    BY <1>1 DEF ArgsInv, PushedInv
  <2>2. sp' \in Int /\ lo' <= sp' /\ sp' <= USER_STACK_TOP
    BY <1>1, <1>3, <1>6, <1>7, <1>8
  <2>3. \A v \in S!Vectors : phase' # S!Pushing(v)
    BY <1>1 DEF S!Pushing
  <2>. QED BY <1>1, <1>11, <2>1, <2>2, <2>3 DEF PushedInv, lo
<1>. QED BY <1>1, <1>20, <1>21, <1>22 DEF ArgsInv, S!NeverTooBigLate

(* Nor has the table, below all strings.                                    *)
LEMMA ArgsNoTable ==
    ASSUME ArgsInv, S!NoRoomForTable
    PROVE  ArgsInv'
<1>0. PICK a \in Nat, b \in Nat : a = Len(passed["argv"]) /\ b = Len(passed["envp"])
  BY CopiedTypes DEF ArgsInv, S!Vectors
<1>. DEFINE k == a + b + 3
<1>1. phase = "table" /\ ~S!Room(S!table_bytes) /\ S!Fail("E2BIG late")
  BY DEF S!NoRoomForTable
<1>2. S!table_bytes = k * WORD_SIZE
  BY <1>0, TableFacts DEF S!table_bytes
<1>3. /\ stack_size \in StackSizes /\ sp \in Int
      /\ S!stack_page \in Nat /\ USER_STACK_TOP - S!stack_page = stack_size
      /\ stack_size \in Nat
  BY StackPage DEF ArgsInv, PushedInv
<1>4. USER_STACK_TOP - sp = Len(data)
  BY <1>1 DEF ArgsInv, PushedInv
<1>5. Len(data) \in Nat /\ Len(data) <= EXEC_MAX_VECTOR_BYTES
  BY CopiedTypes DEF ArgsInv, S!Vectors
<1>6. k \in Nat /\ k <= EXEC_MAX_ARGS + EXEC_MAX_ENVS + 3
  <2>1. a <= EXEC_MAX_ARGS /\ b <= EXEC_MAX_ENVS
    BY <1>0, LimitFacts, CopiedTypes DEF ArgsInv, S!Vectors
  <2>. QED BY <2>1, StackConstants
<1>. HIDE DEF k
<1>7. ASSUME S!LimitsFit PROVE FALSE
  <2>. DEFINE m == k * WORD_SIZE  z == Len(data)
  <2>1. EXEC_MAX_VECTOR_BYTES + m <= stack_size /\ m \in Nat
    BY <1>3, <1>6, <1>7, LimitsMean
  <2>2. ~(m <= sp - S!stack_page)
    BY <1>1, <1>2 DEF S!Room
  <2>3. USER_STACK_TOP - sp = z /\ z \in Nat /\ z <= EXEC_MAX_VECTOR_BYTES
    BY <1>4, <1>5
  <2>. HIDE DEF m, z
  <2>. QED BY <1>3, <2>1, <2>2, <2>3, StackConstants
<1>. QED BY <1>1, <1>7, ArgsFail

(* Nothing is copied or pushed yet.                                         *)
LEMMA ArgsInit == S!Init => ArgsInv
<1>. SUFFICES ASSUME S!Init PROVE ArgsInv
  OBVIOUS
<1>1. /\ stack_size \in StackSizes /\ phase = "argv" /\ sp = USER_STACK_TOP /\ data = <<>>
      /\ passed = [v \in S!Vectors |-> <<>>] /\ offsets = [v \in S!Vectors |-> <<>>]
      /\ ptr = [v \in S!Vectors |-> [i \in 1 .. S!Limit[v] |-> 0]]
  BY DEF S!Init
<1>2. \A v \in S!Vectors : passed[v] = <<>> /\ offsets[v] = <<>>
  BY <1>1
<1>3. CopiedInv
  <2>1. passed["argv"] = <<>> /\ passed["envp"] = <<>>
    BY <1>2 DEF S!Vectors
  <2>2. <<>> \in Seq(Positive) /\ <<>> \in Seq(Nat) /\ <<>> \in Seq(Int) /\ Len(<<>>) = 0
    OBVIOUS
  <2>3. \A v \in S!Vectors : Len(offsets[v]) = Len(passed[v]) /\ Len(passed[v]) <= S!Limit[v]
    BY <1>2, LimitFacts
  <2>4. \A v \in S!Vectors : \A i \in 1 .. Len(passed[v]) : FALSE
    BY <1>2
  <2>5. passed \in [S!Vectors -> Seq(Positive)] /\ offsets \in [S!Vectors -> Seq(Nat)]
    BY <1>1, <2>2
  <2>6. Len(data) = ArgvEnd(Len(passed["argv"]))
    BY <1>1, <2>1 DEF ArgvEnd
  <2>7. data \in Seq(Int) /\ Len(data) <= EXEC_MAX_VECTOR_BYTES
    BY <1>1, StackConstants
  <2>. QED BY <1>1, <2>1, <2>3, <2>4, <2>5, <2>6, <2>7 DEF CopiedInv
<1>4. PushedInv
  <2>1. \A v \in S!Vectors : \A i \in 1 .. Len(passed[v]) : FALSE
    BY <1>2
  <2>2. DOMAIN ptr = S!Vectors /\ \A v \in S!Vectors : ptr[v] \in [1 .. S!Limit[v] -> Int]
    BY <1>1
  <2>3. sp \in Int /\ S!stack_page <= sp /\ sp <= USER_STACK_TOP
    BY <1>1, StackPage, StackConstants
  <2>. QED BY <1>1, <2>1, <2>2, <2>3 DEF PushedInv, S!Pushing
<1>. QED BY <1>1, <1>3, <1>4 DEF ArgsInv, S!ArgsDelivered, S!NeverTooBigLate

(* The invariant depends on these variables only.                           *)
LEMMA ArgsUnchanged ==
    ASSUME ArgsInv, UNCHANGED S!vars
    PROVE  ArgsInv'
<1>1. UNCHANGED <<stack_size, phase, passed, offsets, data, ptr, sp, left, stack>>
  BY DEF S!vars
<1>2. CopiedInv'
  <2>1. phase \in {"envp", "push envp", "push argv", "table", "built"} =>
            Len(data) = EndOf("envp", Len(passed["envp"]))
    BY DEF ArgsInv, CopiedInv
  <2>. QED BY <1>1, <2>1, CopiedKept DEF ArgsInv
<1>3. PushedInv'
  <2>1. \A v \in S!Vectors : (EndOf(v, left))' = EndOf(v, left)
    BY <1>1 DEF EndOf, ArgvEnd
  <2>2. \A v \in S!Vectors : \A i \in 1 .. Len(passed[v]) : (Placed(v, i))' <=> Placed(v, i)
    BY <1>1 DEF Placed
  <2>. QED BY <1>1, <2>1, <2>2 DEF ArgsInv, PushedInv, S!stack_page
<1>. QED BY <1>1, <1>2, <1>3
         DEF ArgsInv, S!ArgsDelivered, S!NeverTooBigLate, S!LimitsFit,
             S!StringsAt, S!WordAt, S!table_bytes, S!Table

(* Every step of exec keeps the invariant.                                  *)
LEMMA ArgsNext ==
    ASSUME ArgsInv, S!Next
    PROVE  ArgsInv'
<1>1. ASSUME NEW v \in S!Vectors, NEW n \in Lengths, S!TooBig(v, n)
      PROVE  ArgsInv'
  BY <1>1, ArgsFail DEF S!TooBig
<1>2. ASSUME NEW v \in S!Vectors, S!Unreadable(v)
      PROVE  ArgsInv'
  BY <1>2, ArgsFail DEF S!Unreadable
<1>3. CASE S!Done
  <2>1. UNCHANGED S!vars
    BY <1>3 DEF S!Done
  <2>. QED BY <2>1, ArgsUnchanged
<1>. QED BY <1>1, <1>2, <1>3, ArgsCopy, ArgsEndOfVector, ArgsPush, ArgsNoRoom, ArgsPushed,
         ArgsTable, ArgsNoTable DEF S!Next

(* The arguments of exec keep their invariant.                              *)
LEMMA ArgsInvariant == Spec => [](Idle("stack") \/ ArgsInv)
<1>. DEFINE Inv == Idle("stack") \/ ArgsInv
<1>1. Init => Inv
  BY ArgsInit DEF Init
<1>2. Inv /\ [Next]_vars => Inv'
  <2>. SUFFICES ASSUME Inv, [Next]_vars PROVE Inv'
    OBVIOUS
  <2>1. CASE UNCHANGED args
    <3>1. ArgsInv => ArgsInv'
      BY <2>1, ArgsUnchanged DEF args, S!vars
    <3>2. UNCHANGED part
      BY DEF Next, vars
    <3>. QED BY <3>1, <3>2 DEF Idle
  <2>2. CASE part = "stack" /\ S!Next
    BY <2>2, ArgsNext DEF Idle
  <2>. QED BY <2>1, <2>2 DEF Next, vars
<1>. QED BY <1>1, <1>2, PTL DEF Spec

(* The new program finds its arguments whole behind the pointers it is      *)
(* given, and arguments that exec accepted never fail after the old image   *)
(* is gone if the limits fit the stack.                                     *)
THEOREM ArgumentsArrive == Spec => []ArgsSound
<1>1. Idle("stack") \/ ArgsInv => ArgsSound
  BY DEF ArgsInv, ArgsSound
<1>. QED BY <1>1, ArgsInvariant, PTL

(* What the strings and the pointers are, besides the invariant.            *)
ArgsTypes ==
    /\ \A v \in S!Vectors : /\ passed[v] \in Seq(Lengths)
                          /\ ptr[v] \in [1 .. S!Limit[v] -> S!Stack \cup {0}]
    /\ left \in 0 .. EXEC_MAX_ARGS + EXEC_MAX_ENVS
    /\ DOMAIN stack = S!Stack

(* With the invariant this is the type.                                     *)
LEMMA ArgsTypesSound ==
    ASSUME ArgsInv, ArgsTypes
    PROVE  S!TypeOK
<1>1. sp \in S!Stack \cup {USER_STACK_TOP} /\ stack_size \in StackSizes
  <2>1. stack_size \in StackSizes /\ sp \in Int /\ S!stack_page <= sp /\ sp <= USER_STACK_TOP
    BY DEF ArgsInv, PushedInv
  <2>2. S!stack_page \in Nat /\ USER_STACK_TOP \in Nat
    BY <2>1, StackPage, StackConstants
  <2>. QED BY <2>1, <2>2 DEF S!Stack
<1>2. \A v \in S!Vectors : Len(passed[v]) <= S!Limit[v] /\ Len(offsets[v]) = Len(passed[v])
  BY DEF ArgsInv, CopiedInv
<1>3. Len(data) <= EXEC_MAX_VECTOR_BYTES
  BY DEF ArgsInv, CopiedInv
<1>4. phase \in S!Vectors \cup {"push envp", "push argv", "table", "built",
                             "E2BIG", "E2BIG late", "EFAULT"}
  BY DEF ArgsInv, S!Vectors
<1>. QED BY <1>1, <1>2, <1>3, <1>4 DEF S!TypeOK, ArgsTypes

(* A vector has no more strings than are pushed of both at most.            *)
LEMMA VectorFits ==
    ASSUME ArgsInv, NEW v \in S!Vectors
    PROVE  Len(passed[v]) \in 0 .. EXEC_MAX_ARGS + EXEC_MAX_ENVS
<1>1. Len(passed[v]) \in Nat /\ Len(passed[v]) <= S!Limit[v]
  BY CopiedTypes DEF ArgsInv
<1>2. S!Limit[v] \in {EXEC_MAX_ARGS, EXEC_MAX_ENVS}
  BY LimitFacts DEF S!Vectors
<1>. QED BY <1>1, <1>2, StackConstants

(* When the strings, the pointers and the stack page stay.                  *)
LEMMA ArgsTypesStay ==
    ASSUME ArgsTypes, UNCHANGED <<stack_size, passed, ptr, stack>>,
           left' \in 0 .. EXEC_MAX_ARGS + EXEC_MAX_ENVS
    PROVE  ArgsTypes'
BY DEF ArgsTypes, S!Stack, S!stack_page

(* The next string has a length that programs pass.                         *)
LEMMA ArgsTypesCopy ==
    ASSUME ArgsTypes, ArgsInv, NEW v \in S!Vectors, NEW n \in Lengths, S!CopyString(v, n)
    PROVE  ArgsTypes'
<1>1. /\ passed' = [passed EXCEPT ![v] = Append(@, n)]
      /\ UNCHANGED <<stack_size, ptr, left, stack>>
  BY DEF S!CopyString
<1>2. DOMAIN passed = S!Vectors
  BY DEF ArgsInv, CopiedInv
<1>3. \A w \in S!Vectors : passed'[w] \in Seq(Lengths)
  BY <1>1, <1>2 DEF ArgsTypes
<1>. QED BY <1>1, <1>3 DEF ArgsTypes, S!Stack, S!stack_page

(* A string that is pushed is not empty and fits, so its address lies in    *)
(* the stack page.                                                          *)
LEMMA ArgsTypesPush ==
    ASSUME ArgsTypes, ArgsInv, NEW v \in S!Vectors, S!PushString(v)
    PROVE  ArgsTypes'
<1>1. PICK l \in Nat : l = left /\ l > 0 /\ l \in 1 .. Len(passed[v])
  BY StringLeft DEF S!PushString
<1>2. PICK n \in Nat : n = passed[v][l] /\ n > 0 /\ S!strlen(data, offsets[v][l]) + 1 = n
  <2>1. passed[v][l] \in Positive /\ S!strlen(data, offsets[v][l]) + 1 = passed[v][l]
    BY <1>1, StringLeft DEF S!PushString
  <2>. QED BY <2>1 DEF Positive
<1>3. /\ n <= sp - S!stack_page /\ sp' = sp - n
      /\ DOMAIN stack' = S!Stack
      /\ ptr' = [ptr EXCEPT ![v][l] = sp']
      /\ left' = l - 1
      /\ UNCHANGED <<stack_size, passed>>
  <2>1. DOMAIN stack' = S!Stack
    BY DEF S!PushString
  <2>. QED BY <1>1, <1>2, <2>1 DEF S!PushString, S!Room
<1>4. /\ sp \in Int /\ sp <= USER_STACK_TOP /\ stack_size \in StackSizes
      /\ DOMAIN ptr = S!Vectors
  BY DEF ArgsInv, PushedInv
<1>5. sp' \in S!Stack
  <2>1. S!stack_page \in Nat /\ USER_STACK_TOP \in Nat
    BY <1>4, StackPage, StackConstants
  <2>. QED BY <1>2, <1>3, <1>4, <2>1 DEF S!Stack
<1>6. S!Stack' = S!Stack
  BY <1>3 DEF S!Stack, S!stack_page
<1>7. \A w \in S!Vectors : ptr'[w] \in [1 .. S!Limit[w] -> S!Stack \cup {0}]
  <2>. SUFFICES ASSUME NEW w \in S!Vectors
                PROVE  ptr'[w] \in [1 .. S!Limit[w] -> S!Stack \cup {0}]
    OBVIOUS
  <2>1. CASE w = v
    <3>1. ptr'[v] = [ptr[v] EXCEPT ![l] = sp']
      BY <1>3, <1>4
    <3>. QED BY <1>5, <2>1, <3>1 DEF ArgsTypes
  <2>2. CASE w # v
    <3>1. ptr'[w] = ptr[w]
      BY <1>3, <1>4, <2>2
    <3>. QED BY <3>1 DEF ArgsTypes
  <2>. QED BY <2>1, <2>2
<1>8. left' \in 0 .. EXEC_MAX_ARGS + EXEC_MAX_ENVS
  <2>1. left \in 0 .. EXEC_MAX_ARGS + EXEC_MAX_ENVS
    BY DEF ArgsTypes
  <2>. QED BY <1>1, <1>3, <2>1, StackConstants
<1>. QED BY <1>3, <1>6, <1>7, <1>8 DEF ArgsTypes

(* Every step of exec keeps the types.                                      *)
LEMMA ArgsTypesNext ==
    ASSUME ArgsTypes, ArgsInv, S!Next
    PROVE  ArgsTypes'
<1>0. left \in 0 .. EXEC_MAX_ARGS + EXEC_MAX_ENVS /\ 0 \in 0 .. EXEC_MAX_ARGS + EXEC_MAX_ENVS
  BY StackConstants DEF ArgsTypes
<1>1. ASSUME NEW e, S!Fail(e) PROVE ArgsTypes'
  BY <1>0, <1>1, ArgsTypesStay DEF S!Fail
<1>2. ASSUME NEW v \in S!Vectors, S!EndOfVector(v) PROVE ArgsTypes'
  <2>1. left' \in 0 .. EXEC_MAX_ARGS + EXEC_MAX_ENVS
    BY <1>0, <1>2, VectorFits DEF S!EndOfVector, S!Vectors
  <2>. QED BY <1>2, <2>1, ArgsTypesStay DEF S!EndOfVector
<1>3. ASSUME NEW v \in S!Vectors, S!Pushed(v) PROVE ArgsTypes'
  <2>1. left' \in 0 .. EXEC_MAX_ARGS + EXEC_MAX_ENVS
    BY <1>0, <1>3, VectorFits DEF S!Pushed, S!Vectors
  <2>. QED BY <1>3, <2>1, ArgsTypesStay DEF S!Pushed
<1>4. CASE S!PutTable
  <2>1. DOMAIN stack' = S!Stack /\ UNCHANGED <<stack_size, passed, ptr, left>>
    BY <1>4 DEF S!PutTable
  <2>. QED BY <2>1 DEF ArgsTypes, S!Stack, S!stack_page
<1>5. CASE S!Done
  BY <1>0, <1>5, ArgsTypesStay DEF S!Done, S!vars
<1>. QED BY <1>1, <1>2, <1>3, <1>4, <1>5, ArgsTypesCopy, ArgsTypesPush
         DEF S!Next, S!TooBig, S!Unreadable, S!NoRoomForString, S!NoRoomForTable

(* exec writes to its buffer and to the new stack page only.                *)
LEMMA ArgsTyped == Spec => [](Idle("stack") \/ S!TypeOK)
<1>. DEFINE Inv == Idle("stack") \/ ArgsInv
            Ty  == Idle("stack") \/ ArgsTypes
<1>1. Init => Ty
  <2>. SUFFICES ASSUME S!Init PROVE ArgsTypes
    BY DEF Init
  <2>1. 0 \in 0 .. EXEC_MAX_ARGS + EXEC_MAX_ENVS
    BY StackConstants
  <2>2. <<>> \in Seq(Lengths)
    OBVIOUS
  <2>. QED BY <2>1, <2>2 DEF S!Init, ArgsTypes
<1>2. Ty /\ Inv /\ [Next]_vars => Ty'
  <2>. SUFFICES ASSUME Ty, Inv, [Next]_vars PROVE Ty'
    OBVIOUS
  <2>1. UNCHANGED part
    BY DEF Next, vars
  <2>2. CASE UNCHANGED args
    <3>1. ArgsTypes => ArgsTypes'
      BY <2>2, ArgsTypesStay DEF args, ArgsTypes
    <3>. QED BY <2>1, <3>1 DEF Idle
  <2>3. CASE part = "stack" /\ S!Next
    BY <2>1, <2>3, ArgsTypesNext DEF Idle
  <2>. QED BY <2>2, <2>3 DEF Next, vars
<1>3. Inv /\ Ty => Idle("stack") \/ S!TypeOK
  BY ArgsTypesSound
<1>. QED BY <1>1, <1>2, <1>3, ArgsInvariant, PTL DEF Spec

-----------------------------------------------------------------------------
(***************************************************************************)
(* The bytes of a pipe in their bounds, for which the counts of the calls  *)
(* are added up, and then the types of all parts.                          *)
(***************************************************************************)

(* Finitely many numbers have a bound.                                      *)
LEMMA FiniteBounded ==
    ASSUME NEW A, A \subseteq Nat \ {0}, IsFiniteSet(A)
    PROVE  \E n \in Nat : A \subseteq 1 .. n
<1>. DEFINE Bad == {k \in Nat : \E X \in SUBSET A :
                       Cardinality(X) = k /\ ~ \E n \in Nat : X \subseteq 1 .. n}
<1>1. \A X \in SUBSET A : IsFiniteSet(X) /\ Cardinality(X) \in Nat
  BY FS_Subset, FS_CardinalityType
<1>2. ASSUME NEW k \in Bad, \A j \in Bad : k <= j PROVE FALSE
  <2>1. PICK X \in SUBSET A : Cardinality(X) = k /\ ~ \E n \in Nat : X \subseteq 1 .. n
    OBVIOUS
  <2>2. PICK x \in X : TRUE
    <3>1. {} \subseteq 1 .. 0
      OBVIOUS
    <3>. QED BY <2>1, <3>1
  <2>3. Cardinality(X \ {x}) = k - 1 /\ k - 1 \in Nat /\ k \in Nat
    <3>1. IsFiniteSet(X) /\ X \ {x} \in SUBSET A
      BY <1>1
    <3>2. Cardinality(X \ {x}) = Cardinality(X) - 1
      BY <3>1, FS_RemoveElement
    <3>3. Cardinality(X \ {x}) \in Nat /\ Cardinality(X) \in Nat
      BY <1>1, <3>1
    <3>. QED BY <2>1, <3>2, <3>3
  <2>4. k - 1 \notin Bad
    <3>1. ~(k <= k - 1)
      BY <2>3
    <3>. HIDE DEF Bad
    <3>. QED BY <1>2, <3>1
  <2>5. PICK n \in Nat : X \ {x} \subseteq 1 .. n
    BY <2>3, <2>4
  <2>6. PICK m \in Nat : m >= n /\ m >= x
    <3>1. x \in Nat
      OBVIOUS
    <3>2. x >= n \/ n >= x
      BY <3>1
    <3>. QED BY <3>1, <3>2
  <2>7. X \subseteq 1 .. m
    BY <2>5, <2>6
  <2>. QED BY <2>1, <2>7
<1>3. Bad = {}
  <2>1. Bad \subseteq Nat
    OBVIOUS
  <2>. HIDE DEF Bad
  <2>. QED BY <1>2, <2>1, LeastNat
<1>4. Cardinality(A) \notin Bad /\ Cardinality(A) \in Nat
  BY <1>1, <1>3
<1>. QED BY <1>4

(* The fold that Total is, for functions of processes.                      *)
Added(f, g) ==
    f = [A \in SUBSET DOMAIN g |-> IF A = {} THEN 0 ELSE g[One(A)] + f[A \ {One(A)}]]

(* Total in terms of it.                                                    *)
LEMMA TotalAdded == ASSUME NEW g PROVE P!Total(g) = (CHOOSE f : Added(f, g))[DOMAIN g]
BY DEF P!Total, P!FoldFunction, P!FoldFunctionOnSet, P!MapThenFoldSet, Added, One

(* No process has sent more than all have.                                  *)
LEMMA TotalBounds ==
    ASSUME NEW g \in [Procs -> Nat], NEW p \in Procs
    PROVE  P!Total(g) \in Nat /\ g[p] <= P!Total(g)
<1>1. PICK n \in Nat : Procs \subseteq 1 .. n
  <2>1. Procs \subseteq Nat \ {0} /\ IsFiniteSet(Procs)
    BY PipeBytesAssumption DEF Positive
  <2>. QED BY <2>1, FiniteBounded
<1>2. PICK h : h = [x \in 1 .. n |-> [size |-> IF x \in Procs THEN g[x] ELSE 0]]
  OBVIOUS
<1>3. (\A x \in 1 .. n : h[x].size \in Nat) /\ \A x \in Procs : h[x].size = g[x]
  BY <1>1, <1>2
<1>4. PICK t : Totals(t, h, n)
  BY <1>3, TotalsExist
<1>5. \A f : Added(f, g) <=> Folded(f, h, Procs)
  <2>1. DOMAIN g = Procs /\ \A A \in SUBSET Procs : A # {} => g[One(A)] = h[One(A)].size
    BY <1>3, OneOf
  <2>2. ASSUME NEW f
        PROVE  [A \in SUBSET DOMAIN g |-> IF A = {} THEN 0 ELSE g[One(A)] + f[A \ {One(A)}]]
             = [A \in SUBSET Procs |-> IF A = {} THEN 0 ELSE h[One(A)].size + f[A \ {One(A)}]]
    BY <2>1
  <2>. QED BY <2>2, Zenon DEF Added, Folded
<1>6. PICK f : f = CHOOSE u : Added(u, g)
  OBVIOUS
<1>7. Added(f, g)
  <2>1. \E u : Folded(u, h, Procs)
    BY <1>1, <1>4, FoldedExists
  <2>. QED BY <1>5, <1>6, <2>1, Zenon
<1>8. f[Procs] = t[Procs]
  BY <1>1, <1>4, <1>5, <1>7, FoldedTotal
<1>9. P!Total(g) = t[Procs]
  BY <1>6, <1>8, TotalAdded, Zenon
<1>10. t[Procs] \in Nat /\ t[Procs] = h[p].size + t[Procs \ {p}] /\ t[Procs \ {p}] \in Nat
  <2>1. Procs \in SUBSET (1 .. n) /\ Procs \ {p} \in SUBSET (1 .. n)
    BY <1>1
  <2>. QED BY <1>4, <2>1 DEF Totals
<1>. QED BY <1>3, <1>9, <1>10

(* The bytes of the call a process sleeps in, which it will have sent when  *)
(* the call goes through.                                                   *)
Pending(p) == IF blk[p].why = "write" THEN blk[p].n ELSE 0

(* A byte of the ring: none yet, or a byte some process has sent.           *)
PipeByte == {P!NoByte} \cup (Procs \X (1 .. MaxSent))

(* What the type of the pipe adds to its invariant.                         *)
PipeTypes ==
    /\ buffer \in [0 .. PIPE_CAPACITY - 1 -> PipeByte]
    /\ \A p \in Procs : sent[p] + Pending(p) <= MaxSent

(* What a process sleeps for is a number.                                   *)
LEMMA SleepsFor ==
    ASSUME PipeInv, NEW p \in Procs
    PROVE  blk[p].n \in Nat /\ Pending(p) \in Nat
<1>1. PICK k : k = blk[p].n
  OBVIOUS
<1>2. k = 0 \/ k \in Counts
  BY <1>1 DEF PipeInv, PipeProcs
<1>3. CASE k \in Counts
  BY <1>1, <1>3, PipeConstants DEF Pending
<1>4. CASE k = 0
  BY <1>1, <1>4 DEF Pending
<1>. QED BY <1>2, <1>3, <1>4

(* With the invariant of the ring this is the type of the pipe.             *)
LEMMA PipeTypesSound ==
    ASSUME PipeInv, PipeTypes
    PROVE  P!TypeOK
<1>1. P!Cardinality(Procs) = Cardinality(Procs)
  BY Zenon DEF P!Cardinality, Cardinality
<1>2. \A e \in {"r", "w"} : Cardinality(Holders(e)) \in 0 .. P!Cardinality(Procs)
  <2>1. \A e : Holders(e) \in SUBSET Procs
    BY DEF Holders
  <2>2. IsFiniteSet(Procs)
    BY PipeBytesAssumption
  <2>3. \A A \in SUBSET Procs : /\ IsFiniteSet(A) /\ Cardinality(A) \in Nat
                                /\ Cardinality(A) <= Cardinality(Procs)
    BY <2>2, FS_Subset, FS_CardinalityType
  <2>4. Cardinality(Procs) \in Nat
    BY <2>2, FS_CardinalityType
  <2>. QED BY <1>1, <2>1, <2>3, <2>4
<1>3. {readers, writers} \subseteq 0 .. P!Cardinality(Procs)
  BY <1>2 DEF PipeInv, PipeCounts
<1>4. write_pos \in 0 .. PIPE_CAPACITY - 1
  <2>1. read_pos + count \in Int
    BY PipeConstants DEF PipeInv, PipeRing
  <2>. QED BY <2>1, PipeConstants, Wrap DEF PipeInv, PipeRing
<1>5. \A p \in Procs : sent[p] \in 0 .. MaxSent
  <2>1. ASSUME NEW p \in Procs PROVE sent[p] \in 0 .. MaxSent
    <3>1. sent[p] \in Nat /\ MaxSent \in Nat
      BY PipeBytesAssumption DEF PipeInv, PipeRing
    <3>2. Pending(p) \in Nat
      BY SleepsFor
    <3>. QED BY <3>1, <3>2 DEF PipeTypes
  <2>. QED BY <2>1
<1>6. sent \in [Procs -> 0 .. MaxSent]
  BY <1>5 DEF PipeInv, PipeRing
<1>7. {read_pos, write_pos} \subseteq 0 .. PIPE_CAPACITY - 1 /\ count \in 0 .. PIPE_CAPACITY
  BY <1>4 DEF PipeInv, PipeRing
<1>. QED BY <1>3, <1>6, <1>7 DEF P!TypeOK, PipeInv, PipeCounts, PipeProcs, PipeTypes, PipeByte

(* A step that stores no byte keeps it, if no call falls asleep that would  *)
(* send too much.                                                           *)
LEMMA PipeTypesQuiet ==
    ASSUME PipeTypes, UNCHANGED sent, buffer' = buffer \/ buffer' = P!Empty,
           \A p \in Procs : Pending(p)' \in {0, Pending(p)} \/ sent[p] + Pending(p)' <= MaxSent,
           PipeInv
    PROVE  PipeTypes'
<1>1. buffer' \in [0 .. PIPE_CAPACITY - 1 -> PipeByte]
  BY DEF PipeTypes, P!Empty, PipeByte
<1>2. ASSUME NEW p \in Procs PROVE sent'[p] + Pending(p)' <= MaxSent
  <2>1. sent[p] \in Nat /\ MaxSent \in Nat
    BY PipeBytesAssumption DEF PipeInv, PipeRing
  <2>2. Pending(p) \in Nat
    BY SleepsFor
  <2>3. sent[p] + Pending(p) <= MaxSent
    BY DEF PipeTypes
  <2>. QED BY <2>1, <2>2, <2>3
<1>. QED BY <1>1, <1>2 DEF PipeTypes

(* PutBytes stores bytes of the running process, which then sleeps in no    *)
(* call.                                                                    *)
LEMMA PipeTypesPut ==
    ASSUME PipeInv, PipeTypes, NEW n \in Nat, P!PutBytes(n), sent[running] + n <= MaxSent,
           blk' = blk \/ blk' = [blk EXCEPT ![running] = P!Awake],
           blk'[running].why # "write"
    PROVE  PipeTypes'
<1>. DEFINE Index(i) == (i + PIPE_CAPACITY - write_pos) % PIPE_CAPACITY
<1>1. PICK m : m = P!Smaller(n, P!Space)
  OBVIOUS
<1>2. m \in Nat /\ m <= n
  <2>1. P!Space \in Nat
    BY PipeConstants DEF P!Space, PipeInv, PipeRing
  <2>. QED BY <1>1, <2>1 DEF P!Smaller
<1>3. /\ buffer' = [i \in DOMAIN buffer |->
                      IF Index(i) < m THEN <<running, sent[running] + Index(i) + 1>> ELSE buffer[i]]
      /\ sent' = [sent EXCEPT ![running] = @ + m]
  BY <1>1, Zenon DEF P!PutBytes
<1>4. running \in Procs /\ sent[running] \in Nat /\ sent \in [Procs -> Nat] /\ MaxSent \in Nat
  BY PipeBytesAssumption DEF PipeInv, PipeRing, PipeProcs
<1>5. buffer' \in [0 .. PIPE_CAPACITY - 1 -> PipeByte]
  <2>1. ASSUME NEW i \in 0 .. PIPE_CAPACITY - 1, Index(i) < m
        PROVE  <<running, sent[running] + Index(i) + 1>> \in PipeByte
    <3>1. Index(i) \in Nat
      <4>1. read_pos + count \in Int /\ i \in Int /\ PIPE_CAPACITY \in Nat \ {0}
        BY PipeConstants DEF PipeInv, PipeRing
      <4>2. write_pos \in 0 .. PIPE_CAPACITY - 1
        BY <4>1, Wrap DEF PipeInv, PipeRing
      <4>3. PICK j \in Int : j = i + PIPE_CAPACITY - write_pos
        BY <4>1, <4>2
      <4>4. j % PIPE_CAPACITY \in 0 .. PIPE_CAPACITY - 1
        BY <4>1, Wrap
      <4>. QED BY <4>1, <4>3, <4>4
    <3>. DEFINE k == Index(i)
    <3>2. k \in Nat /\ k < m
      BY <2>1, <3>1
    <3>. HIDE DEF k
    <3>3. sent[running] + k + 1 \in 1 .. MaxSent
      BY <1>2, <1>4, <3>2
    <3>. QED BY <1>4, <3>3 DEF k, PipeByte
  <2>2. DOMAIN buffer = 0 .. PIPE_CAPACITY - 1
    BY DEF PipeInv, PipeRing
  <2>. HIDE DEF Index
  <2>. QED BY <1>3, <2>1, <2>2 DEF PipeTypes
<1>6. ASSUME NEW p \in Procs PROVE sent'[p] + Pending(p)' <= MaxSent
  <2>1. CASE p = running
    <3>1. Pending(p)' = 0 /\ sent'[p] = sent[p] + m
      BY <1>3, <1>4, <2>1 DEF Pending
    <3>. QED BY <1>2, <1>4, <2>1, <3>1
  <2>2. CASE p # running
    <3>1. blk'[p] = blk[p] /\ sent'[p] = sent[p]
      BY <1>3, <1>4, <2>2 DEF PipeInv, PipeProcs
    <3>. QED BY <3>1 DEF Pending, PipeTypes
  <2>. QED BY <2>1, <2>2
<1>. QED BY <1>5, <1>6 DEF PipeTypes

(* pipe_write stores bytes or none.                                         *)
LEMMA PipeTypesWrite ==
    ASSUME PipeInv, PipeTypes, NEW n \in Nat, P!pipe_write(n), sent[running] + n <= MaxSent,
           blk' = blk \/ blk' = [blk EXCEPT ![running] = P!Awake],
           blk'[running].why # "write"
    PROVE  PipeTypes'
<1>1. CASE P!PutBytes(n)
  BY <1>1, PipeTypesPut
<1>2. CASE UNCHANGED P!ring /\ UNCHANGED sent
  <2>1. UNCHANGED buffer /\ UNCHANGED sent
    BY <1>2 DEF P!ring
  <2>2. \A p \in Procs : Pending(p)' \in {0, Pending(p)}
    BY DEF Pending, P!Awake, PipeInv, PipeProcs
  <2>. QED BY <2>1, <2>2, PipeTypesQuiet
<1>. QED BY <1>1, <1>2 DEF P!pipe_write

(* A call that falls asleep, if it would not send too much.                 *)
LEMMA PipeTypesBlock ==
    ASSUME PipeInv, PipeTypes, NEW why \in {"read", "write"}, NEW n \in Nat,
           why = "write" => sent[running] + n <= MaxSent, P!Block(why, n)
    PROVE  PipeTypes'
<1>1. running \in Procs /\ DOMAIN blk = Procs
  BY DEF PipeInv, PipeProcs
<1>2. UNCHANGED buffer /\ UNCHANGED sent
  BY DEF P!Block, P!TryAgain, P!ring
<1>3. blk' = blk \/ blk' = [blk EXCEPT ![running] = [why |-> why, n |-> n]]
  BY DEF P!Block
<1>4. ASSUME NEW p \in Procs PROVE Pending(p)' \in {0, Pending(p)} \/ sent[p] + Pending(p)' <= MaxSent
  <2>1. CASE blk'[p] = blk[p]
    BY <2>1 DEF Pending
  <2>2. CASE p = running /\ blk'[p] = [why |-> why, n |-> n]
    BY <2>2 DEF Pending
  <2>. QED BY <1>1, <1>3, <2>1, <2>2
<1>. QED BY <1>2, <1>4, PipeTypesQuiet

(* Every step keeps it.                                                     *)
LEMMA PipeTypesNext ==
    ASSUME PipeInv, PipeTypes, P!Next
    PROVE  PipeTypes'
<1>0. /\ running \in Procs /\ DOMAIN blk = Procs /\ sent \in [Procs -> Nat]
      /\ MaxSent \in Nat /\ Counts \subseteq Nat
  BY PipeBytesAssumption, PipeConstants DEF PipeInv, PipeProcs, PipeRing
<1>1. ASSUME UNCHANGED sent, buffer' = buffer \/ buffer' = P!Empty,
             blk' = blk \/ blk' = [blk EXCEPT ![running] = P!Awake]
      PROVE  PipeTypes'
  <2>1. \A p \in Procs : Pending(p)' \in {0, Pending(p)}
    BY <1>0, <1>1 DEF Pending, P!Awake
  <2>. QED BY <1>1, <2>1, PipeTypesQuiet
<1>2. ASSUME NEW n \in Counts, P!syscall_read(n) PROVE PipeTypes'
  <2>1. CASE P!pipe_read(n) /\ UNCHANGED blk
    BY <1>1, <2>1 DEF P!pipe_read
  <2>2. CASE P!Block("read", n)
    BY <1>0, <2>2, PipeTypesBlock
  <2>. QED BY <1>2, <2>1, <2>2 DEF P!syscall_read
<1>3. ASSUME NEW n \in Counts, P!syscall_write(n) PROVE PipeTypes'
  <2>1. n \in Nat /\ sent[running] + n <= MaxSent
    <3>1. P!Total(sent) \in Nat /\ sent[running] <= P!Total(sent) /\ sent[running] \in Nat
      BY <1>0, TotalBounds
    <3>2. P!Total(sent) + n <= MaxSent
      BY <1>3 DEF P!syscall_write
    <3>. QED BY <1>0, <3>1, <3>2
  <2>2. CASE P!pipe_write(n) /\ UNCHANGED blk
    <3>1. blk[running].why = "none"
      BY <1>3 DEF P!syscall_write, PipeInv, PipeProcs
    <3>. QED BY <2>1, <2>2, <3>1, PipeTypesWrite
  <2>3. CASE P!Block("write", n)
    BY <2>1, <2>3, PipeTypesBlock
  <2>. QED BY <1>3, <2>2, <2>3 DEF P!syscall_write
<1>4. CASE P!process_complete_pipe_io
  <2>1. blk' = [blk EXCEPT ![running] = P!Awake] /\ P!Retry(blk[running])
    BY <1>4 DEF P!process_complete_pipe_io
  <2>2. CASE P!pipe_write(blk[running].n) /\ blk[running].why = "write"
    <3>1. blk[running].n \in Nat
      BY <1>0, SleepsFor
    <3>2. sent[running] + blk[running].n <= MaxSent
      BY <1>0, <2>2 DEF PipeTypes, Pending
    <3>3. blk'[running].why # "write"
      BY <1>0, <2>1 DEF P!Awake
    <3>. QED BY <2>1, <2>2, <3>1, <3>2, <3>3, PipeTypesWrite
  <2>3. CASE UNCHANGED buffer /\ UNCHANGED sent
    BY <1>1, <2>1, <2>3
  <2>4. P!Retry(blk[running]) =>
            \/ P!pipe_write(blk[running].n) /\ blk[running].why = "write"
            \/ UNCHANGED buffer /\ UNCHANGED sent
    BY DEF P!Retry, P!pipe_read, P!TryAgain, P!ring
  <2>. QED BY <2>1, <2>2, <2>3, <2>4
<1>5. CASE P!pipe_create
  BY <1>1, <1>5, Zenon DEF P!pipe_create
<1>6. ASSUME NEW p \in Procs, P!process_fd_inherit(p) PROVE PipeTypes'
  <2>1. UNCHANGED buffer /\ UNCHANGED <<sent, blk>>
    BY <1>6, Zenon DEF P!process_fd_inherit, P!ring
  <2>. QED BY <1>1, <2>1
<1>7. ASSUME NEW e \in {"r", "w"}, P!pipe_close(e), UNCHANGED <<sent, blk>> PROVE PipeTypes'
  <2>1. buffer' = buffer \/ buffer' = P!Empty
    BY <1>7 DEF P!pipe_close, P!ring
  <2>. QED BY <1>1, <1>7, <2>1
<1>8. CASE \E e \in {"r", "w"} : P!syscall_close(e)
  BY <1>7, <1>8 DEF P!syscall_close
<1>9. CASE P!process_fd_close_all
  BY <1>7, <1>9 DEF P!process_fd_close_all
<1>10. CASE P!scheduler_preempt \/ P!process_mark_exit \/ P!scheduler_exit_current
  <2>1. UNCHANGED buffer /\ UNCHANGED sent
    BY <1>10 DEF P!scheduler_preempt, P!process_mark_exit, P!scheduler_exit_current, P!ring
  <2>2. blk' = blk \/ blk' = [blk EXCEPT ![running] = P!Awake]
    BY <1>10 DEF P!scheduler_preempt, P!process_mark_exit, P!scheduler_exit_current, P!procs
  <2>. QED BY <1>1, <2>1, <2>2
<1>. QED BY <1>2, <1>3, <1>4, <1>5, <1>6, <1>8, <1>9, <1>10, Zenon DEF P!Next

(* Indices, counts and bytes of the pipe stay in their bounds.              *)
LEMMA PipeTyped == Spec => [](Idle("pipe") \/ P!TypeOK)
<1>. DEFINE Inv == Idle("pipe") \/ PipeInv
            Ty  == Idle("pipe") \/ PipeTypes
<1>1. Init => Ty
  <2>1. MaxSent \in Nat
    BY PipeBytesAssumption
  <2>. QED BY <2>1 DEF Init, P!Init, P!pipe_init, P!Empty, P!Awake, PipeTypes, PipeByte, Pending
<1>2. Inv /\ Ty /\ [Next]_vars => Ty'
  <2>. SUFFICES ASSUME Inv, Ty, [Next]_vars PROVE Ty'
    OBVIOUS
  <2>1. CASE UNCHANGED pipe
    BY <2>1 DEF pipe, PipeTypes, Pending, Next, vars, Idle
  <2>2. CASE part = "pipe" /\ P!Next
    BY <2>2, PipeTypesNext DEF Idle
  <2>. QED BY <2>1, <2>2 DEF Next, vars
<1>3. Inv /\ Ty => Idle("pipe") \/ P!TypeOK
  BY PipeTypesSound
<1>. QED BY <1>1, <1>2, <1>3, PipeInvariant, PTL DEF Spec

(* Nothing leaves its bounds, whatever they are: each part's values are of  *)
(* their types in every state of the behaviours that exercise it, by the    *)
(* invariants above.                                                        *)
THEOREM TypesCorrect == Spec => []TypeOK
<1>1. Spec => [](part \in Parts)
  <2>1. Init => part \in Parts
    BY DEF Init
  <2>2. part \in Parts /\ [Next]_vars => (part \in Parts)'
    BY DEF Next, vars
  <2>. QED BY <2>1, <2>2, PTL DEF Spec
<1>2. KeyboardInv => K!TypeOK
  BY DEF KeyboardInv
<1>3. TasksInv => T!TypeOK
  BY DEF TasksInv, TaskTypes
<1>4. /\ part \in Parts
      /\ Idle("heap") \/ H!TypeOK
      /\ Idle("elf") \/ E!TypeOK
      /\ Idle("stack") \/ S!TypeOK
      /\ Idle("access") \/ U!TypeOK
      /\ Idle("keyboard") \/ KeyboardInv
      /\ Idle("console") \/ V!TypeOK
      /\ Idle("pipe") \/ P!TypeOK
      /\ Idle("boot") \/ B!TypeOK
      /\ Idle("tasks") \/ TasksInv
      => TypeOK
  BY <1>2, <1>3, Zenon DEF TypeOK
<1>. QED BY <1>1, <1>4, HeapTyped, ElfTyped, ArgsTyped, AccessTyped, KeyboardInvariant,
            ConsoleTyped, PipeTyped, BootTyped, TasksInvariant, PTL

=============================================================================
