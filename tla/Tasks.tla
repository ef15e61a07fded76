-------------------------------- MODULE Tasks --------------------------------
(***************************************************************************)
(* Kernel tasks: threads that the kernel creates for itself, run by the    *)
(* same scheduler as processes (kernel/scheduler.c, kernel/process.c,      *)
(* context_switch of kernel/usermode.asm).                                 *)
(*                                                                         *)
(* Cooperative tasks give the CPU up in yield, which queues the caller and *)
(* switches stacks in two steps with interrupts on in between; preemptive  *)
(* tasks are switched by the timer.  A build uses tasks of one kind.  The  *)
(* code that creates them runs as the cooperative task Boot, or as no task *)
(* at all when the others are preemptive.                                  *)
(***************************************************************************)
EXTENDS ReadyQueue, FiniteSets

CONSTANTS Task,        \* slots of the process table
          Priorities   \* the arguments of scheduler_set_priority

Boot   == 0            \* the code of kernel_main, and its kernel_task
NoTask == -1           \* current == NULL
All    == Task \cup {Boot}

VARIABLES
    kind,              \* "cooperative" or "preemptive": which tasks this build has
    tstate, priority, dyn, interrupt_frame,
    esp,               \* what the saved esp points to: a frame's kind and whose it is
    queue, current, preemption_enabled,
    exec,              \* whose code the CPU executes
    prev               \* prev[t]: t is inside yield, which left this task; NoTask outside

sched == <<tstate, dyn, queue, current>>
vars  == <<kind, sched, priority, interrupt_frame, esp, preemption_enabled, exec, prev>>

NoFrame == [kind |-> "none", of |-> NoTask]

Init ==
    /\ kind \in {"cooperative", "preemptive"}
    /\ current = IF kind = "cooperative" THEN Boot ELSE NoTask
    /\ tstate = [t \in All |-> IF t = current THEN "RUNNING" ELSE "DEAD"]
    /\ priority = [t \in All |-> 0]
    /\ dyn = [t \in All |-> 0]
    /\ interrupt_frame = [t \in All |-> FALSE]
    /\ esp = [t \in All |-> NoFrame]
    /\ queue = <<>>
    /\ preemption_enabled = FALSE
    /\ exec = Boot
    /\ prev = [t \in All |-> NoTask]

-----------------------------------------------------------------------------
(* Before the tasks run *)

(***************************************************************************)
(* process_create or process_create_preemptive, which builds the frame the *)
(* task starts from, scheduler_set_priority, which keeps to the limits,    *)
(* and scheduler_add.                                                      *)
(***************************************************************************)
FirstFrame(t) ==
    [kind |-> IF kind = "cooperative" THEN "switch" ELSE "trap", of |-> t]

Clamped(p) ==
    IF p = 0 THEN PROCESS_DEFAULT_PRIORITY
    ELSE IF p > PROCESS_MAX_PRIORITY THEN PROCESS_MAX_PRIORITY
    ELSE p

Create(t, p) ==
    /\ exec = Boot
    /\ ~preemption_enabled
    /\ prev[Boot] = NoTask
    /\ tstate[t] = "DEAD"
    /\ tstate' = [tstate EXCEPT ![t] = "READY"]
    /\ priority' = [priority EXCEPT ![t] = Clamped(p)]
    /\ dyn' = [dyn EXCEPT ![t] = Clamped(p)]
    /\ interrupt_frame' = [interrupt_frame EXCEPT ![t] = kind = "preemptive"]
    /\ esp' = [esp EXCEPT ![t] = FirstFrame(t)]
    /\ queue' = Enqueue(queue, t)
    /\ UNCHANGED <<kind, current, preemption_enabled, exec, prev>>

scheduler_set_preemption_enabled ==
    /\ exec = Boot
    /\ ~preemption_enabled
    /\ preemption_enabled' = TRUE
    /\ UNCHANGED <<kind, sched, priority, interrupt_frame, esp, exec, prev>>

-----------------------------------------------------------------------------
(* Scheduling *)

Base(t) == IF priority[t] # 0 THEN priority[t] ELSE PROCESS_DEFAULT_PRIORITY

(***************************************************************************)
(* scheduler_schedule_locked with a task to switch to: current goes to the *)
(* end of the queue (enqueue gives kernel_task, created without one, a     *)
(* priority), the queue ages, and the best task becomes current.           *)
(***************************************************************************)
Requeued == current # NoTask /\ tstate[current] = "RUNNING"

scheduler_schedule_locked ==
    LET next == find_best_ready(queue, dyn)
        rest == dequeue_best(queue, dyn)
        q == IF Requeued THEN Enqueue(rest, current) ELSE rest
        d == IF Requeued /\ dyn[current] = 0
             THEN [dyn EXCEPT ![current] = Base(current)] ELSE dyn
    IN  /\ queue' = q
        /\ dyn' = [age_ready_queue(q, d) EXCEPT ![next] = Base(next)]
        /\ tstate' = [t \in All |-> IF t = next THEN "RUNNING"
                                    ELSE IF Requeued /\ t = current THEN "READY"
                                    ELSE tstate[t]]
        /\ current' = next

(***************************************************************************)
(* yield, up to the irq_restore of scheduler_schedule.  An interrupt-frame *)
(* task, and one that is alone, go on.                                     *)
(***************************************************************************)
yield ==
    /\ current = exec
    /\ prev[exec] = NoTask
    /\ ~interrupt_frame[exec]
    /\ queue # <<>>
    /\ scheduler_schedule_locked
    /\ prev' = [prev EXCEPT ![exec] = exec]
    /\ UNCHANGED <<kind, priority, interrupt_frame, esp, preemption_enabled, exec>>

(***************************************************************************)
(* The rest of yield: context_switch saves the caller's registers on its   *)
(* stack, takes those the new task's esp points to, and returns there.     *)
(***************************************************************************)
context_switch ==
    /\ prev[exec] # NoTask
    /\ esp' = [esp EXCEPT ![exec] = [kind |-> "switch", of |-> exec]]
    /\ exec' = esp[current].of
    /\ prev' = [prev EXCEPT ![exec] = NoTask]
    /\ UNCHANGED <<kind, sched, priority, interrupt_frame, preemption_enabled>>

(***************************************************************************)
(* A tick.  scheduler_preempt leaves cooperative tasks alone: a current    *)
(* one, which need not be the one that executes, and a best one.           *)
(***************************************************************************)
MaySwitchAnyone == preemption_enabled /\ queue # <<>>

MaySwitch ==
    /\ preemption_enabled
    /\ queue # <<>>
    /\ current # NoTask => interrupt_frame[current]

scheduler_preempt ==
    /\ MaySwitch
    /\ LET saved == IF current = NoTask THEN esp
                    ELSE [esp EXCEPT ![current] = [kind |-> "trap", of |-> exec]]
           next == find_best_ready(queue, dyn)
       IN  /\ esp' = saved
           /\ IF interrupt_frame[next]
              THEN scheduler_schedule_locked /\ exec' = saved[next].of
              ELSE UNCHANGED <<sched, exec>>
    /\ UNCHANGED <<kind, priority, interrupt_frame, preemption_enabled, prev>>

Next ==
    \/ \E t \in Task, p \in Priorities : Create(t, p)
    \/ scheduler_set_preemption_enabled
    \/ yield
    \/ context_switch
    \/ scheduler_preempt

(***************************************************************************)
(* The timer ticks for ever.                                               *)
(***************************************************************************)
Spec == Init /\ [][Next]_vars /\ WF_vars(scheduler_preempt)

-----------------------------------------------------------------------------
(* Properties *)

TypeOK ==
    /\ tstate \in [All -> {"DEAD", "READY", "RUNNING"}]
    /\ dyn \in [All -> 0 .. PROCESS_MAX_PRIORITY]
    /\ esp \in [All -> [kind : {"none", "switch", "trap"}, of : All \cup {NoTask}]]
    /\ queue \in Seq(All)
    /\ current \in All \cup {NoTask}
    /\ exec \in All
    /\ prev \in [All -> All \cup {NoTask}]

InYield(t) == prev[t] # NoTask

(***************************************************************************)
(* A task goes on exactly where it stopped: whenever its saved stack may   *)
(* be switched to, it holds that task's own frame, of the kind the switch  *)
(* will pop, although yield queues its caller before it saves the stack    *)
(* and the timer may tick in between.  Nobody is queued twice or lost.     *)
(***************************************************************************)
TaskFrames ==
    /\ \A t \in All : (tstate[t] = "READY" /\ ~InYield(t)) \/ (t = current /\ t # exec) =>
          esp[t] = [kind |-> IF interrupt_frame[t] THEN "trap" ELSE "switch", of |-> t]
    /\ NoRepeat(queue)
    /\ Queued(queue) = {t \in All : tstate[t] = "READY"}
    /\ current # NoTask /\ ~InYield(exec) => current = exec

(***************************************************************************)
(* Aging defeats priorities: with preemption on, every preemptive task,    *)
(* however low, gets the CPU again and again.                              *)
(***************************************************************************)
TaskRuns ==
    \A t \in Task :
        (interrupt_frame[t] /\ preemption_enabled /\ tstate[t] = "READY")
            ~> tstate[t] = "RUNNING"

=============================================================================
