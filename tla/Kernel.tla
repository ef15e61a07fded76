------------------------------- MODULE Kernel -------------------------------
(***************************************************************************)
(* The process half of the kernel: the process table (kernel/process.c),   *)
(* the scheduler's queue (kernel/scheduler.c), the pipes (kernel/pipe.c),  *)
(* the system calls that act on them (kernel/syscall.c), the timer and     *)
(* page-fault traps (kernel/timer.c, kernel/idt.c) and the trap exit of    *)
(* kernel/isr.asm.                                                         *)
(*                                                                         *)
(* There is one CPU and every trap runs with interrupts off, so between    *)
(* two user instructions the kernel runs one trap from entry to iret.  pc  *)
(* says where in the trap it is.  A trap is a fixed sequence of steps:     *)
(*                                                                         *)
(*   user -> handler -> deliver* -> resume -> reap -> user                 *)
(*                                                                         *)
(* where process_mark_exit followed by scheduler_exit_current, reached     *)
(* from SYS_EXIT, a fatal fault or a delivered signal, is the detour       *)
(* closing* -> notify -> stop.  A page fault skips deliver.                *)
(***************************************************************************)
EXTENDS ReadyQueue, FiniteSets

CONSTANTS MAX_PROCESSES, STACK_SLOTS, PROCESS_MAX_FDS,
          MAX_PIPES, PIPE_CAPACITY, PIPE_BUF,
          Preemption,  \* scheduler_set_preemption_enabled, fixed per run
          Calls,       \* the system calls the user programs make
          Faults,      \* the fatal page faults they run into (exit codes)
          ExitCodes,   \* the arguments they give SYS_EXIT
          Counts,      \* the byte counts they give SYS_READ and SYS_WRITE
          Signals,     \* the signals they send
          MaxPid       \* bound: next_pid is not taken past it

KILL == 9
TERM == 15
CHLD == 17

(***************************************************************************)
(* Bit 31 of an exit code is only ever tested for presence; VM_BIT stands  *)
(* for it so that the codes stay in TLC's integers.                        *)
(***************************************************************************)
VM_BIT == 65536
VM_EXIT_PAGE_FAULT == VM_BIT + 14

CallNames == {"fork", "exit", "wait", "waitpid", "kill", "pipe", "read",
              "write", "close", "other"}

ASSUME KernelAssumption ==
    /\ MAX_PROCESSES \in Nat \ {0}
    /\ STACK_SLOTS \in Nat \ {0}
    /\ PROCESS_MAX_FDS \in Nat
    /\ MAX_PIPES \in Nat
    /\ PIPE_CAPACITY \in Nat \ {0}
    /\ PIPE_BUF \in Nat
    /\ Preemption \in BOOLEAN
    /\ Calls \subseteq CallNames
    /\ Faults \subseteq Nat
    /\ ExitCodes \subseteq Nat
    /\ Counts \subseteq Nat \ {0}
    /\ Signals \subseteq {KILL, TERM, CHLD}
    /\ MaxPid \in Nat \ {0}

Slot   == 1 .. MAX_PROCESSES      \* process_table[i], as i + 1
Stack  == 1 .. STACK_SLOTS        \* a slot of stack_pool, as i + 1
Fd     == 1 .. PROCESS_MAX_FDS    \* a descriptor, as fd + 1
Pipe   == 1 .. MAX_PIPES          \* pipes[i], as i + 1
Pid    == 1 .. MaxPid
Signal == {KILL, TERM, CHLD}

NoEnd    == [pipe |-> 0, end |-> "none"]
NoBlock  == [why |-> "none", arg |-> 0, n |-> 0]
NoDone   == [pid |-> 0, by |-> "none", status |-> 0]
NotYet   == [code |-> 0, sig |-> 0, dead |-> FALSE]
ClosedFds == [f \in Fd |-> NoEnd]

VARIABLES
    (* struct process, one function per field *)
    state,     \* PROCESS_DEAD, READY, RUNNING, BLOCKED, ZOMBIE
    pid, parent,
    waited,    \* the parent has been given this zombie's status
    code, sig, \* exit_code and killed_by_signal
    pend,      \* pending_signals
    blk,       \* block_reason with what it waits for; waiting_for_child
    done,      \* wait_completion_pending, wait_result_status and eax
    fds,       \* the pipe ends in the descriptor table
    intr,      \* interrupt_frame: esp points at a full trap frame
    kstack,    \* the slot of stack_pool, 0 for none
    dyn,       \* dynamic_priority
    (* kernel globals *)
    next_pid, process_count, stack_free,
    queue, cur,            \* ready_queue and current of scheduler.c
    readers, writers, fill, \* pipes[]: the two counts and the bytes held
    (* the CPU *)
    pc, trap,
    esp,       \* the process whose saved frame the trap will return to
    tss,       \* esp0 of the TSS: the stack the next trap will run on
    on,        \* the kernel stack the running trap executes on
    (* what user programs have seen *)
    log,       \* pid -> how that process ended
    got        \* pid -> the statuses its parent was given for it

idVars    == <<pid, next_pid, process_count, kstack, stack_free>>
schedVars == <<state, queue, dyn, cur, intr, tss>>
exitVars  == <<parent, waited, code, sig>>
blockVars == <<blk, done>>
pipeVars  == <<readers, writers, fill>>
cpuVars   == <<pc, trap, esp, on>>
histVars  == <<log, got>>
vars == <<idVars, schedVars, exitVars, pend, blockVars, fds, pipeVars,
          cpuVars, histVars>>

-----------------------------------------------------------------------------
(* Table scans: every loop of process.c and pipe.c takes the first match. *)

Lowest(S) == IF S = {} THEN 0 ELSE CHOOSE x \in S : \A y \in S : x <= y

process_get_current == Lowest({p \in Slot : state[p] = "RUNNING"})

process_get_by_pid(x) ==
    IF x = 0 THEN 0
    ELSE Lowest({p \in Slot : pid[p] = x /\ state[p] # "DEAD"})

(***************************************************************************)
(* process_wake_pipe_waiter wakes the first process blocked for this       *)
(* reason on a descriptor of this pipe; 0 when there is none.              *)
(***************************************************************************)
Waiter(q, why) ==
    Lowest({p \in Slot : /\ state[p] = "BLOCKED"
                         /\ blk[p].why = why
                         /\ fds[p][blk[p].arg].pipe = q})

(***************************************************************************)
(* scheduler_wake(p) for a process that is BLOCKED, nothing for p = 0.     *)
(***************************************************************************)
scheduler_wake(p) ==
    /\ state' = IF p = 0 THEN state ELSE [state EXCEPT ![p] = "READY"]
    /\ queue' = IF p = 0 THEN queue ELSE Enqueue(queue, p)

(***************************************************************************)
(* scheduler_stop_current_locked takes the best ready process, and only    *)
(* switches to it if it can be resumed from a trap frame.  (Its saved esp  *)
(* is non-zero from its creation to its destruction.)                      *)
(***************************************************************************)
Next1 == find_best_ready(queue, dyn)
HasNext == queue # <<>> /\ intr[Next1]

PutBack ==
    IF queue = <<>> THEN queue ELSE Enqueue(dequeue_best(queue, dyn), Next1)

(***************************************************************************)
(* The tail shared by the two ways a process gives up the CPU: rest is     *)
(* what stays queued, n the process that runs.  Every process has the      *)
(* default priority (no system call changes it).                           *)
(***************************************************************************)
DispatchKeepsCurrent(rest, n) ==
    /\ queue' = rest
    /\ dyn' = [age_ready_queue(rest, dyn) EXCEPT ![n] = PROCESS_DEFAULT_PRIORITY]
    /\ cur' = cur
    /\ tss' = kstack[n]
    /\ esp' = n

DispatchKeepsTss(rest, n) ==
    /\ queue' = rest
    /\ dyn' = [age_ready_queue(rest, dyn) EXCEPT ![n] = PROCESS_DEFAULT_PRIORITY]
    /\ cur' = n
    /\ tss' = tss
    /\ esp' = n

Dispatch(rest, n) ==
    /\ queue' = rest
    /\ dyn' = [age_ready_queue(rest, dyn) EXCEPT ![n] = PROCESS_DEFAULT_PRIORITY]
    /\ cur' = n
    /\ tss' = kstack[n]
    /\ esp' = n

-----------------------------------------------------------------------------
(* The kernel has created the first user process and entered it.          *)

Init ==
    /\ state = [p \in Slot |-> IF p = 1 THEN "RUNNING" ELSE "DEAD"]
    /\ pid = [p \in Slot |-> IF p = 1 THEN 1 ELSE 0]
    /\ parent = [p \in Slot |-> 0]
    /\ waited = [p \in Slot |-> FALSE]
    /\ code = [p \in Slot |-> 0]
    /\ sig = [p \in Slot |-> 0]
    /\ pend = [p \in Slot |-> {}]
    /\ blk = [p \in Slot |-> NoBlock]
    /\ done = [p \in Slot |-> NoDone]
    /\ fds = [p \in Slot |-> ClosedFds]
    /\ intr = [p \in Slot |-> FALSE]
    /\ kstack = [p \in Slot |-> IF p = 1 THEN 1 ELSE 0]
    /\ dyn = [p \in Slot |-> IF p = 1 THEN PROCESS_DEFAULT_PRIORITY ELSE 0]
    /\ next_pid = 2
    /\ process_count = 1
    /\ stack_free = Stack \ {1}
    /\ queue = <<>>
    /\ cur = 1
    /\ readers = [q \in Pipe |-> 0]
    /\ writers = [q \in Pipe |-> 0]
    /\ fill = [q \in Pipe |-> 0]
    /\ pc = "user"
    /\ trap = "none"
    /\ esp = 1
    /\ tss = 1
    /\ on = 1
    /\ log = [x \in Pid |-> NotYet]
    /\ got = [x \in Pid |-> <<>>]

-----------------------------------------------------------------------------
(* Trap entry and the shapes of a system call.                             *)

Me == process_get_current

(***************************************************************************)
(* int 0x80 from ring 3: the CPU moves to the stack of the TSS and         *)
(* syscall_dispatch marks the caller's frame as a full trap frame.         *)
(***************************************************************************)
Syscall(name) ==
    /\ pc = "user"
    /\ name \in Calls
    /\ trap' = "syscall"
    /\ on' = tss

(***************************************************************************)
(* A handler that goes back to its caller: the dispatcher delivers the     *)
(* signals of the frame it came from.                                      *)
(***************************************************************************)
Return ==
    /\ pc' = "deliver"
    /\ esp' = Me
    /\ intr' = [intr EXCEPT ![Me] = TRUE]
    /\ UNCHANGED <<cur, tss>>

(***************************************************************************)
(* scheduler_block_current for reason b.  When no other process can run    *)
(* the caller is resumed at once (EAGAIN) and the reason is taken back.    *)
(***************************************************************************)
BlockCurrent(b) ==
    /\ pc' = "deliver"
    /\ intr' = [intr EXCEPT ![Me] = TRUE]
    /\ \/ /\ HasNext
          /\ state' = [state EXCEPT ![cur] = "BLOCKED", ![Next1] = "RUNNING"]
          /\ blk' = [blk EXCEPT ![Me] = b]
          /\ Dispatch(dequeue_best(queue, dyn), Next1)
       \/ /\ ~HasNext
          /\ queue' = PutBack
          /\ esp' = cur
          /\ UNCHANGED <<state, blk, dyn, cur, tss>>

-----------------------------------------------------------------------------
(* SYS_FORK *)

(***************************************************************************)
(* process_fork takes the first dead slot and the first free kernel stack, *)
(* clones the address space and inherits every descriptor, which retains   *)
(* the pipe end behind it.  scheduler_add queues the child.  A fork that   *)
(* finds no slot, stack or memory undoes what it did: see Other.           *)
(***************************************************************************)
EndsLost(p, q, e) == {}

Ends(p, q, e) == {f \in Fd : fds[p][f] = [pipe |-> q, end |-> e]}

(***************************************************************************)
(* The child's frame is a copy of the parent's trap frame, and from now on *)
(* both are resumed from one.                                              *)
(***************************************************************************)
ForkFramesParentOnly(child) == [intr EXCEPT ![Me] = TRUE]

ForkFrames(child) == [intr EXCEPT ![child] = TRUE, ![Me] = TRUE]

Fork ==
    LET child == Lowest({p \in Slot : state[p] = "DEAD"})
        stk == Lowest(stack_free)
    IN  /\ Syscall("fork")
        /\ next_pid <= MaxPid
        /\ process_count < MAX_PROCESSES
        /\ child # 0
        /\ stk # 0
        /\ stack_free' = stack_free \ {stk}
        /\ kstack' = [kstack EXCEPT ![child] = stk]
        /\ pid' = [pid EXCEPT ![child] = next_pid]
        /\ next_pid' = next_pid + 1
        /\ process_count' = process_count + 1
        /\ parent' = [parent EXCEPT ![child] = pid[Me]]
        /\ fds' = [fds EXCEPT ![child] = fds[Me]]
        /\ readers' = [q \in Pipe |-> readers[q] + Cardinality(Ends(Me, q, "r"))]
        /\ writers' = [q \in Pipe |-> writers[q] + Cardinality(Ends(Me, q, "w"))]
        /\ dyn' = [dyn EXCEPT ![child] = PROCESS_DEFAULT_PRIORITY]
        /\ state' = [state EXCEPT ![child] = "READY"]
        /\ queue' = Enqueue(queue, child)
        /\ intr' = ForkFrames(child)
        /\ pc' = "deliver"
        /\ esp' = Me
        /\ UNCHANGED <<cur, tss, waited, code, sig, pend, blockVars, fill,
                       histVars>>

-----------------------------------------------------------------------------
(* SYS_EXIT, fatal page faults and the common path out of a process.       *)

(***************************************************************************)
(* process_mark_exit keeps the low byte of an exit code unless bit 31 is   *)
(* set; W_EXITCODE is the status word of waitpid.                          *)
(***************************************************************************)
MaskExit(c) == IF c >= VM_BIT THEN c ELSE c % 256

W_EXITCODE(c, s) == (c % 256) * 256 + (s % 128)

EncodedStatus(c, s) == IF s # 0 THEN W_EXITCODE(0, s) ELSE W_EXITCODE(c, 0)

(***************************************************************************)
(* What SYS_WAIT and SYS_WAITPID report for a process that ended with exit *)
(* code c and killing signal s.                                            *)
(***************************************************************************)
Reported(by, c, s) == IF by = "waitpid" THEN EncodedStatus(c, s) ELSE c

(***************************************************************************)
(* The entry of process_mark_exit(p, c): off the ready queue, the code     *)
(* stored, and on to the descriptors.                                      *)
(***************************************************************************)
MarkExit(p, c, s) ==
    /\ queue' = scheduler_remove(queue, p)
    /\ code' = [code EXCEPT ![p] = MaskExit(c)]
    /\ sig' = [sig EXCEPT ![p] = s]
    /\ log' = [log EXCEPT ![pid[p]] = [code |-> MaskExit(c), sig |-> s, dead |-> TRUE]]
    /\ pc' = "closing"

Exit(c) ==
    /\ Syscall("exit")
    /\ MarkExit(Me, c, 0)
    /\ intr' = [intr EXCEPT ![Me] = TRUE]
    /\ esp' = Me
    /\ UNCHANGED <<idVars, state, dyn, cur, tss, parent, waited, pend,
                   blockVars, fds, pipeVars, got>>

(***************************************************************************)
(* page_fault_dispatch for a user fault it cannot repair; it asks the      *)
(* scheduler, not the table, who is running.                               *)
(***************************************************************************)
FatalFault(c) ==
    /\ pc = "user"
    /\ trap' = "fault"
    /\ on' = tss
    /\ MarkExit(cur, c, 0)
    /\ esp' = cur
    /\ UNCHANGED <<idVars, state, dyn, cur, tss, intr, parent, waited, pend,
                   blockVars, fds, pipeVars, got>>

(***************************************************************************)
(* A fault that vm_handle_page_fault repairs returns to the same frame,    *)
(* through process_complete_context_switch but past signal delivery.       *)
(***************************************************************************)
HandledFault ==
    /\ pc = "user"
    /\ Faults # {}
    /\ trap' = "fault"
    /\ on' = tss
    /\ esp' = cur
    /\ pc' = "resume"
    /\ UNCHANGED <<idVars, schedVars, exitVars, pend, blockVars, fds,
                   pipeVars, histVars>>

(***************************************************************************)
(* pipe_close on end e: the last reader gone wakes one writer, the last    *)
(* writer gone wakes one reader, both gone clears the pipe.                *)
(***************************************************************************)
pipe_close(e) ==
    LET q == e.pipe
        r == IF e.end = "r" THEN readers[q] - 1 ELSE readers[q]
        w == IF e.end = "w" THEN writers[q] - 1 ELSE writers[q]
    IN  /\ readers' = [readers EXCEPT ![q] = r]
        /\ writers' = [writers EXCEPT ![q] = w]
        /\ fill' = [fill EXCEPT ![q] = IF r = 0 /\ w = 0 THEN 0 ELSE @]
        /\ scheduler_wake(IF e.end = "r" /\ r = 0 THEN Waiter(q, "write")
                          ELSE IF e.end = "w" /\ w = 0 THEN Waiter(q, "read")
                          ELSE 0)

OpenFds(p) == {f \in Fd : fds[p][f] # NoEnd}

(***************************************************************************)
(* One turn of process_fd_close_all: the lowest open descriptor.           *)
(***************************************************************************)
CloseNext ==
    /\ pc = "closing"
    /\ OpenFds(cur) # {}
    /\ LET f == Lowest(OpenFds(cur))
       IN  /\ fds' = [fds EXCEPT ![cur][f] = NoEnd]
           /\ pipe_close(fds[cur][f])
    /\ UNCHANGED <<idVars, dyn, cur, intr, tss, exitVars, pend, blockVars,
                   cpuVars, histVars>>

CloseDoneEarly ==
    /\ pc = "closing"
    /\ pc' = "notify"
    /\ UNCHANGED <<idVars, schedVars, exitVars, pend, blockVars, fds, pipeVars,
                   trap, esp, on, histVars>>

CloseDone ==
    /\ pc = "closing"
    /\ OpenFds(cur) = {}
    /\ pc' = "notify"
    /\ UNCHANGED <<idVars, schedVars, exitVars, pend, blockVars, fds, pipeVars,
                   trap, esp, on, histVars>>

(***************************************************************************)
(* The rest of process_mark_exit: the process becomes a zombie, its        *)
(* children are orphaned, and a live parent gets SIGCHLD and, if it is     *)
(* blocked in a wait that matches, the status itself.                      *)
(***************************************************************************)
WaitsForPid(p, child) ==
    /\ state[p] = "BLOCKED"
    /\ blk[p].why = "child"
    /\ blk[p].arg = pid[child]

WaitsFor(p, child) ==
    /\ state[p] = "BLOCKED"
    /\ blk[p].why = "child"
    /\ blk[p].arg \in {0, pid[child]}

OrphansForgotten(me) == {}

Orphans(me) == {p \in Slot : state[p] # "DEAD" /\ parent[p] = pid[me]}

Notify ==
    LET me == cur
        par == process_get_by_pid(parent[me])
        orphan == Orphans(me)
        heir == par # 0 /\ state[par] # "ZOMBIE"
        handoff == heir /\ WaitsFor(par, me)
        by == IF blk[par].n = 1 THEN "waitpid" ELSE "wait"
    IN  /\ pc = "notify"
        /\ parent' = [p \in Slot |-> IF p \in orphan THEN 0 ELSE parent[p]]
        /\ waited' = [p \in Slot |->
                        \/ waited[p]
                        \/ p \in orphan /\ state[p] = "ZOMBIE"
                        \/ p = me /\ (~heir \/ handoff)]
        /\ pend' = IF heir THEN [pend EXCEPT ![par] = @ \cup {CHLD}] ELSE pend
        /\ IF handoff
           THEN /\ done' = [done EXCEPT ![par] =
                               [pid |-> pid[me], by |-> by,
                                status |-> Reported(by, code[me], sig[me])]]
                /\ blk' = [blk EXCEPT ![par] = NoBlock, ![me] = NoBlock]
                /\ state' = [state EXCEPT ![me] = "ZOMBIE", ![par] = "READY"]
                /\ queue' = Enqueue(queue, par)
           ELSE /\ state' = [state EXCEPT ![me] = "ZOMBIE"]
                /\ blk' = [blk EXCEPT ![me] = NoBlock]
                /\ UNCHANGED <<done, queue>>
        /\ pc' = "stop"
        /\ UNCHANGED <<idVars, dyn, cur, intr, tss, code, sig, fds, pipeVars,
                       trap, esp, on, histVars>>

(***************************************************************************)
(* scheduler_exit_current: on to the best ready process, or 0 when there   *)
(* is none.  SYS_EXIT and signal delivery go on to deliver the signals of  *)
(* the process switched to; page_fault_dispatch returns at once.           *)
(***************************************************************************)
AfterStop == IF trap = "fault" THEN "resume" ELSE "deliver"

Stop ==
    /\ pc = "stop"
    /\ pc' = AfterStop
    /\ intr' = [intr EXCEPT ![cur] = TRUE]
    /\ \/ /\ HasNext
          /\ state' = [state EXCEPT ![Next1] = "RUNNING"]
          /\ Dispatch(dequeue_best(queue, dyn), Next1)
       \/ /\ ~HasNext
          /\ queue' = PutBack
          /\ esp' = 0
          /\ UNCHANGED <<state, dyn, cur, tss>>
    /\ UNCHANGED <<idVars, exitVars, pend, blockVars, fds, pipeVars, trap, on,
                   histVars>>

-----------------------------------------------------------------------------
(* SYS_WAIT and SYS_WAITPID *)

FreeStackLeaks(D) == stack_free

free_stack(D) == stack_free \cup {kstack[p] : p \in D}

(***************************************************************************)
(* process_destroy of the slots in D, all of them zombies.  Its            *)
(* process_fd_close_all finds nothing to close: process_mark_exit closed   *)
(* everything (ZombieHoldsNothing).                                        *)
(***************************************************************************)
process_destroy(D) ==
    /\ state' = [p \in Slot |-> IF p \in D THEN "DEAD" ELSE state[p]]
    /\ pid' = [p \in Slot |-> IF p \in D THEN 0 ELSE pid[p]]
    /\ kstack' = [p \in Slot |-> IF p \in D THEN 0 ELSE kstack[p]]
    /\ stack_free' = free_stack(D)
    /\ process_count' = process_count - Cardinality(D)
    /\ parent' = [p \in Slot |-> IF p \in D THEN 0 ELSE parent[p]]
    /\ waited' = [p \in Slot |-> p \notin D /\ waited[p]]
    /\ code' = [p \in Slot |-> IF p \in D THEN 0 ELSE code[p]]
    /\ sig' = [p \in Slot |-> IF p \in D THEN 0 ELSE sig[p]]
    /\ pend' = [p \in Slot |-> IF p \in D THEN {} ELSE pend[p]]
    /\ blk' = [p \in Slot |-> IF p \in D THEN NoBlock ELSE blk[p]]
    /\ done' = [p \in Slot |-> IF p \in D THEN NoDone ELSE done[p]]
    /\ dyn' = [p \in Slot |-> IF p \in D THEN 0 ELSE dyn[p]]

(***************************************************************************)
(* process_find_exited_child_by_pid; target 0 stands for (uint32_t)-1.     *)
(***************************************************************************)
ExitedChild(target) ==
    Lowest({p \in Slot : /\ parent[p] = pid[Me]
                         /\ state[p] = "ZOMBIE"
                         /\ ~waited[p]
                         /\ target \in {0, pid[p]}})

(***************************************************************************)
(* The test between ECHILD and waiting: process_has_child for any child,   *)
(* the parent field of the target for a given one.                         *)
(***************************************************************************)
HasChildAnyone(target) == target = 0 \/ process_get_by_pid(target) # 0

HasChild(target) ==
    IF target = 0
    THEN \E p \in Slot : state[p] # "DEAD" /\ parent[p] = pid[Me] /\ ~waited[p]
    ELSE LET t == process_get_by_pid(target)
         IN  t # 0 /\ parent[t] = pid[Me]

(***************************************************************************)
(* A child has already exited: its status is copied out and its slot is    *)
(* destroyed on the spot.                                                  *)
(***************************************************************************)
WaitCollect(by, target) ==
    LET child == ExitedChild(target)
        status == Reported(by, code[child], sig[child])
    IN  /\ Syscall(by)
        /\ child # 0
        /\ process_destroy({child})
        /\ intr' = [intr EXCEPT ![child] = FALSE, ![Me] = TRUE]
        /\ got' = [got EXCEPT ![pid[child]] =
                      Append(@, [by |-> by, status |-> status])]
        /\ pc' = "deliver"
        /\ esp' = Me
        /\ UNCHANGED <<next_pid, queue, cur, tss, fds, pipeVars, log>>

(***************************************************************************)
(* No child has exited yet but one may: the caller blocks until            *)
(* process_mark_exit hands it a status.  WNOHANG and ECHILD return at      *)
(* once: see Other.                                                        *)
(***************************************************************************)
WaitBlock(by, target) ==
    /\ Syscall(by)
    /\ ExitedChild(target) = 0
    /\ HasChild(target)
    /\ BlockCurrent([why |-> "child", arg |-> target,
                     n |-> IF by = "waitpid" THEN 1 ELSE 0])
    /\ UNCHANGED <<idVars, exitVars, pend, done, fds, pipeVars, histVars>>

-----------------------------------------------------------------------------
(* SYS_KILL only marks the target; whoever returns to it delivers.         *)

Kill(x, s) ==
    LET target == process_get_by_pid(x)
    IN  /\ Syscall("kill")
        /\ target # 0
        /\ state[target] # "ZOMBIE"
        /\ pend' = [pend EXCEPT ![target] = @ \cup {s}]
        /\ Return
        /\ UNCHANGED <<idVars, state, queue, dyn, exitVars, blockVars, fds,
                       pipeVars, histVars>>

-----------------------------------------------------------------------------
(* SYS_PIPE, SYS_READ, SYS_WRITE, SYS_CLOSE on pipe ends *)

(***************************************************************************)
(* A new pipe in the first unused slot, its ends in the two lowest free    *)
(* descriptors.  With fewer than two the handler closes what it opened     *)
(* again and fails: see Other.                                             *)
(***************************************************************************)
FreeFds(p) == {f \in Fd : fds[p][f] = NoEnd}

SysPipe ==
    LET q == Lowest({x \in Pipe : readers[x] = 0 /\ writers[x] = 0})
        rfd == Lowest(FreeFds(Me))
        wfd == Lowest(FreeFds(Me) \ {rfd})
    IN  /\ Syscall("pipe")
        /\ q # 0
        /\ rfd # 0
        /\ wfd # 0
        /\ readers' = [readers EXCEPT ![q] = 1]
        /\ writers' = [writers EXCEPT ![q] = 1]
        /\ fill' = [fill EXCEPT ![q] = 0]
        /\ fds' = [fds EXCEPT ![Me][rfd] = [pipe |-> q, end |-> "r"],
                              ![Me][wfd] = [pipe |-> q, end |-> "w"]]
        /\ Return
        /\ UNCHANGED <<idVars, state, queue, dyn, exitVars, pend, blockVars,
                       histVars>>

(***************************************************************************)
(* pipe_read of n bytes: whatever is there up to n, and one blocked writer *)
(* is woken; nothing happens on an empty pipe, whether it is at its end or *)
(* would block.                                                            *)
(***************************************************************************)
Smaller(a, b) == IF a < b THEN a ELSE b

ReadWouldBlock(q) == fill[q] = 0 /\ writers[q] > 0

PipeReadWakesReader(q, n) ==
    /\ fill' = [fill EXCEPT ![q] = @ - Smaller(n, @)]
    /\ scheduler_wake(IF fill[q] = 0 THEN 0 ELSE Waiter(q, "read"))
    /\ UNCHANGED <<readers, writers>>

pipe_read(q, n) ==
    /\ fill' = [fill EXCEPT ![q] = @ - Smaller(n, @)]
    /\ scheduler_wake(IF fill[q] = 0 THEN 0 ELSE Waiter(q, "write"))
    /\ UNCHANGED <<readers, writers>>

(***************************************************************************)
(* pipe_write of n bytes: up to PIPE_BUF all or nothing, beyond it as much *)
(* as fits, and one blocked reader is woken.  Without readers it fails.    *)
(***************************************************************************)
Space(q) == PIPE_CAPACITY - fill[q]

NoRoom(q, n) == Space(q) = 0 \/ (n <= PIPE_BUF /\ Space(q) < n)

WriteWouldBlock(q, n) == readers[q] > 0 /\ NoRoom(q, n)

pipe_write(q, n) ==
    LET fails == readers[q] = 0 \/ NoRoom(q, n)
    IN  /\ fill' = [fill EXCEPT ![q] =
                       IF fails THEN @ ELSE @ + Smaller(n, Space(q))]
        /\ scheduler_wake(IF fails THEN 0 ELSE Waiter(q, "read"))
        /\ UNCHANGED <<readers, writers>>

Read(f, n) ==
    LET e == fds[Me][f]
    IN  /\ Syscall("read")
        /\ e.end = "r"
        /\ \/ /\ ~ReadWouldBlock(e.pipe)
              /\ pipe_read(e.pipe, n)
              /\ Return
              /\ UNCHANGED <<dyn, blk>>
           \/ /\ ReadWouldBlock(e.pipe)
              /\ BlockCurrent([why |-> "read", arg |-> f, n |-> n])
              /\ UNCHANGED pipeVars
        /\ UNCHANGED <<idVars, exitVars, pend, done, fds, histVars>>

Write(f, n) ==
    LET e == fds[Me][f]
    IN  /\ Syscall("write")
        /\ e.end = "w"
        /\ \/ /\ ~WriteWouldBlock(e.pipe, n)
              /\ pipe_write(e.pipe, n)
              /\ Return
              /\ UNCHANGED <<dyn, blk>>
           \/ /\ WriteWouldBlock(e.pipe, n)
              /\ BlockCurrent([why |-> "write", arg |-> f, n |-> n])
              /\ UNCHANGED pipeVars
        /\ UNCHANGED <<idVars, exitVars, pend, done, fds, histVars>>

Close(f) ==
    /\ Syscall("close")
    /\ fds[Me][f] # NoEnd
    /\ fds' = [fds EXCEPT ![Me][f] = NoEnd]
    /\ pipe_close(fds[Me][f])
    /\ Return
    /\ UNCHANGED <<idVars, dyn, exitVars, pend, blockVars, histVars>>

(***************************************************************************)
(* Every system call that leaves this state alone: SYS_GETPID, SYS_ECHO,   *)
(* SYS_BRK, the file calls, WNOHANG with no exited child, and the calls    *)
(* above when they fail (their rollbacks restore what they had changed).   *)
(***************************************************************************)
Other ==
    /\ Syscall("other")
    /\ Return
    /\ UNCHANGED <<idVars, state, queue, dyn, exitVars, pend, blockVars, fds,
                   pipeVars, histVars>>

-----------------------------------------------------------------------------
(* The timer interrupt *)

(***************************************************************************)
(* scheduler_preempt switches when both the interrupted process and the    *)
(* best ready one have a trap frame; otherwise the interrupted one goes    *)
(* on.  Either way its signals are delivered.                              *)
(***************************************************************************)
CanPreempt == Preemption /\ queue # <<>> /\ intr[cur] /\ intr[Next1]

Timer ==
    /\ pc = "user"
    /\ trap' = "timer"
    /\ on' = tss
    /\ pc' = "deliver"
    /\ \/ /\ CanPreempt
          /\ state' = [state EXCEPT ![cur] = "READY", ![Next1] = "RUNNING"]
          /\ Dispatch(Enqueue(dequeue_best(queue, dyn), cur), Next1)
       \/ /\ ~CanPreempt
          /\ esp' = cur
          /\ UNCHANGED <<state, queue, dyn, cur, tss>>
    /\ UNCHANGED <<idVars, intr, exitVars, pend, blockVars, fds, pipeVars,
                   histVars>>

-----------------------------------------------------------------------------
(* process_deliver_signals, one turn of its loop per step *)

Delivering == pc = "deliver" /\ Me # 0 /\ esp # 0

FatalKillOnly == pend[Me] \cap {KILL}

Fatal == pend[Me] \cap {KILL, TERM}

DeliverFatal ==
    /\ Delivering
    /\ Fatal # {}
    /\ pend' = [pend EXCEPT ![Me] = @ \ {Lowest(Fatal)}]
    /\ MarkExit(Me, 0, Lowest(Fatal))
    /\ UNCHANGED <<idVars, state, dyn, cur, intr, tss, parent, waited,
                   blockVars, fds, pipeVars, trap, esp, on, got>>

DeliverChild ==
    /\ Delivering
    /\ Fatal = {}
    /\ CHLD \in pend[Me]
    /\ pend' = [pend EXCEPT ![Me] = @ \ {CHLD}]
    /\ UNCHANGED <<idVars, schedVars, exitVars, blockVars, fds, pipeVars,
                   cpuVars, histVars>>

DeliverDone ==
    /\ pc = "deliver"
    /\ Delivering => Fatal = {} /\ CHLD \notin pend[Me]
    /\ pc' = "resume"
    /\ UNCHANGED <<idVars, schedVars, exitVars, pend, blockVars, fds, pipeVars,
                   trap, esp, on, histVars>>

-----------------------------------------------------------------------------
(* The trap exit of isr.asm *)

(***************************************************************************)
(* process_complete_pipe_io: the process that is resumed retries the read  *)
(* or write it had blocked in, and takes whatever the retry gives.         *)
(***************************************************************************)
process_complete_pipe_io ==
    LET b == blk[Me]
        q == fds[Me][b.arg].pipe
    IN  /\ CASE b.why = "read" -> pipe_read(q, b.n)
             [] b.why = "write" -> pipe_write(q, b.n)
             [] OTHER -> UNCHANGED <<pipeVars, state, queue>>
        /\ blk' = IF b.why \in {"read", "write"}
                  THEN [blk EXCEPT ![Me] = NoBlock]
                  ELSE blk

(***************************************************************************)
(* A wait that was completed while its caller slept: the status is copied  *)
(* to the caller's memory, once.                                           *)
(***************************************************************************)
GiveStatus ==
    got' = IF done[Me] = NoDone THEN got
           ELSE [got EXCEPT ![done[Me].pid] =
                    Append(@, [by |-> done[Me].by, status |-> done[Me].status])]

CompleteWaitAgain == GiveStatus /\ UNCHANGED done

CompleteWait == GiveStatus /\ done' = [done EXCEPT ![Me] = NoDone]

(***************************************************************************)
(* mov esp, eax; then process_complete_context_switch, which first gives   *)
(* the resumed process the result of the call it had blocked in.           *)
(***************************************************************************)
Resume ==
    /\ pc = "resume"
    /\ esp # 0
    /\ on' = kstack[esp]
    /\ pc' = "reap"
    /\ CompleteWait
    /\ process_complete_pipe_io
    /\ UNCHANGED <<idVars, dyn, cur, intr, tss, exitVars, pend, fds, trap, esp,
                   log>>

(***************************************************************************)
(* The end of process_complete_context_switch: every zombie nobody will    *)
(* wait for is destroyed, and the trap returns to user mode.               *)
(***************************************************************************)
UnclaimedOrphans(p) ==
    /\ state[p] = "ZOMBIE"
    /\ p # Me
    /\ process_get_by_pid(parent[p]) = 0

Unclaimed(p) ==
    LET par == process_get_by_pid(parent[p])
    IN  /\ state[p] = "ZOMBIE"
        /\ p # Me
        /\ \/ waited[p]
           \/ par = 0
           \/ state[par] = "ZOMBIE"

Reap ==
    LET D == {p \in Slot : Unclaimed(p)}
    IN  /\ pc = "reap"
        /\ process_destroy(D)
        /\ intr' = [p \in Slot |-> p \notin D /\ intr[p]]
        /\ pc' = "user"
        /\ UNCHANGED <<next_pid, queue, cur, tss, fds, pipeVars, trap, esp,
                       on, histVars>>

(***************************************************************************)
(* No frame to return to.  The system call and page-fault stubs test for   *)
(* it and halt; the timer stub loads esp from it all the same.             *)
(***************************************************************************)
NoFrame ==
    /\ pc = "resume"
    /\ esp = 0
    /\ pc' = IF trap = "timer" THEN "wild" ELSE "halted"
    /\ UNCHANGED <<idVars, schedVars, exitVars, pend, blockVars, fds, pipeVars,
                   trap, esp, on, histVars>>

(***************************************************************************)
(* cli; hlt; jmp .halt                                                     *)
(***************************************************************************)
Halted ==
    /\ pc \in {"halted", "wild"}
    /\ UNCHANGED vars

-----------------------------------------------------------------------------
UserStep ==
    \/ Fork
    \/ \E c \in ExitCodes : Exit(c)
    \/ \E c \in Faults : FatalFault(c)
    \/ HandledFault
    \/ \E t \in Pid \cup {0} : WaitCollect("waitpid", t)
    \/ \E t \in Pid \cup {0} : WaitBlock("waitpid", t)
    \/ WaitCollect("wait", 0)
    \/ WaitBlock("wait", 0)
    \/ \E x \in Pid, s \in Signals : Kill(x, s)
    \/ SysPipe
    \/ \E f \in Fd, n \in Counts : Read(f, n)
    \/ \E f \in Fd, n \in Counts : Write(f, n)
    \/ \E f \in Fd : Close(f)
    \/ Other

KernelStep ==
    \/ CloseNext \/ CloseDone \/ Notify \/ Stop
    \/ DeliverFatal \/ DeliverChild \/ DeliverDone
    \/ Resume \/ Reap \/ NoFrame

Next == UserStep \/ Timer \/ KernelStep \/ Halted

Spec == Init /\ [][Next]_vars

(***************************************************************************)
(* The kernel runs a trap to its end, and a timer interrupt that is        *)
(* pending when user mode resumes is taken sooner or later.                *)
(***************************************************************************)
FairSpec == Spec /\ WF_vars(KernelStep) /\ SF_vars(Timer)

-----------------------------------------------------------------------------
(* Properties *)

ProcessState == {"DEAD", "READY", "RUNNING", "BLOCKED", "ZOMBIE"}
PipeEnd == [pipe : Pipe, end : {"r", "w"}] \cup {NoEnd}

(* Every field of the process table, the queue and the CPU stays in the     *)
(* range the C code relies on.  (The three counters are integers here, so   *)
(* that one taken below zero would show: ProcessResources and PipeRefs say  *)
(* what they count.)                                                        *)
TypeOK ==
    /\ state \in [Slot -> ProcessState]
    /\ pid \in [Slot -> Nat]
    /\ parent \in [Slot -> Nat]
    /\ waited \in [Slot -> BOOLEAN]
    /\ code \in [Slot -> Nat]
    /\ sig \in [Slot -> {0, KILL, TERM}]
    /\ pend \in [Slot -> SUBSET Signal]
    /\ blk \in [Slot -> [why : {"none", "child", "read", "write"}, arg : Nat, n : Nat]]
    /\ done \in [Slot -> [pid : Nat, by : {"none", "wait", "waitpid"}, status : Nat]]
    /\ fds \in [Slot -> [Fd -> PipeEnd]]
    /\ intr \in [Slot -> BOOLEAN]
    /\ kstack \in [Slot -> Stack \cup {0}]
    /\ dyn \in [Slot -> 0 .. PROCESS_MAX_PRIORITY]
    /\ next_pid \in Nat
    /\ process_count \in Int
    /\ stack_free \in SUBSET Stack
    /\ queue \in Seq(Slot)
    /\ cur \in Slot
    /\ readers \in [Pipe -> Int]
    /\ writers \in [Pipe -> Int]
    /\ fill \in [Pipe -> 0 .. PIPE_CAPACITY]
    /\ pc \in {"user", "closing", "notify", "stop", "deliver", "resume", "reap", "halted", "wild"}
    /\ trap \in {"none", "syscall", "timer", "fault"}
    /\ esp \in Slot \cup {0}
    /\ tss \in Stack
    /\ on \in Stack
    /\ log \in [Pid -> [code : Nat, sig : {0, KILL, TERM}, dead : BOOLEAN]]
    /\ got \in [Pid -> Seq([by : {"none", "wait", "waitpid"}, status : Nat])]

Live(p) == state[p] \notin {"DEAD", "ZOMBIE"}

(* The scheduler's current and the RUNNING entry of the process table are   *)
(* two records of one fact: at most one process runs, it is current, and    *)
(* user mode is only ever entered as that process, on its own frame.        *)
RunningIsCurrent ==
    /\ \A p \in Slot : state[p] = "RUNNING" => p = cur
    /\ pc \in {"closing", "notify", "reap", "user"} => state[cur] = "RUNNING"
    /\ pc \in {"reap", "user"} => esp = cur
    /\ pc \in {"deliver", "resume"} /\ esp # 0 => state[cur] = "RUNNING" /\ esp = cur

(* The ready queue holds every READY process exactly once and nothing else: *)
(* enqueue never meets a process that is linked already, and no path puts a *)
(* process to READY without queueing it or leaves a stopped one linked.     *)
QueueIsReady ==
    /\ NoRepeat(queue)
    /\ Queued(queue) = {p \in Slot : state[p] = "READY"}

(* Whatever the scheduler may pick can be resumed by a trap return: every   *)
(* process that waits for the CPU or for an event has a full trap frame.    *)
ResumableFrames == \A p \in Slot : state[p] \in {"READY", "BLOCKED"} => intr[p]

(* A slot of stack_pool belongs to at most one process, and the free bitmap *)
(* is exactly the slots nobody owns.                                        *)
StacksOwned ==
    /\ \A p \in Slot : kstack[p] = 0 <=> state[p] = "DEAD"
    /\ \A p, o \in Slot : kstack[p] = kstack[o] /\ kstack[p] # 0 => p = o
    /\ stack_free = Stack \ {kstack[p] : p \in Slot}

(* The kernel never runs on a stack it has given back, though it destroys   *)
(* processes and switches stacks within one trap; and the stack the next    *)
(* trap will use is the one of the process that runs.                       *)
OnLiveStack ==
    /\ pc # "user" => on \notin stack_free
    /\ pc \in {"user", "reap"} => tss = kstack[cur] /\ on = kstack[cur]

(* process_count, which fork tests, is the number of slots in use.          *)
CountIsLive == process_count = Cardinality({p \in Slot : state[p] # "DEAD"})

(* What fork takes and process_destroy gives back is accounted for exactly: *)
(* slots, kernel stacks and the process count, whichever of the three ways  *)
(* (collected, handed off, reaped) a process leaves.                        *)
ProcessResources == StacksOwned /\ CountIsLive

(* Nothing outlives a process: a zombie has no open pipe end, and a dead    *)
(* slot keeps no pid, parent, signal or block reason for its next owner.    *)
ZombieHoldsNothing ==
    \A p \in Slot :
        /\ ~Live(p) => OpenFds(p) = {} /\ blk[p] = NoBlock
        /\ state[p] = "DEAD" =>
              /\ pid[p] = 0 /\ parent[p] = 0 /\ pend[p] = {} /\ ~waited[p]
              /\ done[p] = NoDone

(* The reader and writer counts of a pipe are the number of descriptors     *)
(* open on each of its ends over all processes, through fork, close, exit   *)
(* and kill in any order: a pipe is neither freed early nor leaked.         *)
Holders(q, e) == {pf \in Slot \X Fd : fds[pf[1]][pf[2]] = [pipe |-> q, end |-> e]}

PipeRefs ==
    \A q \in Pipe : /\ readers[q] = Cardinality(Holders(q, "r"))
                    /\ writers[q] = Cardinality(Holders(q, "w"))

(* A parent field names a live process or nobody: exit orphans its children *)
(* in the same trap, so no wait or SIGCHLD can go to a later process.       *)
ParentsLive ==
    /\ \A p \in Slot : parent[p] # 0 =>
          \E o \in Slot : Live(o) /\ o # p /\ pid[o] = parent[p]
    /\ \A p, o \in Slot : pid[p] = pid[o] /\ pid[p] # 0 => p = o

(* Between traps every zombie is one its living parent can still collect,   *)
(* and that parent is not asleep waiting for it: no exit is missed.         *)
ZombiesWaitable ==
    pc = "user" =>
        \A p \in Slot : state[p] = "ZOMBIE" =>
            \E o \in Slot : /\ Live(o) /\ pid[o] = parent[p]
                            /\ ~waited[p] /\ ~WaitsFor(o, p)

(* A process asleep in wait or waitpid has a child that will end the wait:  *)
(* one that is alive and that the wait matches.                             *)
WaitersHaveChild ==
    \A p \in Slot : state[p] = "BLOCKED" /\ blk[p].why = "child" =>
        \E c \in Slot : /\ Live(c)
                        /\ parent[c] = pid[p]
                        /\ blk[p].arg \in {0, pid[c]}

(* A parent is given the status of a child at most once, and it is what     *)
(* that child ended with, whether it collected a zombie or was handed the   *)
(* status while asleep.                                                     *)
CollectedOnce ==
    \A x \in Pid :
        /\ Len(got[x]) <= 1
        /\ \A i \in DOMAIN got[x] :
              /\ log[x].dead
              /\ got[x][i].status = Reported(got[x][i].by, log[x].code, log[x].sig)

(* A process asleep on a pipe, and whether what it waits for has come: to a *)
(* reader bytes or the end of file, to a writer room or EPIPE.              *)
AsleepOn(p, q, why) ==
    state[p] = "BLOCKED" /\ blk[p].why = why /\ fds[p][blk[p].arg].pipe = q

Stranded(p) ==
    \E q \in Pipe :
        \/ AsleepOn(p, q, "read") /\ ~ReadWouldBlock(q)
        \/ AsleepOn(p, q, "write") /\ ~WriteWouldBlock(q, blk[p].n)

(* The step wakes another process that sleeps where p does.                 *)
WakesForIt(p) ==
    \E o \in Slot \ {p}, q \in Pipe, why \in {"read", "write"} :
        AsleepOn(p, q, why) /\ AsleepOn(o, q, why) /\ state'[o] # "BLOCKED"

(* No wake-up is lost.  Nobody falls asleep on a pipe that is ready for it, *)
(* and no step, of a read, a write, a retry, a close or an exit, makes a    *)
(* pipe ready for a sleeper and lets it sleep, unless it wakes another one  *)
(* that slept at the same end: process_wake_pipe_waiter wakes one.          *)
NoLostPipeWakeup ==
    [][\A p \in Slot : ~Stranded(p) /\ Stranded(p)' => WakesForIt(p)]_vars

(* A process whose read blocks gets its end-of-file once the last write end *)
(* is closed.                                                               *)
AtEof(p) ==
    /\ state[p] = "BLOCKED"
    /\ blk[p].why = "read"
    /\ fill[fds[p][blk[p].arg].pipe] = 0
    /\ writers[fds[p][blk[p].arg].pipe] = 0

EofDetected == \A p \in Slot : AtEof(p) ~> state[p] # "BLOCKED"

(* Signal delivery terminates the target on its way to user mode: user code *)
(* never runs with SIGKILL or SIGTERM pending.                              *)
SignalsDelivered == pc = "user" => Fatal = {}

Stopped == pc \in {"halted", "wild"}

(* There is no idle task: with nobody to switch to, the CPU halts for good. *)
(* It never does so while a process could run, nor because parents and      *)
(* children only wait for each other: whoever is left sleeps, and from      *)
(* every sleeper on there is one, no older, that sleeps on a pipe.          *)
HaltsWhenDone ==
    Stopped => \A p \in Slot : Live(p) =>
                   /\ state[p] = "BLOCKED"
                   /\ \E o \in Slot : /\ state[o] = "BLOCKED"
                                      /\ blk[o].why \in {"read", "write"}
                                      /\ pid[o] >= pid[p]

(* With preemption on, no process waits for the CPU for ever.               *)
ReadyRuns ==
    \A p \in Slot : state[p] = "READY" ~> (state[p] # "READY" \/ Stopped)

(* A process that has been sent SIGKILL or SIGTERM and is not asleep in a   *)
(* system call dies.                                                        *)
KilledDies ==
    \A p \in Slot :
        (state[p] \in {"READY", "RUNNING"} /\ pend[p] \cap {KILL, TERM} # {})
            ~> (~Live(p) \/ Stopped)

=============================================================================
