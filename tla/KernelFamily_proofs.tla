-------------------------- MODULE KernelFamily_proofs --------------------------
(***************************************************************************)
(* Parents and children: pids are never confused, a parent field names a   *)
(* living process, nothing outlives a process, no exit is missed by a      *)
(* waiting parent, no status is delivered twice, and no wake-up is lost on *)
(* a pipe.                                                                 *)
(*                                                                         *)
(* Only fork, process_destroy and process_mark_exit change who is related  *)
(* to whom; every other step is Steady, which is shown once, action by     *)
(* action, and used by all the invariants.                                 *)
(***************************************************************************)
EXTENDS Kernel_proofs

-----------------------------------------------------------------------------
(* What the other steps leave alone *)

SameProcs ==
    \A p \in Slot : /\ state'[p] = "DEAD" <=> state[p] = "DEAD"
                    /\ state'[p] = "ZOMBIE" <=> state[p] = "ZOMBIE"

Steady ==
    /\ UNCHANGED <<pid, parent, next_pid, waited>>
    /\ SameProcs
    /\ \A p \in Slot : ~Live(p) => fds'[p] = fds[p] /\ blk'[p] = blk[p]
    /\ \A p \in Slot : state[p] = "DEAD" => pend'[p] = pend[p] /\ done'[p] = done[p]
    /\ pc' = "notify" => OpenFds(cur)' = {} \/ UNCHANGED <<pc, cur, fds>>
    /\ pc' = "user" => UNCHANGED <<state, blk, pc>>
    /\ \A p \in Slot : state'[p] = "BLOCKED" =>
           blk'[p].why # "none" \/ (state[p] = "BLOCKED" /\ blk'[p] = blk[p])

WaitsKept ==
    \A p \in Slot : state'[p] = "BLOCKED" /\ blk'[p].why = "child" =>
                        state[p] = "BLOCKED" /\ blk'[p] = blk[p]

(* Waking a process leaves it alive, and is the waking of one that slept.   *)
LEMMA WakeSame ==
    ASSUME SchedInv, NEW w \in Slot \cup {0}, w # 0 => state[w] = "BLOCKED",
           scheduler_wake(w)
    PROVE  /\ SameProcs
           /\ \A p \in Slot : state'[p] = "BLOCKED" => state[p] = "BLOCKED"
<1>1. \A p \in Slot : state'[p] = IF p = w THEN "READY" ELSE state[p]
  BY WakeFacts DEF SchedInv
<1>2. ASSUME NEW p \in Slot
      PROVE  /\ state'[p] = "DEAD" <=> state[p] = "DEAD"
             /\ state'[p] = "ZOMBIE" <=> state[p] = "ZOMBIE"
             /\ state'[p] = "BLOCKED" => state[p] = "BLOCKED"
  <2>1. CASE p = w
    <3>1. state'[p] = "READY" /\ state[p] = "BLOCKED"
      BY <1>1, <2>1 DEF Slot
    <3>. QED BY <3>1
  <2>2. CASE p # w
    <3>1. state'[p] = state[p]
      BY <1>1, <2>2
    <3>. QED BY <3>1
  <2>. QED BY <2>1, <2>2
<1>. QED BY <1>2 DEF SameProcs

(* A switch between two processes leaves both alive.                        *)
LEMMA SwitchSame ==
    ASSUME SchedInv, queue # <<>>, state[cur] = "RUNNING",
           NEW s \in {"READY", "BLOCKED"},
           state' = [state EXCEPT ![cur] = s, ![Next1] = "RUNNING"]
    PROVE  /\ SameProcs
           /\ \A p \in Slot : state'[p] = "BLOCKED" =>
                                  (p = cur /\ s = "BLOCKED") \/ (p # cur /\ state[p] = "BLOCKED")
           /\ \A p \in Slot : p # cur /\ p # Next1 => state'[p] = state[p]
           /\ state'[Next1] = "RUNNING" /\ Next1 # cur
           /\ state'[cur] = s
<1>1. Next1 \in Slot /\ state[Next1] = "READY" /\ Next1 # cur /\ cur \in Slot
  BY NextFacts DEF SchedInv, SchedType
<1>2. /\ state'[Next1] = "RUNNING" /\ state'[cur] = s
      /\ \A p \in Slot : p # cur /\ p # Next1 => state'[p] = state[p]
  BY <1>1 DEF SchedInv, SchedType
<1>3. ASSUME NEW p \in Slot
      PROVE  /\ state'[p] = "DEAD" <=> state[p] = "DEAD"
             /\ state'[p] = "ZOMBIE" <=> state[p] = "ZOMBIE"
             /\ state'[p] = "BLOCKED" =>
                   (p = cur /\ s = "BLOCKED") \/ (p # cur /\ state[p] = "BLOCKED")
  <2>1. CASE p = cur
    <3>1. state'[p] = s /\ state[p] = "RUNNING"
      BY <1>2, <2>1
    <3>. QED BY <2>1, <3>1
  <2>2. CASE p = Next1
    <3>1. state'[p] = "RUNNING" /\ state[p] = "READY"
      BY <1>1, <1>2, <2>2
    <3>. QED BY <3>1
  <2>3. CASE p # cur /\ p # Next1
    <3>1. state'[p] = state[p]
      BY <1>2, <2>3
    <3>. QED BY <2>3, <3>1
  <2>. QED BY <2>1, <2>2, <2>3
<1>. QED BY <1>1, <1>2, <1>3 DEF SameProcs

(* A blocking call puts the caller to sleep for b or changes nothing.       *)
LEMMA BlockSame ==
    ASSUME SchedInv, TypeOK, pc = "user", NEW b, BlockCurrent(b)
    PROVE  /\ SameProcs
           /\ \A p \in Slot : p # cur => blk'[p] = blk[p]
           /\ \/ /\ state'[cur] = "BLOCKED" /\ blk'[cur] = b
                 /\ \A p \in Slot : p # cur /\ state'[p] = "BLOCKED" => state[p] = "BLOCKED"
              \/ UNCHANGED <<state, blk>>
<1>1. cur \in Slot /\ state[cur] = "RUNNING" /\ Me = cur
  BY UserFacts
<1>2. CASE queue # <<>>
  <2>1. HasNext
    BY <1>2, NextFacts DEF SchedInv
  <2>2. /\ state' = [state EXCEPT ![cur] = "BLOCKED", ![Next1] = "RUNNING"]
        /\ blk' = [blk EXCEPT ![cur] = b]
    BY <1>1, <2>1 DEF BlockCurrent
  <2>3. /\ blk'[cur] = b
        /\ \A p \in Slot : p # cur => blk'[p] = blk[p]
    BY <1>1, <2>2 DEF TypeOK
  <2>. QED BY <1>1, <1>2, <2>2, <2>3, SwitchSame
<1>3. CASE queue = <<>>
  <2>1. UNCHANGED <<state, blk>>
    BY <1>3 DEF BlockCurrent, HasNext
  <2>. QED BY <2>1 DEF SameProcs
<1>. QED BY <1>2, <1>3

(* A step of the running process that changes its own descriptors, block    *)
(* reason and completion, sends no signal to a free slot and neither kills  *)
(* nor makes a process, is Steady.                                          *)
LEMMA OwnFields ==
    ASSUME SchedInv, Live(cur), UNCHANGED <<pid, parent, next_pid, waited>>, SameProcs,
           \A p \in Slot : p # cur => fds'[p] = fds[p] /\ blk'[p] = blk[p] /\ done'[p] = done[p],
           \A p \in Slot : ~Live(p) => pend'[p] = pend[p],
           \A p \in Slot : p # cur /\ state'[p] = "BLOCKED" => state[p] = "BLOCKED",
           state'[cur] = "BLOCKED" => blk'[cur].why # "none" \/ UNCHANGED <<state, blk>>,
           pc' \notin {"user", "notify"}
    PROVE  Steady
BY DEF Steady, Live

(* A step after which the caller is not asleep on a child, and that puts    *)
(* nobody else to sleep, makes no new wait.                                 *)
LEMMA NoNewWait ==
    ASSUME \A p \in Slot : p # cur => blk'[p] = blk[p],
           \A p \in Slot : p # cur /\ state'[p] = "BLOCKED" => state[p] = "BLOCKED",
           state'[cur] = "BLOCKED" => blk'[cur].why # "child"
    PROVE  WaitsKept
BY DEF WaitsKept

(* A step that changes neither the table nor a block reason, nor any        *)
(* descriptor but those of the running process.                             *)
LEMMA QuietFamily ==
    ASSUME SchedInv, state[cur] = "RUNNING",
           UNCHANGED <<pid, parent, next_pid, waited, state, blk, done>>,
           \A p \in Slot : p # cur => fds'[p] = fds[p],
           \A p \in Slot : ~Live(p) => pend'[p] = pend[p],
           pc' \notin {"user", "notify"}
    PROVE  Steady /\ WaitsKept
<1>1. Live(cur) /\ SameProcs
  BY DEF Live, SameProcs
<1>. QED BY <1>1, OwnFields DEF WaitsKept

(* The same for a step that also wakes a sleeper.                           *)
LEMMA WakeFamily ==
    ASSUME SchedInv, state[cur] = "RUNNING",
           NEW w \in Slot \cup {0}, w # 0 => state[w] = "BLOCKED",
           scheduler_wake(w),
           UNCHANGED <<pid, parent, next_pid, waited, pend>>,
           \A p \in Slot : p # cur => fds'[p] = fds[p] /\ blk'[p] = blk[p] /\ done'[p] = done[p],
           pc' \notin {"user", "notify"}
    PROVE  Steady /\ WaitsKept
<1>1. SameProcs /\ \A p \in Slot : state'[p] = "BLOCKED" => state[p] = "BLOCKED"
  BY WakeSame
<1>2. Live(cur) /\ cur \in Slot
  BY DEF Live, SchedInv, SchedType
<1>. QED BY <1>1, <1>2, OwnFields, NoNewWait

(* A blocking call is Steady; it makes a new wait only if it is for a child.*)
LEMMA BlockFamily ==
    ASSUME SchedInv, TypeOK, pc = "user", NEW b, b.why # "none", BlockCurrent(b),
           UNCHANGED <<pid, parent, next_pid, waited, pend, done, fds>>
    PROVE  Steady /\ (b.why # "child" => WaitsKept)
<1>1. Live(cur) /\ state[cur] = "RUNNING" /\ cur \in Slot
  BY UserFacts DEF Live
<1>2. /\ SameProcs
      /\ \A p \in Slot : p # cur => blk'[p] = blk[p]
      /\ \/ /\ state'[cur] = "BLOCKED" /\ blk'[cur] = b
            /\ \A p \in Slot : p # cur /\ state'[p] = "BLOCKED" => state[p] = "BLOCKED"
         \/ UNCHANGED <<state, blk>>
  BY BlockSame
<1>3. pc' = "deliver"
  BY DEF BlockCurrent
<1>4. Steady
  BY <1>1, <1>2, <1>3, OwnFields
<1>. QED BY <1>1, <1>2, <1>4, NoNewWait

(* The lookup by pid finds a slot in use with that pid, if there is one.    *)
LEMMA ByPidFacts ==
    ASSUME NEW x
    PROVE  LET g == process_get_by_pid(x)
           IN  /\ g # 0 => g \in Slot /\ pid[g] = x /\ state[g] # "DEAD" /\ x # 0
               /\ g = 0 /\ x # 0 => \A p \in Slot : pid[p] = x => state[p] = "DEAD"
<1>. DEFINE Z == {p \in Slot : pid[p] = x /\ state[p] # "DEAD"}
<1>1. Z \subseteq Nat
  BY DEF Slot
<1>2. 0 \notin Z
  BY DEF Slot
<1>3. (Z = {} => Lowest(Z) = 0) /\ (Z # {} => Lowest(Z) \in Z)
  BY <1>1, LowestFacts
<1>. QED BY <1>2, <1>3 DEF process_get_by_pid

Collects == \E by \in {"wait", "waitpid"}, t \in Pid \cup {0} : WaitCollect(by, t)
Waits    == \E by \in {"wait", "waitpid"}, t \in Pid \cup {0} : WaitBlock(by, t)

(* What a user program can make the kernel do at a trap entry, apart from   *)
(* fork and the collection of a child, is Steady; only wait starts a wait.  *)
LEMMA UserFamily ==
    ASSUME SchedInv, TypeOK, UserStep
    PROVE  \/ Fork \/ Collects
           \/ Steady /\ (Waits \/ WaitsKept)
<1>0. pc = "user"
  BY DEF UserStep, Fork, Exit, FatalFault, HandledFault, WaitCollect, WaitBlock, Kill,
         SysPipe, Read, Write, Close, Other, Syscall
<1>1. cur \in Slot /\ state[cur] = "RUNNING" /\ Me = cur
  BY <1>0, UserFacts
<1>2. ASSUME NEW c \in ExitCodes, Exit(c) PROVE Steady /\ WaitsKept
  <2>1. /\ UNCHANGED <<pid, parent, next_pid, waited, state, blk, done, fds, pend>>
        /\ pc' = "closing"
    BY <1>2 DEF Exit, MarkExit, idVars, blockVars
  <2>. QED BY <1>1, <2>1, QuietFamily
<1>3. ASSUME NEW c \in Faults, FatalFault(c) PROVE Steady /\ WaitsKept
  <2>1. /\ UNCHANGED <<pid, parent, next_pid, waited, state, blk, done, fds, pend>>
        /\ pc' = "closing"
    BY <1>3 DEF FatalFault, MarkExit, idVars, blockVars
  <2>. QED BY <1>1, <2>1, QuietFamily
<1>4. CASE HandledFault
  <2>1. /\ UNCHANGED <<pid, parent, next_pid, waited, state, blk, done, fds, pend>>
        /\ pc' = "resume"
    BY <1>4 DEF HandledFault, idVars, schedVars, exitVars, blockVars
  <2>. QED BY <1>1, <1>4, <2>1, QuietFamily
<1>5. ASSUME NEW by \in {"wait", "waitpid"}, NEW t \in Pid \cup {0}, WaitBlock(by, t)
      PROVE  Steady /\ Waits
  <2>1. PICK b : b.why # "none" /\ BlockCurrent(b)
    BY <1>5 DEF WaitBlock
  <2>2. UNCHANGED <<pid, parent, next_pid, waited, pend, done, fds>>
    BY <1>5 DEF WaitBlock, idVars, exitVars
  <2>3. Steady
    BY <1>0, <2>1, <2>2, BlockFamily
  <2>. QED BY <1>5, <2>3 DEF Waits
<1>6. ASSUME NEW x, NEW s, Kill(x, s) PROVE Steady /\ WaitsKept
  <2>. DEFINE g == process_get_by_pid(x)
  <2>1. /\ UNCHANGED <<pid, parent, next_pid, waited, state, blk, done, fds>>
        /\ pc' = "deliver"
        /\ g # 0 /\ state[g] # "ZOMBIE"
        /\ pend' = [pend EXCEPT ![g] = @ \cup {s}]
    BY <1>6 DEF Kill, Return, idVars, exitVars, blockVars
  <2>2. g \in Slot /\ state[g] # "DEAD"
    BY <2>1, ByPidFacts
  <2>. HIDE DEF g
  <2>3. \A p \in Slot : ~Live(p) => pend'[p] = pend[p]
    BY <2>1, <2>2 DEF Live, TypeOK
  <2>. QED BY <1>1, <2>1, <2>3, QuietFamily
<1>7. CASE SysPipe
  <2>1. /\ UNCHANGED <<pid, parent, next_pid, waited, state, blk, done, pend>>
        /\ pc' = "deliver"
        /\ \E q, r, w : fds' = [fds EXCEPT ![cur][r] = [pipe |-> q, end |-> "r"],
                                          ![cur][w] = [pipe |-> q, end |-> "w"]]
    BY <1>1, <1>7 DEF SysPipe, Return, idVars, exitVars, blockVars
  <2>2. \A p \in Slot : p # cur => fds'[p] = fds[p]
    BY <1>1, <2>1 DEF TypeOK
  <2>. QED BY <1>1, <2>1, <2>2, QuietFamily
<1>8. ASSUME NEW f \in Fd, NEW n \in Counts, Read(f, n) PROVE Steady /\ WaitsKept
  <2>1. UNCHANGED <<pid, parent, next_pid, waited, pend, done, fds>>
    BY <1>8 DEF Read, idVars, exitVars
  <2>2. CASE BlockCurrent([why |-> "read", arg |-> f, n |-> n])
    BY <1>0, <2>1, <2>2, BlockFamily
  <2>3. CASE ~BlockCurrent([why |-> "read", arg |-> f, n |-> n])
    <3>1. pipe_read(fds[Me][f].pipe, n) /\ blk' = blk /\ pc' = "deliver"
      BY <1>8, <2>3 DEF Read, Return
    <3>2. PICK w \in Slot \cup {0} : (w # 0 => state[w] = "BLOCKED") /\ scheduler_wake(w)
      BY <3>1, PipeReadWakes DEF SchedInv
    <3>. QED BY <1>1, <2>1, <3>1, <3>2, WakeFamily
  <2>. QED BY <2>2, <2>3
<1>9. ASSUME NEW f \in Fd, NEW n \in Counts, Write(f, n) PROVE Steady /\ WaitsKept
  <2>1. UNCHANGED <<pid, parent, next_pid, waited, pend, done, fds>>
    BY <1>9 DEF Write, idVars, exitVars
  <2>2. CASE BlockCurrent([why |-> "write", arg |-> f, n |-> n])
    BY <1>0, <2>1, <2>2, BlockFamily
  <2>3. CASE ~BlockCurrent([why |-> "write", arg |-> f, n |-> n])
    <3>1. pipe_write(fds[Me][f].pipe, n) /\ blk' = blk /\ pc' = "deliver"
      BY <1>9, <2>3 DEF Write, Return
    <3>2. PICK w \in Slot \cup {0} : (w # 0 => state[w] = "BLOCKED") /\ scheduler_wake(w)
      BY <3>1, PipeWriteWakes DEF SchedInv
    <3>. QED BY <1>1, <2>1, <3>1, <3>2, WakeFamily
  <2>. QED BY <2>2, <2>3
<1>10. ASSUME NEW f \in Fd, Close(f) PROVE Steady /\ WaitsKept
  <2>1. /\ UNCHANGED <<pid, parent, next_pid, waited, pend, blk, done>>
        /\ fds' = [fds EXCEPT ![cur][f] = NoEnd]
        /\ pipe_close(fds[cur][f]) /\ pc' = "deliver"
    BY <1>1, <1>10 DEF Close, Return, idVars, exitVars, blockVars
  <2>2. \A p \in Slot : p # cur => fds'[p] = fds[p]
    BY <1>1, <2>1 DEF TypeOK
  <2>3. PICK w \in Slot \cup {0} : (w # 0 => state[w] = "BLOCKED") /\ scheduler_wake(w)
    BY <2>1, PipeCloseWakes DEF SchedInv
  <2>. QED BY <1>1, <2>1, <2>2, <2>3, WakeFamily
<1>11. CASE Other
  <2>1. /\ UNCHANGED <<pid, parent, next_pid, waited, state, blk, done, fds, pend>>
        /\ pc' = "deliver"
    BY <1>11 DEF Other, Return, idVars, exitVars, blockVars
  <2>. QED BY <1>1, <2>1, QuietFamily
<1>12. 0 \in Pid \cup {0}
  OBVIOUS
<1>13. (\E t \in Pid \cup {0} : WaitCollect("waitpid", t)) \/ WaitCollect("wait", 0) => Collects
  BY <1>12 DEF Collects
<1>14. (\E t \in Pid \cup {0} : WaitBlock("waitpid", t)) \/ WaitBlock("wait", 0)
       => Steady /\ Waits
  BY <1>5, <1>12
<1>. QED
  BY <1>2, <1>3, <1>4, <1>6, <1>7, <1>8, <1>9, <1>10, <1>11, <1>13, <1>14 DEF UserStep

(* The timer tick swaps two live processes or does nothing.                 *)
LEMMA TimerFamily ==
    ASSUME SchedInv, TypeOK, Timer
    PROVE  Steady /\ WaitsKept
<1>1. /\ cur \in Slot /\ state[cur] = "RUNNING"
      /\ UNCHANGED <<pid, parent, next_pid, waited, blk, done, fds, pend>>
      /\ pc' = "deliver"
  BY UserFacts DEF Timer, idVars, exitVars, blockVars
<1>2. CASE ~CanPreempt
  <2>1. state' = state
    BY <1>2 DEF Timer
  <2>. QED BY <1>1, <2>1, QuietFamily
<1>3. CASE CanPreempt
  <2>1. /\ queue # <<>>
        /\ state' = [state EXCEPT ![cur] = "READY", ![Next1] = "RUNNING"]
    BY <1>3 DEF Timer, CanPreempt
  <2>2. /\ SameProcs
        /\ state'[cur] = "READY"
        /\ \A p \in Slot : p # cur /\ state'[p] = "BLOCKED" => state[p] = "BLOCKED"
    BY <1>1, <2>1, SwitchSame
  <2>3. Live(cur)
    BY <1>1 DEF Live
  <2>. QED BY <1>1, <2>2, <2>3, OwnFields, NoNewWait
<1>. QED BY <1>2, <1>3

(* The later steps of a trap, apart from process_mark_exit turning the      *)
(* process into a zombie and the reaping of zombies, are Steady.            *)
LEMMA KernelFamily ==
    ASSUME SchedInv, TypeOK, KernelStep
    PROVE  Notify \/ Reap \/ (Steady /\ WaitsKept)
<1>1. CASE CloseNext
  <2>. DEFINE f == Lowest(OpenFds(cur))
  <2>1. /\ UNCHANGED <<pid, parent, next_pid, waited, pend, blk, done, pc>>
        /\ fds' = [fds EXCEPT ![cur][f] = NoEnd]
        /\ pipe_close(fds[cur][f]) /\ pc = "closing"
    BY <1>1 DEF CloseNext, idVars, exitVars, blockVars, cpuVars
  <2>. HIDE DEF f
  <2>2. cur \in Slot /\ state[cur] = "RUNNING"
    BY <2>1 DEF SchedInv, SchedType, RunningIsCurrent
  <2>3. \A p \in Slot : p # cur => fds'[p] = fds[p]
    BY <2>1, <2>2 DEF TypeOK
  <2>4. PICK w \in Slot \cup {0} : (w # 0 => state[w] = "BLOCKED") /\ scheduler_wake(w)
    BY <2>1, PipeCloseWakes DEF SchedInv
  <2>. QED BY <2>1, <2>2, <2>3, <2>4, WakeFamily
<1>2. CASE CloseDone
  <2>1. /\ UNCHANGED <<pid, parent, next_pid, waited, state, blk, done, fds, pend, cur>>
        /\ OpenFds(cur) = {} /\ pc' = "notify"
    BY <1>2 DEF CloseDone, idVars, schedVars, exitVars, blockVars
  <2>2. OpenFds(cur)' = {}
    BY <2>1 DEF OpenFds
  <2>. QED BY <2>1, <2>2 DEF Steady, WaitsKept, SameProcs
<1>3. CASE Stop
  <2>1. /\ UNCHANGED <<pid, parent, next_pid, waited, blk, done, fds, pend>>
        /\ pc' \in {"deliver", "resume"}
    BY <1>3 DEF Stop, AfterStop, idVars, exitVars, blockVars
  <2>2. SameProcs /\ \A p \in Slot : state'[p] = "BLOCKED" => state[p] = "BLOCKED"
    <3>1. CASE state' = state
      BY <3>1 DEF SameProcs
    <3>2. CASE state' # state
      <4>1. HasNext /\ state' = [state EXCEPT ![Next1] = "RUNNING"]
        BY <1>3, <3>2 DEF Stop
      <4>2. Next1 \in Slot /\ state[Next1] = "READY"
        BY <4>1, NextFacts DEF HasNext, SchedInv
      <4>3. ASSUME NEW p \in Slot
            PROVE  /\ state'[p] = "DEAD" <=> state[p] = "DEAD"
                   /\ state'[p] = "ZOMBIE" <=> state[p] = "ZOMBIE"
                   /\ state'[p] = "BLOCKED" => state[p] = "BLOCKED"
        <5>1. CASE p = Next1
          <6>1. state'[p] = "RUNNING" /\ state[p] = "READY"
            BY <4>1, <4>2, <5>1 DEF TypeOK
          <6>. QED BY <6>1
        <5>2. CASE p # Next1
          <6>1. state'[p] = state[p]
            BY <4>1, <4>2, <5>2 DEF TypeOK
          <6>. QED BY <6>1
        <5>. QED BY <5>1, <5>2
      <4>. QED BY <4>3 DEF SameProcs
    <3>. QED BY <3>1, <3>2
  <2>. QED BY <2>1, <2>2 DEF Steady, WaitsKept
<1>4. CASE DeliverFatal \/ DeliverChild
  <2>1. /\ UNCHANGED <<pid, parent, next_pid, waited, state, blk, done, fds>>
        /\ pc' \in {"closing", "deliver"}
        /\ pc = "deliver" /\ esp # 0
        /\ \E S : pend' = [pend EXCEPT ![Me] = @ \ S]
    BY <1>4 DEF DeliverFatal, DeliverChild, Delivering, MarkExit, idVars, schedVars,
                exitVars, blockVars, cpuVars
  <2>2. cur \in Slot /\ state[cur] = "RUNNING" /\ Me = cur
    BY <2>1, MeIsCur DEF SchedInv, SchedType, RunningIsCurrent
  <2>3. \A p \in Slot : ~Live(p) => pend'[p] = pend[p]
    BY <2>1, <2>2 DEF Live, TypeOK
  <2>. QED BY <2>1, <2>2, <2>3, QuietFamily
<1>5. CASE DeliverDone \/ NoFrame
  <2>1. /\ UNCHANGED <<pid, parent, next_pid, waited, state, blk, done, fds, pend>>
        /\ pc' \in {"resume", "halted", "wild"}
    BY <1>5 DEF DeliverDone, NoFrame, idVars, schedVars, exitVars, blockVars
  <2>. QED BY <2>1 DEF Steady, WaitsKept, SameProcs
<1>6. CASE Resume
  <2>1. cur \in Slot /\ state[cur] = "RUNNING" /\ Me = cur
    BY <1>6, MeIsCur DEF Resume, SchedInv, SchedType, RunningIsCurrent
  <2>2. /\ UNCHANGED <<pid, parent, next_pid, waited, fds, pend>>
        /\ pc' = "reap"
        /\ done' = [done EXCEPT ![cur] = NoDone]
        /\ blk' = blk \/ blk' = [blk EXCEPT ![cur] = NoBlock]
        /\ process_complete_pipe_io
    BY <1>6, <2>1 DEF Resume, CompleteWait, process_complete_pipe_io, idVars, exitVars
  <2>3. \A p \in Slot : p # cur => blk'[p] = blk[p] /\ done'[p] = done[p]
    BY <2>1, <2>2 DEF TypeOK
  <2>4. PICK w \in Slot \cup {0} : (w # 0 => state[w] = "BLOCKED") /\ scheduler_wake(w)
    <3>1. CASE UNCHANGED <<state, queue>>
      <4>1. scheduler_wake(0)
        BY <3>1 DEF scheduler_wake
      <4>. QED BY <4>1
    <3>2. CASE \E q, n : pipe_read(q, n)
      BY <3>2, PipeReadWakes DEF SchedInv
    <3>3. CASE \E q, n : pipe_write(q, n)
      BY <3>3, PipeWriteWakes DEF SchedInv
    <3>. QED BY <2>2, <3>1, <3>2, <3>3, CompleteIoCases
  <2>. QED BY <2>1, <2>2, <2>3, <2>4, WakeFamily
<1>. QED BY <1>1, <1>2, <1>3, <1>4, <1>5, <1>6 DEF KernelStep

(* Every step is one of fork, collect, mark-exit and reap, or Steady.       *)
LEMMA FamilyCases ==
    ASSUME SchedInv, TypeOK, [Next]_vars
    PROVE  Fork \/ Collects \/ Notify \/ Reap \/ (Steady /\ (Waits \/ WaitsKept))
<1>1. CASE UNCHANGED vars
  <2>1. UNCHANGED <<pid, parent, next_pid, waited, state, blk, done, fds, pend, pc, cur>>
    BY <1>1 DEF vars, idVars, schedVars, exitVars, blockVars, cpuVars
  <2>. QED BY <2>1 DEF Steady, WaitsKept, SameProcs
<1>. QED BY <1>1, UserFamily, TimerFamily, KernelFamily DEF Next, Halted

-----------------------------------------------------------------------------
(* The invariant *)

(* Pids are handed out once, in order, and a slot in use has one.           *)
PidsIssued ==
    \A p \in Slot : /\ pid[p] \in Pid \cup {0}
                    /\ pid[p] < next_pid
                    /\ pid[p] = 0 <=> state[p] = "DEAD"

(* A child is younger than its parent: nobody is its own ancestor.          *)
ParentOlder == \A p \in Slot : parent[p] # 0 => parent[p] < pid[p]

(* The table is searched and the parent told with every descriptor closed.  *)
ClosedAtNotify == pc = "notify" => OpenFds(cur) = {}

(* A zombie still to be collected is not one its parent sleeps for.         *)
NoMissedExit ==
    \A p, o \in Slot :
        state[p] = "ZOMBIE" /\ ~waited[p] /\ parent[p] # 0 /\ pid[o] = parent[p]
            => ~WaitsFor(o, p)

OnlyZombiesWaited == \A p \in Slot : Live(p) => ~waited[p]

FamilyInv ==
    /\ PidsIssued
    /\ ParentsLive
    /\ ParentOlder
    /\ ZombieHoldsNothing
    /\ ClosedAtNotify
    /\ NoMissedExit
    /\ OnlyZombiesWaited
    /\ WaitersHaveChild
    /\ ZombiesWaitable

(* The tree of processes changes only where it is meant to: the parts that  *)
(* do not speak of waits are kept by every Steady step.                     *)
LEMMA SteadyTree ==
    ASSUME FamilyInv, TypeOK, Steady
    PROVE  /\ PidsIssued' /\ ParentsLive' /\ ParentOlder' /\ ZombieHoldsNothing'
           /\ ClosedAtNotify' /\ OnlyZombiesWaited' /\ ZombiesWaitable'
<1>1. UNCHANGED <<pid, parent, next_pid, waited>> /\ SameProcs
  BY DEF Steady
<1>2. \A p \in Slot : Live(p)' <=> Live(p)
  BY <1>1 DEF SameProcs, Live
<1>3. PidsIssued' /\ ParentOlder' /\ OnlyZombiesWaited'
  BY <1>1, <1>2 DEF FamilyInv, PidsIssued, ParentOlder, OnlyZombiesWaited, SameProcs
<1>4. ParentsLive'
  BY <1>1, <1>2 DEF FamilyInv, ParentsLive
<1>5. ZombieHoldsNothing'
  <2>1. ASSUME NEW p \in Slot, ~Live(p)' PROVE OpenFds(p)' = {} /\ blk'[p] = NoBlock
    <3>1. ~Live(p) /\ fds'[p] = fds[p] /\ blk'[p] = blk[p]
      BY <1>2, <2>1 DEF Steady
    <3>. QED BY <3>1 DEF FamilyInv, ZombieHoldsNothing, OpenFds
  <2>2. ASSUME NEW p \in Slot, state'[p] = "DEAD"
        PROVE  pid'[p] = 0 /\ parent'[p] = 0 /\ pend'[p] = {} /\ ~waited'[p]
               /\ done'[p] = NoDone
    <3>1. state[p] = "DEAD" /\ pend'[p] = pend[p] /\ done'[p] = done[p]
      BY <1>1, <2>2 DEF Steady, SameProcs
    <3>. QED BY <1>1, <3>1 DEF FamilyInv, ZombieHoldsNothing
  <2>. QED BY <2>1, <2>2 DEF ZombieHoldsNothing
<1>6. ClosedAtNotify'
  BY DEF Steady, FamilyInv, ClosedAtNotify, OpenFds
<1>7. ZombiesWaitable'
  <2>1. CASE pc' # "user"
    BY <2>1 DEF ZombiesWaitable
  <2>2. CASE pc' = "user"
    BY <1>1, <2>2 DEF Steady, FamilyInv, ZombiesWaitable, Live, WaitsFor
  <2>. QED BY <2>1, <2>2
<1>. QED BY <1>3, <1>4, <1>5, <1>6, <1>7

(* A step that starts no wait keeps what is known of those who wait.        *)
LEMMA SteadyWaits ==
    ASSUME FamilyInv, TypeOK, Steady, WaitsKept
    PROVE  NoMissedExit' /\ WaitersHaveChild'
<1>1. UNCHANGED <<pid, parent, waited>> /\ SameProcs
  BY DEF Steady
<1>2. \A p \in Slot : Live(p)' <=> Live(p)
  BY <1>1 DEF SameProcs, Live
<1>3. \A o, p \in Slot : WaitsFor(o, p)' => WaitsFor(o, p)
  BY <1>1 DEF WaitsKept, WaitsFor
<1>4. NoMissedExit'
  BY <1>1, <1>3 DEF FamilyInv, NoMissedExit, SameProcs
<1>5. WaitersHaveChild'
  BY <1>1, <1>2 DEF FamilyInv, WaitersHaveChild, WaitsKept
<1>. QED BY <1>4, <1>5

(* The search for an exited child finds one if there is one.                *)
LEMMA ExitedChildFacts ==
    ASSUME NEW t
    PROVE  /\ ExitedChild(t) # 0 =>
                 /\ ExitedChild(t) \in Slot
                 /\ parent[ExitedChild(t)] = pid[Me]
                 /\ state[ExitedChild(t)] = "ZOMBIE"
                 /\ ~waited[ExitedChild(t)]
           /\ ExitedChild(t) = 0 =>
                 \A p \in Slot : ~(/\ parent[p] = pid[Me] /\ state[p] = "ZOMBIE"
                                   /\ ~waited[p] /\ t \in {0, pid[p]})
<1>. DEFINE Z == {p \in Slot : /\ parent[p] = pid[Me]
                               /\ state[p] = "ZOMBIE"
                               /\ ~waited[p]
                               /\ t \in {0, pid[p]}}
<1>1. Z \subseteq Nat /\ 0 \notin Z
  BY DEF Slot
<1>2. (Z = {} => Lowest(Z) = 0) /\ (Z # {} => Lowest(Z) \in Z)
  <2>. HIDE DEF Z
  <2>. QED BY <1>1, LowestFacts
<1>3. ExitedChild(t) = Lowest(Z)
  BY DEF ExitedChild
<1>. QED BY <1>1, <1>2, <1>3

(* A wait that goes to sleep has a live child to wait for: the search for   *)
(* an exited one came back empty in the same trap.                          *)
LEMMA WaitsStart ==
    ASSUME SchedInv, TypeOK, FamilyInv, Steady,
           NEW by, NEW t \in Pid \cup {0}, WaitBlock(by, t)
    PROVE  NoMissedExit' /\ WaitersHaveChild'
<1>. DEFINE b == [why |-> "child", arg |-> t, n |-> IF by = "waitpid" THEN 1 ELSE 0]
<1>1. pc = "user" /\ BlockCurrent(b) /\ ExitedChild(t) = 0 /\ HasChild(t)
  BY DEF WaitBlock, Syscall
<1>2. cur \in Slot /\ state[cur] = "RUNNING" /\ Me = cur
  BY <1>1, UserFacts
<1>3. b.why = "child" /\ b.arg = t
  OBVIOUS
<1>. HIDE DEF b
<1>4. /\ \A p \in Slot : p # cur => blk'[p] = blk[p]
      /\ \/ /\ state'[cur] = "BLOCKED" /\ blk'[cur] = b
            /\ \A p \in Slot : p # cur /\ state'[p] = "BLOCKED" => state[p] = "BLOCKED"
         \/ UNCHANGED <<state, blk>>
  BY <1>1, BlockSame
<1>5. CASE UNCHANGED <<state, blk>>
  <2>1. WaitsKept
    BY <1>5 DEF WaitsKept
  <2>. QED BY <2>1, SteadyWaits
<1>6. CASE /\ state'[cur] = "BLOCKED" /\ blk'[cur] = b
           /\ \A p \in Slot : p # cur /\ state'[p] = "BLOCKED" => state[p] = "BLOCKED"
  <2>1. UNCHANGED <<pid, parent, waited>> /\ SameProcs
    BY DEF Steady
  <2>2. \A p \in Slot : Live(p)' <=> Live(p)
    BY <2>1 DEF SameProcs, Live
  <2>3. \A p \in Slot : ~(/\ parent[p] = pid[cur] /\ state[p] = "ZOMBIE"
                          /\ ~waited[p] /\ t \in {0, pid[p]})
    BY <1>1, <1>2, ExitedChildFacts
  <2>4. ASSUME NEW p \in Slot, NEW o \in Slot, state'[p] = "ZOMBIE", ~waited'[p],
               parent'[p] # 0, pid'[o] = parent'[p]
        PROVE  ~WaitsFor(o, p)'
    <3>1. /\ state[p] = "ZOMBIE" /\ ~waited[p] /\ parent[p] # 0 /\ pid[o] = parent[p]
      BY <2>1, <2>4 DEF SameProcs
    <3>2. CASE o = cur
      BY <1>3, <1>6, <2>1, <2>3, <3>1, <3>2 DEF WaitsFor
    <3>3. CASE o # cur
      <4>1. ~WaitsFor(o, p)
        BY <3>1 DEF FamilyInv, NoMissedExit
      <4>. QED BY <1>4, <1>6, <2>1, <3>3, <4>1 DEF WaitsFor
    <3>. QED BY <3>2, <3>3
  <2>5. \E c \in Slot : Live(c) /\ parent[c] = pid[cur] /\ t \in {0, pid[c]}
    <3>1. CASE t = 0
      <4>1. PICK c \in Slot : state[c] # "DEAD" /\ parent[c] = pid[cur] /\ ~waited[c]
        BY <1>1, <1>2, <3>1 DEF HasChild
      <4>2. state[c] # "ZOMBIE"
        BY <2>3, <3>1, <4>1
      <4>. QED BY <3>1, <4>1, <4>2 DEF Live
    <3>2. CASE t # 0
      <4>. DEFINE c == process_get_by_pid(t)
      <4>1. c # 0 /\ parent[c] = pid[cur]
        BY <1>1, <1>2, <3>2 DEF HasChild
      <4>2. c \in Slot /\ pid[c] = t /\ state[c] # "DEAD"
        BY <4>1, ByPidFacts
      <4>. HIDE DEF c
      <4>3. state[c] # "ZOMBIE"
        <5>1. state[c] = "ZOMBIE" => ~waited[c]
          BY <1>1, <4>2 DEF FamilyInv, ZombiesWaitable
        <5>. QED BY <2>3, <4>1, <4>2, <5>1
      <4>. QED BY <4>1, <4>2, <4>3 DEF Live
    <3>. QED BY <3>1, <3>2
  <2>6. ASSUME NEW p \in Slot, state'[p] = "BLOCKED", blk'[p].why = "child"
        PROVE  \E c \in Slot : Live(c)' /\ parent'[c] = pid'[p] /\ blk'[p].arg \in {0, pid'[c]}
    <3>1. CASE p = cur
      BY <1>3, <1>6, <2>1, <2>2, <2>5, <3>1
    <3>2. CASE p # cur
      <4>1. state[p] = "BLOCKED" /\ blk'[p] = blk[p]
        BY <1>4, <1>6, <2>6, <3>2
      <4>2. PICK c \in Slot : Live(c) /\ parent[c] = pid[p] /\ blk[p].arg \in {0, pid[c]}
        BY <2>6, <4>1 DEF FamilyInv, WaitersHaveChild
      <4>. QED BY <2>1, <2>2, <4>1, <4>2
    <3>. QED BY <3>1, <3>2
  <2>. QED BY <2>4, <2>6 DEF NoMissedExit, WaitersHaveChild
<1>. QED BY <1>4, <1>5, <1>6

(* fork fills one free slot and touches no other.                           *)
LEMMA ForkFacts ==
    ASSUME SchedInv, TypeOK, Fork
    PROVE  \E child \in Slot :
              /\ state[child] = "DEAD" /\ child # cur
              /\ cur \in Slot /\ state[cur] = "RUNNING" /\ pc = "user" /\ pc' = "deliver"
              /\ next_pid <= MaxPid /\ next_pid' = next_pid + 1
              /\ \A p \in Slot :
                    /\ state'[p] = IF p = child THEN "READY" ELSE state[p]
                    /\ pid'[p] = IF p = child THEN next_pid ELSE pid[p]
                    /\ parent'[p] = IF p = child THEN pid[cur] ELSE parent[p]
                    /\ fds'[p] = IF p = child THEN fds[cur] ELSE fds[p]
              /\ UNCHANGED <<waited, code, sig, pend, blk, done, cur, log, got>>
<1>. DEFINE child == Lowest({p \in Slot : state[p] = "DEAD"})
<1>1. pc = "user" /\ cur \in Slot /\ state[cur] = "RUNNING" /\ Me = cur
  BY UserFacts DEF Fork, Syscall
<1>2. child \in Slot /\ state[child] = "DEAD"
  <2>. DEFINE Z == {p \in Slot : state[p] = "DEAD"}
  <2>1. Z \subseteq Nat
    BY DEF Slot
  <2>2. Lowest(Z) = 0 \/ Lowest(Z) \in Z
    BY <2>1, LowestFacts
  <2>3. child # 0
    BY DEF Fork
  <2>. QED BY <2>2, <2>3
<1>3. /\ state' = [state EXCEPT ![child] = "READY"]
      /\ pid' = [pid EXCEPT ![child] = next_pid]
      /\ parent' = [parent EXCEPT ![child] = pid[cur]]
      /\ fds' = [fds EXCEPT ![child] = fds[cur]]
      /\ next_pid <= MaxPid /\ next_pid' = next_pid + 1 /\ pc' = "deliver"
      /\ UNCHANGED <<waited, code, sig, pend, blk, done, cur, log, got>>
  BY <1>1 DEF Fork, blockVars, histVars
<1>. HIDE DEF child
<1>4. child # cur
  BY <1>1, <1>2
<1>5. \A p \in Slot :
        /\ state'[p] = IF p = child THEN "READY" ELSE state[p]
        /\ pid'[p] = IF p = child THEN next_pid ELSE pid[p]
        /\ parent'[p] = IF p = child THEN pid[cur] ELSE parent[p]
        /\ fds'[p] = IF p = child THEN fds[cur] ELSE fds[p]
  BY <1>2, <1>3 DEF TypeOK
<1>. QED BY <1>1, <1>2, <1>3, <1>4, <1>5

(* fork keeps the family in order: the child's pid is new, so no parent     *)
(* field and no wait can mean it by accident.                               *)
LEMMA ForkFamily ==
    ASSUME SchedInv, TypeOK, FamilyInv, Fork
    PROVE  FamilyInv'
<1>1. PICK child \in Slot :
          /\ state[child] = "DEAD" /\ child # cur
          /\ cur \in Slot /\ state[cur] = "RUNNING" /\ pc = "user" /\ pc' = "deliver"
          /\ next_pid <= MaxPid /\ next_pid' = next_pid + 1
          /\ \A p \in Slot :
                /\ state'[p] = IF p = child THEN "READY" ELSE state[p]
                /\ pid'[p] = IF p = child THEN next_pid ELSE pid[p]
                /\ parent'[p] = IF p = child THEN pid[cur] ELSE parent[p]
                /\ fds'[p] = IF p = child THEN fds[cur] ELSE fds[p]
          /\ UNCHANGED <<waited, code, sig, pend, blk, done, cur, log, got>>
  BY ForkFacts
<1>2. /\ next_pid \in Nat /\ MaxPid \in Nat
      /\ \A p \in Slot : pid[p] \in Nat /\ parent[p] \in Nat
  BY KernelAssumption DEF TypeOK
<1>3. /\ pid[cur] # 0 /\ pid[cur] < next_pid
      /\ \A p \in Slot : pid[p] < next_pid /\ pid[p] \in Pid \cup {0}
      /\ \A p \in Slot : pid[p] = 0 <=> state[p] = "DEAD"
  BY <1>1 DEF FamilyInv, PidsIssued
<1>4. next_pid \in Pid /\ next_pid # 0
  BY <1>1, <1>2, <1>3 DEF Pid
<1>5. PidsIssued'
  <2>1. ASSUME NEW p \in Slot
        PROVE  /\ pid'[p] \in Pid \cup {0} /\ pid'[p] < next_pid'
               /\ pid'[p] = 0 <=> state'[p] = "DEAD"
    <3>1. CASE p = child
      <4>1. pid'[p] = next_pid /\ state'[p] = "READY"
        BY <1>1, <3>1
      <4>. QED BY <1>1, <1>2, <1>4, <4>1
    <3>2. CASE p # child
      <4>1. pid'[p] = pid[p] /\ state'[p] = state[p]
        BY <1>1, <3>2
      <4>2. pid'[p] < next_pid'
        BY <1>1, <1>2, <1>3, <4>1
      <4>. QED BY <1>3, <4>1, <4>2
    <3>. QED BY <3>1, <3>2
  <2>. QED BY <2>1 DEF PidsIssued
<1>6. \A p \in Slot : (p # child => (Live(p)' <=> Live(p))) /\ ~Live(child) /\ Live(child)'
  BY <1>1 DEF Live
<1>7. ParentsLive'
  <2>1. ASSUME NEW p \in Slot, parent'[p] # 0
        PROVE  \E o \in Slot : Live(o)' /\ o # p /\ pid'[o] = parent'[p]
    <3>1. CASE p = child
      <4>1. Live(cur)' /\ pid'[cur] = parent'[p]
        BY <1>1, <3>1 DEF Live
      <4>. QED BY <1>1, <3>1, <4>1
    <3>2. CASE p # child
      <4>1. PICK o \in Slot : Live(o) /\ o # p /\ pid[o] = parent[p]
        BY <1>1, <2>1, <3>2 DEF FamilyInv, ParentsLive
      <4>2. o # child
        BY <1>6, <4>1
      <4>. QED BY <1>1, <1>6, <3>2, <4>1, <4>2
    <3>. QED BY <3>1, <3>2
  <2>2. ASSUME NEW p \in Slot, NEW o \in Slot, pid'[p] = pid'[o], pid'[p] # 0
        PROVE  p = o
    <3>1. \A x \in Slot : pid[x] # next_pid
      BY <1>2, <1>3
    <3>2. pid'[p] = next_pid <=> p = child
      BY <1>1, <3>1
    <3>3. pid'[o] = next_pid <=> o = child
      BY <1>1, <3>1
    <3>4. CASE p # child
      <4>1. o # child /\ pid[p] = pid[o] /\ pid[p] # 0
        BY <1>1, <2>2, <3>2, <3>3, <3>4
      <4>. QED BY <4>1 DEF FamilyInv, ParentsLive
    <3>. QED BY <2>2, <3>2, <3>3, <3>4
  <2>. QED BY <2>1, <2>2 DEF ParentsLive
<1>8. ParentOlder'
  BY <1>1, <1>3 DEF FamilyInv, ParentOlder
<1>9. ZombieHoldsNothing'
  <2>1. ASSUME NEW p \in Slot, ~Live(p)'
        PROVE  OpenFds(p)' = {} /\ blk'[p] = NoBlock
    <3>1. p # child
      BY <1>6, <2>1
    <3>2. ~Live(p) /\ fds'[p] = fds[p] /\ blk'[p] = blk[p]
      BY <1>1, <1>6, <2>1, <3>1
    <3>. QED BY <3>2 DEF FamilyInv, ZombieHoldsNothing, OpenFds
  <2>2. ASSUME NEW p \in Slot, state'[p] = "DEAD"
        PROVE  pid'[p] = 0 /\ parent'[p] = 0 /\ pend'[p] = {} /\ ~waited'[p]
               /\ done'[p] = NoDone
    <3>1. p # child
      BY <1>1, <2>2
    <3>2. state[p] = "DEAD" /\ pid'[p] = pid[p] /\ parent'[p] = parent[p]
      BY <1>1, <2>2, <3>1
    <3>. QED BY <1>1, <3>2 DEF FamilyInv, ZombieHoldsNothing
  <2>. QED BY <2>1, <2>2 DEF ZombieHoldsNothing
<1>10. ClosedAtNotify' /\ ZombiesWaitable'
  BY <1>1 DEF ClosedAtNotify, ZombiesWaitable
<1>11. OnlyZombiesWaited'
  BY <1>1, <1>6 DEF FamilyInv, OnlyZombiesWaited, ZombieHoldsNothing
<1>12. NoMissedExit'
  <2>1. ASSUME NEW p \in Slot, NEW o \in Slot, state'[p] = "ZOMBIE", ~waited'[p],
               parent'[p] # 0, pid'[o] = parent'[p]
        PROVE  ~WaitsFor(o, p)'
    <3>1. p # child
      BY <1>1, <2>1
    <3>2. /\ state[p] = "ZOMBIE" /\ ~waited[p] /\ parent[p] # 0 /\ pid'[p] = pid[p]
          /\ parent'[p] = parent[p]
      BY <1>1, <2>1, <3>1
    <3>3. parent[p] < next_pid
      <4>1. parent[p] < pid[p] /\ pid[p] < next_pid
        BY <1>3, <3>2 DEF FamilyInv, ParentOlder
      <4>. QED BY <1>2, <4>1
    <3>4. o # child
      BY <1>1, <1>2, <2>1, <3>2, <3>3
    <3>5. pid[o] = parent[p] /\ state'[o] = state[o] /\ blk'[o] = blk[o]
      BY <1>1, <2>1, <3>2, <3>4
    <3>6. ~WaitsFor(o, p)
      BY <3>2, <3>5 DEF FamilyInv, NoMissedExit
    <3>. QED BY <3>2, <3>5, <3>6 DEF WaitsFor
  <2>. QED BY <2>1 DEF NoMissedExit
<1>13. WaitersHaveChild'
  <2>1. ASSUME NEW p \in Slot, state'[p] = "BLOCKED", blk'[p].why = "child"
        PROVE  \E c \in Slot : Live(c)' /\ parent'[c] = pid'[p] /\ blk'[p].arg \in {0, pid'[c]}
    <3>1. p # child
      BY <1>1, <2>1
    <3>2. state[p] = "BLOCKED" /\ blk[p].why = "child" /\ pid'[p] = pid[p]
      BY <1>1, <2>1, <3>1
    <3>3. PICK c \in Slot : Live(c) /\ parent[c] = pid[p] /\ blk[p].arg \in {0, pid[c]}
      BY <3>2 DEF FamilyInv, WaitersHaveChild
    <3>4. c # child
      BY <1>6, <3>3
    <3>5. Live(c)' /\ parent'[c] = parent[c] /\ pid'[c] = pid[c]
      BY <1>1, <1>6, <3>3, <3>4
    <3>. QED BY <1>1, <3>2, <3>3, <3>5
  <2>. QED BY <2>1 DEF WaitersHaveChild
<1>. QED BY <1>5, <1>7, <1>8, <1>9, <1>10, <1>11, <1>12, <1>13 DEF FamilyInv

(* process_destroy on zombies keeps the family in order: nobody's parent    *)
(* and nobody's awaited child is a zombie.                                  *)
LEMMA DestroyFamily ==
    ASSUME SchedInv, TypeOK, FamilyInv, NEW D \in SUBSET Slot,
           \A p \in D : state[p] = "ZOMBIE",
           process_destroy(D), UNCHANGED <<next_pid, fds>>, pc' # "notify", ZombiesWaitable'
    PROVE  FamilyInv'
<1>1. \A p \in Slot :
        /\ state'[p] = IF p \in D THEN "DEAD" ELSE state[p]
        /\ pid'[p] = IF p \in D THEN 0 ELSE pid[p]
        /\ parent'[p] = IF p \in D THEN 0 ELSE parent[p]
        /\ waited'[p] = (p \notin D /\ waited[p])
        /\ pend'[p] = IF p \in D THEN {} ELSE pend[p]
        /\ blk'[p] = IF p \in D THEN NoBlock ELSE blk[p]
        /\ done'[p] = IF p \in D THEN NoDone ELSE done[p]
  BY DEF process_destroy
<1>2. \A p \in Slot : /\ Live(p)' <=> Live(p)
                      /\ Live(p) => p \notin D
  BY <1>1 DEF Live
<1>3. PidsIssued'
  <2>1. next_pid \in Nat /\ cur \in Slot /\ pid[cur] < next_pid
        /\ \A p \in Slot : pid[p] \in Nat
    BY DEF FamilyInv, PidsIssued, TypeOK
  <2>2. 0 < next_pid
    BY <2>1
  <2>. QED BY <1>1, <2>2 DEF FamilyInv, PidsIssued
<1>4. ParentsLive'
  <2>1. ASSUME NEW p \in Slot, parent'[p] # 0
        PROVE  \E o \in Slot : Live(o)' /\ o # p /\ pid'[o] = parent'[p]
    <3>1. parent'[p] = parent[p] /\ parent[p] # 0
      BY <1>1, <2>1
    <3>2. PICK o \in Slot : Live(o) /\ o # p /\ pid[o] = parent[p]
      BY <3>1 DEF FamilyInv, ParentsLive
    <3>. QED BY <1>1, <1>2, <3>1, <3>2
  <2>2. \A p, o \in Slot : pid'[p] = pid'[o] /\ pid'[p] # 0 => p = o
    BY <1>1 DEF FamilyInv, ParentsLive
  <2>. QED BY <2>1, <2>2 DEF ParentsLive
<1>5. ParentOlder'
  BY <1>1 DEF FamilyInv, ParentOlder
<1>6. ZombieHoldsNothing'
  <2>1. ASSUME NEW p \in Slot, ~Live(p)'
        PROVE  OpenFds(p)' = {} /\ blk'[p] = NoBlock
    BY <1>1, <1>2, <2>1 DEF FamilyInv, ZombieHoldsNothing, OpenFds
  <2>2. ASSUME NEW p \in Slot, state'[p] = "DEAD"
        PROVE  pid'[p] = 0 /\ parent'[p] = 0 /\ pend'[p] = {} /\ ~waited'[p]
               /\ done'[p] = NoDone
    BY <1>1, <2>2 DEF FamilyInv, ZombieHoldsNothing
  <2>. QED BY <2>1, <2>2 DEF ZombieHoldsNothing
<1>7. ClosedAtNotify'
  BY DEF ClosedAtNotify
<1>8. OnlyZombiesWaited'
  BY <1>1, <1>2 DEF FamilyInv, OnlyZombiesWaited
<1>9. NoMissedExit'
  <2>1. ASSUME NEW p \in Slot, NEW o \in Slot, state'[p] = "ZOMBIE", ~waited'[p],
               parent'[p] # 0, pid'[o] = parent'[p]
        PROVE  ~WaitsFor(o, p)'
    <3>1. p \notin D /\ o \notin D
      BY <1>1, <2>1
    <3>2. /\ state[p] = "ZOMBIE" /\ ~waited[p] /\ parent[p] # 0 /\ pid[o] = parent[p]
          /\ state'[o] = state[o] /\ blk'[o] = blk[o] /\ pid'[p] = pid[p]
      BY <1>1, <2>1, <3>1
    <3>. QED BY <3>2 DEF FamilyInv, NoMissedExit, WaitsFor
  <2>. QED BY <2>1 DEF NoMissedExit
<1>10. WaitersHaveChild'
  <2>1. ASSUME NEW p \in Slot, state'[p] = "BLOCKED", blk'[p].why = "child"
        PROVE  \E c \in Slot : Live(c)' /\ parent'[c] = pid'[p] /\ blk'[p].arg \in {0, pid'[c]}
    <3>1. p \notin D
      BY <1>1, <2>1
    <3>2. state[p] = "BLOCKED" /\ blk'[p] = blk[p] /\ pid'[p] = pid[p]
      BY <1>1, <2>1, <3>1
    <3>3. PICK c \in Slot : Live(c) /\ parent[c] = pid[p] /\ blk[p].arg \in {0, pid[c]}
      BY <2>1, <3>2 DEF FamilyInv, WaitersHaveChild
    <3>. QED BY <1>1, <1>2, <3>2, <3>3
  <2>. QED BY <2>1 DEF WaitersHaveChild
<1>. QED BY <1>3, <1>4, <1>5, <1>6, <1>7, <1>8, <1>9, <1>10 DEF FamilyInv

(* Collecting an exited child destroys that zombie and nothing else.        *)
LEMMA CollectFamily ==
    ASSUME SchedInv, TypeOK, FamilyInv, Collects
    PROVE  FamilyInv'
<1>1. PICK by \in {"wait", "waitpid"}, t \in Pid \cup {0} : WaitCollect(by, t)
  BY DEF Collects
<1>. DEFINE child == ExitedChild(t)
<1>2. /\ child # 0 /\ process_destroy({child})
      /\ UNCHANGED <<next_pid, fds>> /\ pc' = "deliver"
  BY <1>1 DEF WaitCollect
<1>3. child \in Slot /\ state[child] = "ZOMBIE"
  BY <1>2, ExitedChildFacts
<1>. HIDE DEF child
<1>4. ZombiesWaitable'
  BY <1>2 DEF ZombiesWaitable
<1>5. {child} \in SUBSET Slot /\ \A p \in {child} : state[p] = "ZOMBIE"
  BY <1>3
<1>6. pc' # "notify"
  BY <1>2
<1>. QED BY <1>2, <1>4, <1>5, <1>6, DestroyFamily

(* The reaper leaves exactly the zombies that a live parent can collect.    *)
LEMMA ReapFamily ==
    ASSUME SchedInv, TypeOK, FamilyInv, Reap
    PROVE  FamilyInv'
<1>. DEFINE D == {p \in Slot : Unclaimed(p)}
<1>1. /\ D \in SUBSET Slot /\ process_destroy(D)
      /\ UNCHANGED <<next_pid, fds>> /\ pc = "reap" /\ pc' # "notify"
  BY DEF Reap
<1>2. \A p \in D : state[p] = "ZOMBIE"
  BY DEF Unclaimed
<1>3. Me = cur /\ state[cur] = "RUNNING"
  BY <1>1, MeIsCur DEF SchedInv, RunningIsCurrent
<1>4. ZombiesWaitable'
  <2>1. ASSUME NEW p \in Slot, state'[p] = "ZOMBIE"
        PROVE  \E o \in Slot : /\ Live(o)' /\ pid'[o] = parent'[p]
                               /\ ~waited'[p] /\ ~WaitsFor(o, p)'
    <3>. DEFINE par == process_get_by_pid(parent[p])
    <3>1. p \notin D /\ state[p] = "ZOMBIE"
      BY <1>1, <2>1 DEF process_destroy
    <3>2. p # Me
      BY <1>3, <3>1
    <3>3. ~waited[p] /\ par # 0 /\ state[par] # "ZOMBIE"
      BY <3>1, <3>2 DEF Unclaimed
    <3>4. par \in Slot /\ pid[par] = parent[p] /\ state[par] # "DEAD" /\ parent[p] # 0
      BY <3>3, ByPidFacts
    <3>. HIDE DEF par
    <3>5. ~WaitsFor(par, p)
      BY <3>1, <3>3, <3>4 DEF FamilyInv, NoMissedExit
    <3>6. par \notin D
      BY <1>2, <3>3
    <3>7. /\ state'[par] = state[par] /\ pid'[par] = pid[par] /\ blk'[par] = blk[par]
          /\ parent'[p] = parent[p] /\ waited'[p] = waited[p] /\ pid'[p] = pid[p]
      <4>. HIDE DEF D
      <4>. QED BY <1>1, <3>1, <3>3, <3>4, <3>6 DEF process_destroy, TypeOK
    <3>8. PICK o \in Slot : o = par
      BY <3>4
    <3>9. Live(o)' /\ pid'[o] = parent'[p] /\ ~waited'[p] /\ ~WaitsFor(o, p)'
      BY <3>3, <3>4, <3>5, <3>7, <3>8 DEF Live, WaitsFor
    <3>. QED BY <3>9
  <2>. QED BY <2>1 DEF ZombiesWaitable
<1>. HIDE DEF D
<1>. QED BY <1>1, <1>2, <1>4, DestroyFamily

Heir == process_get_by_pid(parent[cur])
Handoff == Heir # 0 /\ state[Heir] # "ZOMBIE" /\ WaitsFor(Heir, cur)

(* The second half of process_mark_exit, field by field.  The lookup of the *)
(* parent finds it, alive, exactly if there is one.                         *)
LEMMA NotifyFacts ==
    ASSUME SchedInv, TypeOK, FamilyInv, Notify
    PROVE  /\ pc = "notify" /\ pc' = "stop" /\ cur \in Slot /\ state[cur] = "RUNNING"
           /\ UNCHANGED <<pid, next_pid, fds, cur, code, sig, log, got>>
           /\ Heir # 0 <=> parent[cur] # 0
           /\ Heir # 0 => Heir \in Slot /\ Live(Heir) /\ pid[Heir] = parent[cur] /\ Heir # cur
           /\ \A p \in Slot : parent'[p] = IF p \in Orphans(cur) THEN 0 ELSE parent[p]
           /\ \A p \in Slot : waited'[p] <=> \/ waited[p]
                                             \/ p \in Orphans(cur) /\ state[p] = "ZOMBIE"
                                             \/ p = cur /\ (Heir = 0 \/ Handoff)
           /\ \A p \in Slot : p # Heir => pend'[p] = pend[p]
           /\ \A p \in Slot : state'[p] = IF p = cur THEN "ZOMBIE"
                                           ELSE IF Handoff /\ p = Heir THEN "READY"
                                           ELSE state[p]
           /\ \A p \in Slot : blk'[p] = IF p = cur \/ (Handoff /\ p = Heir) THEN NoBlock
                                         ELSE blk[p]
           /\ \A p \in Slot : ~(Handoff /\ p = Heir) => done'[p] = done[p]
           /\ Handoff => \E by \in {"wait", "waitpid"} :
                 done'[Heir] = [pid |-> pid[cur], by |-> by,
                                status |-> Reported(by, code[cur], sig[cur])]
<1>1. /\ pc = "notify" /\ pc' = "stop" /\ cur \in Slot /\ state[cur] = "RUNNING"
      /\ UNCHANGED <<pid, next_pid, fds, cur, code, sig, log, got>>
  BY DEF Notify, SchedInv, SchedType, RunningIsCurrent, idVars, histVars
<1>2. Heir # 0 => /\ Heir \in Slot /\ pid[Heir] = parent[cur] /\ state[Heir] # "DEAD"
                  /\ parent[cur] # 0
  BY ByPidFacts DEF Heir
<1>3. parent[cur] # 0 => Heir # 0 /\ Live(Heir) /\ Heir # cur
  <2>1. ASSUME parent[cur] # 0 PROVE Heir # 0 /\ Live(Heir) /\ Heir # cur
    <3>1. PICK o \in Slot : Live(o) /\ o # cur /\ pid[o] = parent[cur]
      BY <1>1, <2>1 DEF FamilyInv, ParentsLive
    <3>2. Heir # 0
      BY <2>1, <3>1, ByPidFacts DEF Heir, Live
    <3>3. Heir = o
      BY <1>2, <2>1, <3>1, <3>2 DEF FamilyInv, ParentsLive
    <3>. QED BY <3>1, <3>2, <3>3
  <2>. QED BY <2>1
<1>4. Heir # 0 => state[Heir] # "ZOMBIE"
  BY <1>2, <1>3 DEF Live
<1>. DEFINE by == IF blk[Heir].n = 1 THEN "waitpid" ELSE "wait"
            d == [pid |-> pid[cur], by |-> by, status |-> Reported(by, code[cur], sig[cur])]
<1>5. /\ parent' = [p \in Slot |-> IF p \in Orphans(cur) THEN 0 ELSE parent[p]]
      /\ pend' = pend \/ pend' = [pend EXCEPT ![Heir] = @ \cup {CHLD}]
      /\ Handoff => /\ done' = [done EXCEPT ![Heir] = d]
                    /\ blk' = [blk EXCEPT ![Heir] = NoBlock, ![cur] = NoBlock]
                    /\ state' = [state EXCEPT ![cur] = "ZOMBIE", ![Heir] = "READY"]
      /\ ~Handoff => /\ done' = done
                     /\ blk' = [blk EXCEPT ![cur] = NoBlock]
                     /\ state' = [state EXCEPT ![cur] = "ZOMBIE"]
  BY DEF Notify, Heir, Handoff
<1>6. waited' = [p \in Slot |-> \/ waited[p]
                                \/ p \in Orphans(cur) /\ state[p] = "ZOMBIE"
                                \/ p = cur /\ (~(Heir # 0 /\ state[Heir] # "ZOMBIE") \/ Handoff)]
  BY DEF Notify, Heir, Handoff
<1>7. by \in {"wait", "waitpid"} /\ d.pid = pid[cur]
  OBVIOUS
<1>8. Handoff => Heir \in Slot /\ Heir # cur
  BY <1>2, <1>3 DEF Handoff
<1>9. \A p \in Slot : waited'[p] <=> \/ waited[p]
                                     \/ p \in Orphans(cur) /\ state[p] = "ZOMBIE"
                                     \/ p = cur /\ (Heir = 0 \/ Handoff)
  BY <1>4, <1>6 DEF TypeOK
<1>10. \A p \in Slot : parent'[p] = IF p \in Orphans(cur) THEN 0 ELSE parent[p]
  BY <1>5
<1>11. \A p \in Slot : p # Heir => pend'[p] = pend[p]
  BY <1>5 DEF TypeOK
<1>12. /\ \A p \in Slot : state'[p] = IF p = cur THEN "ZOMBIE"
                                       ELSE IF Handoff /\ p = Heir THEN "READY"
                                       ELSE state[p]
       /\ \A p \in Slot : blk'[p] = IF p = cur \/ (Handoff /\ p = Heir) THEN NoBlock
                                     ELSE blk[p]
       /\ \A p \in Slot : ~(Handoff /\ p = Heir) => done'[p] = done[p]
  <2>. HIDE DEF d
  <2>1. CASE Handoff
    BY <1>1, <1>5, <1>8, <2>1 DEF TypeOK
  <2>2. CASE ~Handoff
    BY <1>1, <1>5, <2>2 DEF TypeOK
  <2>. QED BY <2>1, <2>2
<1>13. Handoff => done'[Heir] = d
  <2>. HIDE DEF d
  <2>. QED BY <1>5, <1>8 DEF TypeOK
<1>14. Handoff => \E b \in {"wait", "waitpid"} :
          done'[Heir] = [pid |-> pid[cur], by |-> b, status |-> Reported(b, code[cur], sig[cur])]
  BY <1>7, <1>13
<1>15. Heir # 0 <=> parent[cur] # 0
  BY <1>2, <1>3
<1>16. Heir # 0 => Heir \in Slot /\ Live(Heir) /\ pid[Heir] = parent[cur] /\ Heir # cur
  BY <1>2, <1>3
<1>. HIDE DEF d, by
<1>. QED BY <1>1, <1>9, <1>10, <1>11, <1>12, <1>14, <1>15, <1>16

(* An exit keeps the family in order: its children lose their parent before *)
(* its pid can name anyone else, and its parent is told or not asleep.      *)
LEMMA NotifyFamily ==
    ASSUME SchedInv, TypeOK, FamilyInv, Notify
    PROVE  FamilyInv'
<1>1. /\ pc = "notify" /\ pc' = "stop" /\ cur \in Slot /\ state[cur] = "RUNNING"
      /\ UNCHANGED <<pid, next_pid, fds, cur, code, sig, log, got>>
  BY NotifyFacts
<1>2. /\ Heir # 0 <=> parent[cur] # 0
      /\ Heir # 0 => Heir \in Slot /\ Live(Heir) /\ pid[Heir] = parent[cur] /\ Heir # cur
  BY NotifyFacts
<1>3. \A p \in Slot : parent'[p] = IF p \in Orphans(cur) THEN 0 ELSE parent[p]
  BY NotifyFacts
<1>4. \A p \in Slot : waited'[p] <=> \/ waited[p]
                                     \/ p \in Orphans(cur) /\ state[p] = "ZOMBIE"
                                     \/ p = cur /\ (Heir = 0 \/ Handoff)
  BY NotifyFacts
<1>5. \A p \in Slot : state'[p] = IF p = cur THEN "ZOMBIE"
                                  ELSE IF Handoff /\ p = Heir THEN "READY"
                                  ELSE state[p]
  BY NotifyFacts
<1>6. \A p \in Slot : blk'[p] = IF p = cur \/ (Handoff /\ p = Heir) THEN NoBlock ELSE blk[p]
  BY NotifyFacts
<1>7. \A p \in Slot : p # Heir => pend'[p] = pend[p] /\ done'[p] = done[p]
  BY NotifyFacts
<1>8. Handoff => Heir # 0 /\ state[Heir] = "BLOCKED"
  BY DEF Handoff, WaitsFor
<1>9. \A p \in Slot : /\ Live(p)' <=> Live(p) /\ p # cur
                      /\ state'[p] = "DEAD" <=> state[p] = "DEAD"
  <2>1. ASSUME NEW p \in Slot
        PROVE  /\ Live(p)' <=> Live(p) /\ p # cur
               /\ state'[p] = "DEAD" <=> state[p] = "DEAD"
    <3>1. CASE p = cur
      <4>1. state'[p] = "ZOMBIE" /\ state[p] = "RUNNING"
        BY <1>1, <1>5, <3>1
      <4>. QED BY <3>1, <4>1 DEF Live
    <3>2. CASE p # cur /\ Handoff /\ p = Heir
      <4>1. state'[p] = "READY" /\ state[p] = "BLOCKED"
        BY <1>5, <1>8, <3>2
      <4>. QED BY <3>2, <4>1 DEF Live
    <3>3. CASE p # cur /\ ~(Handoff /\ p = Heir)
      <4>1. state'[p] = state[p]
        BY <1>5, <3>3
      <4>. QED BY <3>3, <4>1 DEF Live
    <3>. QED BY <3>1, <3>2, <3>3
  <2>. QED BY <2>1
<1>10. \A p \in Slot : parent'[p] # 0 => parent'[p] = parent[p] /\ parent[p] # pid[cur]
  <2>1. \A p \in Slot : parent[p] # 0 => state[p] # "DEAD"
    BY DEF FamilyInv, ZombieHoldsNothing
  <2>. QED BY <1>3, <2>1 DEF Orphans
<1>11. PidsIssued' /\ ParentOlder'
  BY <1>1, <1>9, <1>10 DEF FamilyInv, PidsIssued, ParentOlder
<1>12. ParentsLive'
  <2>1. ASSUME NEW p \in Slot, parent'[p] # 0
        PROVE  \E o \in Slot : Live(o)' /\ o # p /\ pid'[o] = parent'[p]
    <3>1. parent'[p] = parent[p] /\ parent[p] # pid[cur]
      BY <1>10, <2>1
    <3>2. PICK o \in Slot : Live(o) /\ o # p /\ pid[o] = parent[p]
      BY <2>1, <3>1 DEF FamilyInv, ParentsLive
    <3>. QED BY <1>1, <1>9, <3>1, <3>2
  <2>2. \A p, o \in Slot : pid'[p] = pid'[o] /\ pid'[p] # 0 => p = o
    BY <1>1 DEF FamilyInv, ParentsLive
  <2>. QED BY <2>1, <2>2 DEF ParentsLive
<1>13. ZombieHoldsNothing'
  <2>1. ASSUME NEW p \in Slot, ~Live(p)'
        PROVE  OpenFds(p)' = {} /\ blk'[p] = NoBlock
    <3>1. CASE p = cur
      BY <1>1, <1>6, <3>1 DEF FamilyInv, ClosedAtNotify, OpenFds
    <3>2. CASE p # cur
      <4>1. ~Live(p)
        BY <1>9, <2>1, <3>2
      <4>. QED BY <1>1, <1>6, <4>1 DEF FamilyInv, ZombieHoldsNothing, OpenFds
    <3>. QED BY <3>1, <3>2
  <2>2. ASSUME NEW p \in Slot, state'[p] = "DEAD"
        PROVE  pid'[p] = 0 /\ parent'[p] = 0 /\ pend'[p] = {} /\ ~waited'[p]
               /\ done'[p] = NoDone
    <3>1. state[p] = "DEAD"
      BY <1>9, <2>2
    <3>2. p # cur /\ p # Heir /\ p \notin Orphans(cur)
      BY <1>1, <1>2, <3>1 DEF Live, Orphans, Slot
    <3>. QED BY <1>1, <1>3, <1>4, <1>7, <3>1, <3>2 DEF FamilyInv, ZombieHoldsNothing
  <2>. QED BY <2>1, <2>2 DEF ZombieHoldsNothing
<1>14. ClosedAtNotify' /\ ZombiesWaitable'
  BY <1>1 DEF ClosedAtNotify, ZombiesWaitable
<1>15. OnlyZombiesWaited'
  BY <1>4, <1>9 DEF FamilyInv, OnlyZombiesWaited, Live
<1>16. NoMissedExit'
  <2>1. ASSUME NEW p \in Slot, NEW o \in Slot, state'[p] = "ZOMBIE", ~waited'[p],
               parent'[p] # 0, pid'[o] = parent'[p], WaitsFor(o, p)'
        PROVE  FALSE
    <3>1. parent'[p] = parent[p] /\ parent[p] # 0 /\ pid[o] = parent[p] /\ ~waited[p]
      BY <1>1, <1>4, <1>10, <2>1
    <3>2. o # cur /\ ~(Handoff /\ o = Heir)
      BY <1>5, <2>1 DEF WaitsFor
    <3>3. WaitsFor(o, p)
      BY <1>1, <1>5, <1>6, <2>1, <3>2 DEF WaitsFor
    <3>4. CASE p = cur
      <4>1. Heir # 0 /\ ~Handoff
        BY <1>4, <2>1, <3>4
      <4>2. Heir = o
        BY <1>2, <3>1, <3>4, <4>1 DEF FamilyInv, ParentsLive
      <4>. QED BY <1>2, <3>3, <3>4, <4>1, <4>2 DEF Handoff, Live
    <3>5. CASE p # cur
      <4>1. state[p] = "ZOMBIE"
        BY <1>5, <2>1, <3>5
      <4>. QED BY <3>1, <3>3, <4>1 DEF FamilyInv, NoMissedExit
    <3>. QED BY <3>4, <3>5
  <2>. QED BY <2>1 DEF NoMissedExit
<1>17. WaitersHaveChild'
  <2>1. ASSUME NEW p \in Slot, state'[p] = "BLOCKED", blk'[p].why = "child"
        PROVE  \E c \in Slot : Live(c)' /\ parent'[c] = pid'[p] /\ blk'[p].arg \in {0, pid'[c]}
    <3>1. p # cur /\ ~(Handoff /\ p = Heir)
      BY <1>5, <2>1
    <3>2. state[p] = "BLOCKED" /\ blk'[p] = blk[p] /\ pid'[p] = pid[p]
      BY <1>1, <1>5, <1>6, <2>1, <3>1
    <3>3. PICK c \in Slot : Live(c) /\ parent[c] = pid[p] /\ blk[p].arg \in {0, pid[c]}
      BY <2>1, <3>2 DEF FamilyInv, WaitersHaveChild
    <3>4. pid[p] # 0
      BY <3>2 DEF FamilyInv, PidsIssued
    <3>5. c # cur
      <4>1. SUFFICES ASSUME c = cur PROVE FALSE
        OBVIOUS
      <4>2. Heir # 0 /\ Heir = p
        BY <1>2, <3>3, <3>4, <4>1 DEF FamilyInv, ParentsLive
      <4>3. WaitsFor(p, cur)
        BY <2>1, <3>2, <3>3, <4>1 DEF WaitsFor
      <4>. QED BY <3>1, <3>2, <4>2, <4>3 DEF Handoff
    <3>6. c \notin Orphans(cur)
      <4>1. pid[p] # pid[cur]
        BY <1>1, <3>1, <3>4 DEF FamilyInv, ParentsLive
      <4>. QED BY <3>3, <4>1 DEF Orphans
    <3>. QED BY <1>1, <1>3, <1>9, <3>2, <3>3, <3>5, <3>6
  <2>. QED BY <2>1 DEF WaitersHaveChild
<1>. QED BY <1>11, <1>12, <1>13, <1>14, <1>15, <1>16, <1>17 DEF FamilyInv

(* The first process has no parent, no child and nothing open.              *)
LEMMA InitFamily == Init => FamilyInv
<1>. SUFFICES ASSUME Init PROVE FamilyInv
  OBVIOUS
<1>1. /\ \A p \in Slot : state[p] = IF p = 1 THEN "RUNNING" ELSE "DEAD"
      /\ \A p \in Slot : pid[p] = IF p = 1 THEN 1 ELSE 0
      /\ \A p \in Slot : parent[p] = 0 /\ waited[p] = FALSE /\ pend[p] = {}
      /\ \A p \in Slot : blk[p] = NoBlock /\ done[p] = NoDone /\ fds[p] = ClosedFds
      /\ next_pid = 2 /\ pc = "user"
  BY DEF Init
<1>2. 1 \in Pid
  BY KernelAssumption DEF Pid
<1>3. PidsIssued
  BY <1>1, <1>2 DEF PidsIssued
<1>4. ParentsLive /\ ParentOlder
  BY <1>1 DEF ParentsLive, ParentOlder
<1>5. ZombieHoldsNothing
  BY <1>1 DEF ZombieHoldsNothing, Live, OpenFds, ClosedFds
<1>6. ClosedAtNotify /\ OnlyZombiesWaited
  BY <1>1 DEF ClosedAtNotify, OnlyZombiesWaited
<1>7. NoMissedExit /\ WaitersHaveChild /\ ZombiesWaitable
  BY <1>1 DEF NoMissedExit, WaitersHaveChild, ZombiesWaitable
<1>. QED BY <1>3, <1>4, <1>5, <1>6, <1>7 DEF FamilyInv

(* The family stays in order for ever.                                      *)
LEMMA FamilyInvariant == Spec => []FamilyInv
<1>1. SchedInv /\ TypeOK /\ FamilyInv /\ [Next]_vars => FamilyInv'
  <2>. SUFFICES ASSUME SchedInv, TypeOK, FamilyInv, [Next]_vars PROVE FamilyInv'
    OBVIOUS
  <2>1. CASE Steady /\ (Waits \/ WaitsKept)
    <3>1. NoMissedExit' /\ WaitersHaveChild'
      BY <2>1, WaitsStart, SteadyWaits DEF Waits
    <3>. QED BY <2>1, <3>1, SteadyTree DEF FamilyInv
  <2>. QED BY <2>1, FamilyCases, ForkFamily, CollectFamily, NotifyFamily, ReapFamily
<1>. QED BY <1>1, InitFamily, SchedInvariant, TypeCorrect, PTL DEF Spec

(* For every table size and every interleaving of forks, exits, kills and   *)
(* waits, a parent field names a live process with that pid or nobody, and  *)
(* no two slots carry the same pid.                                         *)
THEOREM ParentsAlive == Spec => []ParentsLive
<1>1. FamilyInv => ParentsLive
  BY DEF FamilyInv
<1>. QED BY <1>1, FamilyInvariant, PTL

(* Nothing outlives a process: process_mark_exit leaves no descriptor and   *)
(* no block reason, process_destroy no field for the next owner of a slot.  *)
THEOREM NothingOutlives == Spec => []ZombieHoldsNothing
<1>1. FamilyInv => ZombieHoldsNothing
  BY DEF FamilyInv
<1>. QED BY <1>1, FamilyInvariant, PTL

(* Whenever user code runs, every zombie in the table has a live parent     *)
(* that can still collect it and is not asleep waiting for it.              *)
THEOREM ZombiesCollectable == Spec => []ZombiesWaitable
<1>1. FamilyInv => ZombiesWaitable
  BY DEF FamilyInv
<1>. QED BY <1>1, FamilyInvariant, PTL

(* No process sleeps in wait or waitpid without a live child that its wait  *)
(* matches: process_mark_exit never misses a sleeping parent, and a wait    *)
(* never goes to sleep on a child that has already gone.                    *)
THEOREM WaitsEnd == Spec => []WaitersHaveChild
<1>1. FamilyInv => WaitersHaveChild
  BY DEF FamilyInv
<1>. QED BY <1>1, FamilyInvariant, PTL

-----------------------------------------------------------------------------
(* What parents are told *)

Exiting(p) == state[p] = "ZOMBIE" \/ (p = cur /\ pc \in {"closing", "notify"})

(* The table still holds what a process ended with until it is destroyed.   *)
Recorded ==
    \A p \in Slot : Exiting(p) => log[pid[p]] = [code |-> code[p], sig |-> sig[p], dead |-> TRUE]

(* Nobody has been given, or is about to be given, a status for pid x.      *)
Fresh(x) == got[x] = <<>> /\ \A o \in Slot : done[o].pid # x

(* A status is in exactly one place: still in the table (not waited), on    *)
(* its way to a sleeping parent (done), or with the parent (got).           *)
OnePlace ==
    \A x \in Pid :
        /\ \A p \in Slot : pid[p] = x /\ ~waited[p] => Fresh(x)
        /\ x >= next_pid => Fresh(x)
        /\ got[x] = <<>> \/ (Len(got[x]) = 1 /\ \A o \in Slot : done[o].pid # x)
        /\ \A o, r \in Slot : done[o].pid = x /\ done[r].pid = x => o = r

(* A status on its way to a parent is the one its child ended with.         *)
OwedRight ==
    \A o \in Slot : done[o] # NoDone =>
        /\ done[o].pid \in Pid
        /\ log[done[o].pid].dead
        /\ done[o].status = Reported(done[o].by, log[done[o].pid].code, log[done[o].pid].sig)

GivenRight ==
    \A x \in Pid : \A i \in DOMAIN got[x] :
        /\ log[x].dead
        /\ got[x][i].status = Reported(got[x][i].by, log[x].code, log[x].sig)

StatusInv == Recorded /\ OnePlace /\ OwedRight /\ GivenRight

(* The three things a Steady step can do to a status.                       *)
Dies ==
    /\ state[cur] = "RUNNING" /\ cur' = cur /\ pc' = "closing"
    /\ \E c, s : /\ code' = [code EXCEPT ![cur] = c] /\ sig' = [sig EXCEPT ![cur] = s]
                 /\ log' = [log EXCEPT ![pid[cur]] = [code |-> c, sig |-> s, dead |-> TRUE]]
    /\ UNCHANGED <<done, got>>

Delivers ==
    /\ pc' = "reap" /\ UNCHANGED <<log, code, sig>>
    /\ done' = [done EXCEPT ![cur] = NoDone]
    /\ got' = IF done[cur] = NoDone THEN got
              ELSE [got EXCEPT ![done[cur].pid] =
                       Append(@, [by |-> done[cur].by, status |-> done[cur].status])]

Silent ==
    /\ UNCHANGED <<log, got, done, code, sig>>
    /\ pc' \in {"closing", "notify"} => pc \in {"closing", "notify"} /\ cur' = cur

(* Every step of the kernel is one of the four that change the family, or   *)
(* stores a status, gives one to a parent, or is silent about them.         *)
LEMMA StatusCases ==
    ASSUME SchedInv, TypeOK, [Next]_vars
    PROVE  Fork \/ Collects \/ Notify \/ Reap \/ Dies \/ Delivers \/ Silent
<1>1. CASE UserStep
  <2>0. pc = "user"
    BY <1>1 DEF UserStep, Fork, Exit, FatalFault, HandledFault, WaitCollect, WaitBlock, Kill,
           SysPipe, Read, Write, Close, Other, Syscall
  <2>1. cur \in Slot /\ state[cur] = "RUNNING" /\ Me = cur
    BY <2>0, UserFacts
  <2>2. ASSUME NEW c \in ExitCodes, Exit(c) PROVE Dies
    BY <2>1, <2>2 DEF Exit, MarkExit, Dies, blockVars
  <2>3. ASSUME NEW c \in Faults, FatalFault(c) PROVE Dies
    BY <2>1, <2>3 DEF FatalFault, MarkExit, Dies, blockVars
  <2>4. CASE HandledFault
    BY <2>4 DEF HandledFault, Silent, exitVars, blockVars, histVars
  <2>5. ASSUME NEW by, NEW t, WaitBlock(by, t) PROVE Silent
    BY <2>5 DEF WaitBlock, BlockCurrent, Silent, exitVars, histVars
  <2>6. ASSUME NEW x, NEW s, Kill(x, s) PROVE Silent
    BY <2>6 DEF Kill, Return, Silent, exitVars, blockVars, histVars
  <2>7. CASE SysPipe
    BY <2>7 DEF SysPipe, Return, Silent, exitVars, blockVars, histVars
  <2>8. ASSUME NEW f, NEW n, Read(f, n) PROVE Silent
    BY <2>8 DEF Read, Return, BlockCurrent, Silent, exitVars, histVars
  <2>9. ASSUME NEW f, NEW n, Write(f, n) PROVE Silent
    BY <2>9 DEF Write, Return, BlockCurrent, Silent, exitVars, histVars
  <2>10. ASSUME NEW f, Close(f) PROVE Silent
    BY <2>10 DEF Close, Return, Silent, exitVars, blockVars, histVars
  <2>11. CASE Other
    BY <2>11 DEF Other, Return, Silent, exitVars, blockVars, histVars
  <2>12. (\E t \in Pid \cup {0} : WaitCollect("waitpid", t)) \/ WaitCollect("wait", 0)
         => Collects
    BY DEF Collects
  <2>. QED
    BY <1>1, <2>2, <2>3, <2>4, <2>5, <2>6, <2>7, <2>8, <2>9, <2>10, <2>11, <2>12 DEF UserStep
<1>2. CASE Timer
  BY <1>2 DEF Timer, Silent, exitVars, blockVars, histVars
<1>3. CASE KernelStep
  <2>1. CASE CloseNext \/ CloseDone
    BY <2>1 DEF CloseNext, CloseDone, Silent, exitVars, blockVars, histVars, schedVars, cpuVars
  <2>2. CASE Stop \/ DeliverDone \/ NoFrame
    BY <2>2 DEF Stop, AfterStop, DeliverDone, NoFrame, Silent, exitVars, blockVars, histVars
  <2>3. CASE DeliverFatal
    <3>1. cur \in Slot /\ state[cur] = "RUNNING" /\ Me = cur
      BY <2>3, MeIsCur DEF DeliverFatal, Delivering, SchedInv, SchedType, RunningIsCurrent
    <3>. QED BY <2>3, <3>1 DEF DeliverFatal, MarkExit, Dies, blockVars
  <2>4. CASE DeliverChild
    BY <2>4 DEF DeliverChild, Delivering, Silent, exitVars, blockVars, histVars, schedVars,
                cpuVars
  <2>5. CASE Resume
    <3>1. cur \in Slot /\ state[cur] = "RUNNING" /\ Me = cur
      BY <2>5, MeIsCur DEF Resume, SchedInv, SchedType, RunningIsCurrent
    <3>. QED BY <2>5, <3>1 DEF Resume, CompleteWait, GiveStatus, Delivers, exitVars
  <2>. QED BY <1>3, <2>1, <2>2, <2>3, <2>4, <2>5 DEF KernelStep
<1>4. CASE UNCHANGED vars
  BY <1>4 DEF vars, Silent, exitVars, blockVars, histVars, schedVars, cpuVars
<1>. QED BY <1>1, <1>2, <1>3, <1>4 DEF Next, Halted

(* A list of statuses that was empty has one entry after an append.         *)
LEMMA FirstStatus ==
    ASSUME NEW r
    PROVE  /\ Len(Append(<<>>, r)) = 1
           /\ DOMAIN Append(<<>>, r) = 1 .. 1
           /\ Append(<<>>, r)[1] = r
OBVIOUS

(* The slot of a pid that has a slot is the only one.                       *)
LEMMA PidFacts ==
    ASSUME TypeOK, FamilyInv, NEW p \in Slot, state[p] # "DEAD"
    PROVE  /\ pid[p] \in Pid /\ pid[p] # 0 /\ pid[p] \in Nat /\ ~(pid[p] >= next_pid)
           /\ \A o \in Slot : pid[o] = pid[p] => o = p
<1>1. pid[p] \in Pid /\ pid[p] # 0 /\ pid[p] < next_pid
  BY DEF FamilyInv, PidsIssued
<1>2. pid[p] \in Nat /\ next_pid \in Nat
  BY DEF TypeOK
<1>. QED BY <1>1, <1>2 DEF FamilyInv, ParentsLive

(* A process stores the code it ends with; nobody has heard of it yet.      *)
LEMMA DiesStatus ==
    ASSUME SchedInv, TypeOK, FamilyInv, StatusInv, Steady, Dies
    PROVE  StatusInv'
<1>1. /\ cur \in Slot /\ state[cur] = "RUNNING" /\ cur' = cur /\ pc' = "closing"
      /\ UNCHANGED <<pid, waited, next_pid, done, got>> /\ SameProcs
  BY DEF Dies, Steady, SchedInv, SchedType
<1>2. PICK c, s : /\ code' = [code EXCEPT ![cur] = c] /\ sig' = [sig EXCEPT ![cur] = s]
                  /\ log' = [log EXCEPT ![pid[cur]] = [code |-> c, sig |-> s, dead |-> TRUE]]
  BY DEF Dies
<1>3. pid[cur] \in Pid /\ \A o \in Slot : pid[o] = pid[cur] => o = cur
  BY <1>1, PidFacts
<1>4. /\ log'[pid[cur]] = [code |-> c, sig |-> s, dead |-> TRUE]
      /\ \A x \in Pid : x # pid[cur] => log'[x] = log[x]
      /\ code'[cur] = c /\ sig'[cur] = s
      /\ \A p \in Slot : p # cur => code'[p] = code[p] /\ sig'[p] = sig[p]
  BY <1>1, <1>2, <1>3 DEF TypeOK
<1>5. Fresh(pid[cur])
  <2>1. ~waited[cur]
    BY <1>1 DEF FamilyInv, OnlyZombiesWaited, Live
  <2>. QED BY <1>1, <1>3, <2>1 DEF StatusInv, OnePlace
<1>6. Recorded'
  <2>1. ASSUME NEW p \in Slot, Exiting(p)'
        PROVE  log'[pid'[p]] = [code |-> code'[p], sig |-> sig'[p], dead |-> TRUE]
    <3>1. CASE p = cur
      BY <1>1, <1>4, <3>1
    <3>2. CASE p # cur
      <4>1. state[p] = "ZOMBIE"
        BY <1>1, <2>1, <3>2 DEF Exiting, SameProcs
      <4>2. pid[p] # pid[cur] /\ pid[p] \in Pid
        BY <1>3, <3>2, <4>1, PidFacts
      <4>3. log[pid[p]] = [code |-> code[p], sig |-> sig[p], dead |-> TRUE]
        BY <4>1 DEF StatusInv, Recorded, Exiting
      <4>. QED BY <1>1, <1>4, <3>2, <4>2, <4>3
    <3>. QED BY <3>1, <3>2
  <2>. QED BY <2>1 DEF Recorded
<1>7. OnePlace'
  BY <1>1 DEF StatusInv, OnePlace, Fresh
<1>8. OwedRight'
  BY <1>1, <1>4, <1>5 DEF StatusInv, OwedRight, Fresh
<1>9. GivenRight'
  <2>1. ASSUME NEW x \in Pid, NEW i \in DOMAIN got[x]
        PROVE  /\ log'[x].dead
               /\ got[x][i].status = Reported(got[x][i].by, log'[x].code, log'[x].sig)
    <3>1. x # pid[cur]
      <4>1. DOMAIN <<>> = {}
        OBVIOUS
      <4>. QED BY <1>5, <2>1, <4>1 DEF Fresh
    <3>2. log'[x] = log[x]
      BY <1>4, <3>1
    <3>. QED BY <2>1, <3>2 DEF StatusInv, GivenRight
  <2>. QED BY <1>1, <2>1 DEF GivenRight
<1>. QED BY <1>6, <1>7, <1>8, <1>9 DEF StatusInv

(* A resumed parent takes the status it is owed, and is owed none any more. *)
LEMMA DeliversStatus ==
    ASSUME SchedInv, TypeOK, FamilyInv, StatusInv, Steady, Delivers
    PROVE  StatusInv'
<1>1. /\ cur \in Slot /\ pc' = "reap" /\ UNCHANGED <<log, code, sig>>
      /\ UNCHANGED <<pid, waited, next_pid>> /\ SameProcs
      /\ done' = [done EXCEPT ![cur] = NoDone]
  BY DEF Delivers, Steady, SchedInv, SchedType
<1>2. /\ done'[cur] = NoDone
      /\ \A o \in Slot : o # cur => done'[o] = done[o]
  BY <1>1 DEF TypeOK
<1>3. Recorded'
  <2>1. \A p \in Slot : Exiting(p)' => Exiting(p)
    BY <1>1 DEF Exiting, SameProcs
  <2>. QED BY <1>1, <2>1 DEF StatusInv, Recorded
<1>4. OwedRight'
  BY <1>1, <1>2 DEF StatusInv, OwedRight
<1>5. NoDone.pid \notin Pid
  BY DEF NoDone, Pid
<1>6. CASE done[cur] = NoDone
  <2>1. got' = got
    BY <1>6 DEF Delivers
  <2>2. \A o \in Slot : done'[o] = done[o]
    BY <1>2, <1>6
  <2>3. OnePlace'
    BY <1>1, <2>1, <2>2 DEF StatusInv, OnePlace, Fresh
  <2>4. GivenRight'
    BY <1>1, <2>1 DEF StatusInv, GivenRight
  <2>. QED BY <1>3, <1>4, <2>3, <2>4 DEF StatusInv
<1>7. CASE done[cur] # NoDone
  <2>. DEFINE y == done[cur].pid
              r == [by |-> done[cur].by, status |-> done[cur].status]
  <2>1. /\ y \in Pid /\ log[y].dead
        /\ done[cur].status = Reported(done[cur].by, log[y].code, log[y].sig)
    BY <1>1, <1>7 DEF StatusInv, OwedRight
  <2>2. got' = [got EXCEPT ![y] = Append(@, r)]
    BY <1>7 DEF Delivers
  <2>3. got[y] = <<>> /\ ~Fresh(y)
    BY <1>1, <2>1 DEF StatusInv, OnePlace, Fresh
  <2>4. r.by = done[cur].by /\ r.status = done[cur].status
    OBVIOUS
  <2>. HIDE DEF r
  <2>5. /\ \A x \in Pid : x # y => got'[x] = got[x]
        /\ got'[y] = Append(<<>>, r)
    <3>. HIDE DEF y
    <3>. QED BY <2>1, <2>2, <2>3 DEF TypeOK
  <2>6. \A o \in Slot : done'[o].pid # y
    BY <1>1, <1>2, <1>5, <2>1 DEF StatusInv, OnePlace
  <2>7. OnePlace'
    <3>1. ASSUME NEW x \in Pid
          PROVE  /\ \A p \in Slot : pid'[p] = x /\ ~waited'[p] => Fresh(x)'
                 /\ x >= next_pid' => Fresh(x)'
                 /\ got'[x] = <<>> \/ (Len(got'[x]) = 1 /\ \A o \in Slot : done'[o].pid # x)
                 /\ \A o, q \in Slot : done'[o].pid = x /\ done'[q].pid = x => o = q
      <4>1. CASE x = y
        <5>1. Len(got'[x]) = 1
          BY <2>5, <4>1, FirstStatus
        <5>2. \A p \in Slot : ~(pid[p] = x /\ ~waited[p])
          BY <2>1, <2>3, <4>1 DEF StatusInv, OnePlace
        <5>3. ~(x >= next_pid)
          BY <2>1, <2>3, <4>1 DEF StatusInv, OnePlace
        <5>. QED BY <1>1, <2>6, <4>1, <5>1, <5>2, <5>3
      <4>2. CASE x # y
        <5>1. got'[x] = got[x]
          BY <2>5, <4>2
        <5>2. \A o \in Slot : done'[o].pid = x => done[o].pid = x
          BY <1>2, <1>5
        <5>3. Fresh(x) => Fresh(x)'
          BY <5>1, <5>2 DEF Fresh
        <5>. QED BY <1>1, <5>1, <5>2, <5>3 DEF StatusInv, OnePlace
      <4>. QED BY <4>1, <4>2
    <3>. QED BY <3>1 DEF OnePlace
  <2>8. GivenRight'
    <3>1. ASSUME NEW x \in Pid, NEW i \in DOMAIN got'[x]
          PROVE  /\ log[x].dead
                 /\ got'[x][i].status = Reported(got'[x][i].by, log[x].code, log[x].sig)
      <4>1. CASE x = y
        <5>1. i = 1 /\ got'[x][i] = r
          BY <2>5, <3>1, <4>1, FirstStatus
        <5>. QED BY <2>1, <2>4, <4>1, <5>1
      <4>2. CASE x # y
        BY <2>5, <3>1, <4>2 DEF StatusInv, GivenRight
      <4>. QED BY <4>1, <4>2
    <3>. QED BY <1>1, <3>1 DEF GivenRight
  <2>. QED BY <1>3, <1>4, <2>7, <2>8 DEF StatusInv
<1>. QED BY <1>6, <1>7

(* A step that is silent about statuses keeps everything known of them.     *)
LEMMA SilentStatus ==
    ASSUME SchedInv, TypeOK, FamilyInv, StatusInv, Steady, Silent
    PROVE  StatusInv'
<1>1. /\ UNCHANGED <<log, got, done, code, sig, pid, waited, next_pid>> /\ SameProcs
      /\ pc' \in {"closing", "notify"} => pc \in {"closing", "notify"} /\ cur' = cur
  BY DEF Silent, Steady
<1>2. Recorded'
  <2>1. \A p \in Slot : Exiting(p)' => Exiting(p)
    BY <1>1 DEF Exiting, SameProcs
  <2>. QED BY <1>1, <2>1 DEF StatusInv, Recorded
<1>3. OnePlace'
  BY <1>1 DEF StatusInv, OnePlace, Fresh
<1>4. OwedRight' /\ GivenRight'
  BY <1>1 DEF StatusInv, OwedRight, GivenRight
<1>. QED BY <1>2, <1>3, <1>4 DEF StatusInv

(* The pid that fork hands out is one nobody has been told about.           *)
LEMMA ForkStatus ==
    ASSUME SchedInv, TypeOK, FamilyInv, StatusInv, Fork
    PROVE  StatusInv'
<1>1. PICK child \in Slot :
          /\ state[child] = "DEAD" /\ child # cur
          /\ cur \in Slot /\ state[cur] = "RUNNING" /\ pc = "user" /\ pc' = "deliver"
          /\ next_pid <= MaxPid /\ next_pid' = next_pid + 1
          /\ \A p \in Slot :
                /\ state'[p] = IF p = child THEN "READY" ELSE state[p]
                /\ pid'[p] = IF p = child THEN next_pid ELSE pid[p]
                /\ parent'[p] = IF p = child THEN pid[cur] ELSE parent[p]
                /\ fds'[p] = IF p = child THEN fds[cur] ELSE fds[p]
          /\ UNCHANGED <<waited, code, sig, pend, blk, done, cur, log, got>>
  BY ForkFacts
<1>2. Recorded'
  <2>1. ASSUME NEW p \in Slot, Exiting(p)'
        PROVE  log'[pid'[p]] = [code |-> code'[p], sig |-> sig'[p], dead |-> TRUE]
    <3>1. state'[p] = "ZOMBIE"
      BY <1>1, <2>1 DEF Exiting
    <3>2. p # child
      BY <1>1, <3>1
    <3>3. state[p] = "ZOMBIE" /\ pid'[p] = pid[p]
      BY <1>1, <3>1, <3>2
    <3>. QED BY <1>1, <3>3 DEF StatusInv, Recorded, Exiting
  <2>. QED BY <2>1 DEF Recorded
<1>3. OnePlace'
  <2>1. \A x \in Pid : Fresh(x)' <=> Fresh(x)
    BY <1>1 DEF Fresh
  <2>2. next_pid \in Nat /\ \A x \in Pid : x \in Nat
    BY DEF TypeOK, Pid
  <2>3. \A x \in Pid : x >= next_pid' => x >= next_pid
    BY <1>1, <2>2
  <2>4. \A x \in Pid : x = next_pid => x >= next_pid
    BY <2>2
  <2>. QED BY <1>1, <2>1, <2>3, <2>4 DEF StatusInv, OnePlace
<1>4. OwedRight' /\ GivenRight'
  BY <1>1 DEF StatusInv, OwedRight, GivenRight
<1>. QED BY <1>2, <1>3, <1>4 DEF StatusInv

(* Destroying a zombie forgets its record in the table, and nothing else.   *)
LEMMA DestroyRecords ==
    ASSUME TypeOK, StatusInv, NEW D \in SUBSET Slot, \A p \in D : state[p] = "ZOMBIE",
           process_destroy(D), UNCHANGED <<next_pid, log>>, pc' \notin {"closing", "notify"}
    PROVE  Recorded' /\ OwedRight'
<1>1. \A p \in Slot :
        /\ state'[p] = IF p \in D THEN "DEAD" ELSE state[p]
        /\ pid'[p] = IF p \in D THEN 0 ELSE pid[p]
        /\ code'[p] = IF p \in D THEN 0 ELSE code[p]
        /\ sig'[p] = IF p \in D THEN 0 ELSE sig[p]
        /\ done'[p] = IF p \in D THEN NoDone ELSE done[p]
  BY DEF process_destroy
<1>2. Recorded'
  <2>1. ASSUME NEW p \in Slot, Exiting(p)'
        PROVE  log'[pid'[p]] = [code |-> code'[p], sig |-> sig'[p], dead |-> TRUE]
    <3>1. p \notin D /\ state[p] = "ZOMBIE"
      BY <1>1, <2>1 DEF Exiting
    <3>. QED BY <1>1, <3>1 DEF StatusInv, Recorded, Exiting
  <2>. QED BY <2>1 DEF Recorded
<1>3. OwedRight'
  BY <1>1 DEF StatusInv, OwedRight
<1>. QED BY <1>2, <1>3

(* Reaping gives no status to anybody.                                      *)
LEMMA ReapStatus ==
    ASSUME SchedInv, TypeOK, FamilyInv, StatusInv, Reap
    PROVE  StatusInv'
<1>. DEFINE D == {p \in Slot : Unclaimed(p)}
<1>1. /\ D \in SUBSET Slot /\ process_destroy(D) /\ UNCHANGED <<next_pid, log, got>>
      /\ pc' \notin {"closing", "notify"}
  BY DEF Reap, histVars
<1>2. \A p \in D : state[p] = "ZOMBIE"
  BY DEF Unclaimed
<1>. HIDE DEF D
<1>3. Recorded' /\ OwedRight'
  BY <1>1, <1>2, DestroyRecords
<1>4. /\ \A p \in Slot : pid'[p] = IF p \in D THEN 0 ELSE pid[p]
      /\ \A p \in Slot : waited'[p] = (p \notin D /\ waited[p])
      /\ \A p \in Slot : done'[p] = IF p \in D THEN NoDone ELSE done[p]
  BY <1>1 DEF process_destroy
<1>5. NoDone.pid \notin Pid /\ 0 \notin Pid
  BY DEF NoDone, Pid
<1>6. OnePlace'
  <2>1. \A x \in Pid, o \in Slot : done'[o].pid = x => done[o].pid = x
    BY <1>4, <1>5
  <2>2. \A x \in Pid : Fresh(x) => Fresh(x)'
    BY <1>1, <2>1 DEF Fresh
  <2>3. \A x \in Pid, p \in Slot : pid'[p] = x /\ ~waited'[p] => pid[p] = x /\ ~waited[p]
    BY <1>4, <1>5
  <2>. QED BY <1>1, <2>1, <2>2, <2>3 DEF StatusInv, OnePlace
<1>7. GivenRight'
  BY <1>1 DEF StatusInv, GivenRight
<1>. QED BY <1>3, <1>6, <1>7 DEF StatusInv

(* The status of an exited child moves from the table to its parent.        *)
LEMMA CollectStatus ==
    ASSUME SchedInv, TypeOK, FamilyInv, StatusInv, Collects
    PROVE  StatusInv'
<1>1. PICK by \in {"wait", "waitpid"}, t \in Pid \cup {0} : WaitCollect(by, t)
  BY DEF Collects
<1>2. PICK child \in Slot :
        /\ state[child] = "ZOMBIE" /\ ~waited[child]
        /\ process_destroy({child}) /\ UNCHANGED <<next_pid, log>> /\ pc' = "deliver"
        /\ got' = [got EXCEPT ![pid[child]] =
                      Append(@, [by |-> by, status |-> Reported(by, code[child], sig[child])])]
  <2>1. /\ ExitedChild(t) \in Slot /\ state[ExitedChild(t)] = "ZOMBIE"
        /\ ~waited[ExitedChild(t)]
    BY <1>1, ExitedChildFacts DEF WaitCollect
  <2>. QED BY <1>1, <2>1 DEF WaitCollect
<1>. DEFINE r == [by |-> by, status |-> Reported(by, code[child], sig[child])]
            y == pid[child]
<1>3. Recorded' /\ OwedRight'
  <2>1. {child} \in SUBSET Slot /\ \A p \in {child} : state[p] = "ZOMBIE"
    BY <1>2
  <2>2. pc' \notin {"closing", "notify"}
    BY <1>2
  <2>. QED BY <1>2, <2>1, <2>2, DestroyRecords
<1>4. /\ \A p \in Slot : pid'[p] = IF p = child THEN 0 ELSE pid[p]
      /\ \A p \in Slot : waited'[p] = (p # child /\ waited[p])
      /\ \A p \in Slot : done'[p] = IF p = child THEN NoDone ELSE done[p]
  BY <1>2 DEF process_destroy
<1>5. NoDone.pid \notin Pid /\ 0 \notin Pid
  BY DEF NoDone, Pid
<1>6. y \in Pid /\ ~(y >= next_pid) /\ \A o \in Slot : pid[o] = y => o = child
  BY <1>2, PidFacts
<1>7. Fresh(y)
  BY <1>2, <1>6 DEF StatusInv, OnePlace
<1>8. /\ r.by = by
      /\ log[y].dead /\ r.status = Reported(by, log[y].code, log[y].sig)
  <2>1. log[y] = [code |-> code[child], sig |-> sig[child], dead |-> TRUE]
    BY <1>2 DEF StatusInv, Recorded, Exiting
  <2>2. log[y].code = code[child] /\ log[y].sig = sig[child] /\ log[y].dead = TRUE
    BY <2>1
  <2>. QED BY <2>2
<1>. HIDE DEF r
<1>9. /\ \A x \in Pid : x # y => got'[x] = got[x]
      /\ got'[y] = Append(<<>>, r)
  BY <1>2, <1>6, <1>7 DEF TypeOK, Fresh, r
<1>10. \A x \in Pid, o \in Slot : done'[o].pid = x => done[o].pid = x
  BY <1>4, <1>5
<1>11. OnePlace'
  <2>1. ASSUME NEW x \in Pid
        PROVE  /\ \A p \in Slot : pid'[p] = x /\ ~waited'[p] => Fresh(x)'
               /\ x >= next_pid' => Fresh(x)'
               /\ got'[x] = <<>> \/ (Len(got'[x]) = 1 /\ \A o \in Slot : done'[o].pid # x)
               /\ \A o, q \in Slot : done'[o].pid = x /\ done'[q].pid = x => o = q
    <3>1. CASE x = y
      <4>1. Len(got'[x]) = 1
        BY <1>9, <3>1, FirstStatus
      <4>2. \A o \in Slot : done'[o].pid # x
        BY <1>7, <1>10, <3>1 DEF Fresh
      <4>3. \A p \in Slot : pid'[p] # x
        BY <1>4, <1>5, <1>6, <3>1
      <4>. QED BY <1>2, <1>6, <3>1, <4>1, <4>2, <4>3
    <3>2. CASE x # y
      <4>1. got'[x] = got[x]
        BY <1>9, <3>2
      <4>2. Fresh(x) => Fresh(x)'
        BY <1>10, <4>1 DEF Fresh
      <4>3. \A p \in Slot : pid'[p] = x /\ ~waited'[p] => pid[p] = x /\ ~waited[p]
        BY <1>4, <1>5
      <4>4. /\ \A p \in Slot : pid[p] = x /\ ~waited[p] => Fresh(x)
            /\ x >= next_pid => Fresh(x)
            /\ got[x] = <<>> \/ (Len(got[x]) = 1 /\ \A o \in Slot : done[o].pid # x)
            /\ \A o, q \in Slot : done[o].pid = x /\ done[q].pid = x => o = q
        BY DEF StatusInv, OnePlace
      <4>5. \A o \in Slot : done'[o].pid = x => done[o].pid = x
        BY <1>10
      <4>6. next_pid' = next_pid
        BY <1>2
      <4>. HIDE DEF y
      <4>. QED BY <4>1, <4>2, <4>3, <4>4, <4>5, <4>6
    <3>. QED BY <3>1, <3>2
  <2>. QED BY <2>1 DEF OnePlace
<1>12. GivenRight'
  <2>1. ASSUME NEW x \in Pid, NEW i \in DOMAIN got'[x]
        PROVE  /\ log[x].dead
               /\ got'[x][i].status = Reported(got'[x][i].by, log[x].code, log[x].sig)
    <3>1. CASE x = y
      <4>1. i = 1 /\ got'[x][i] = r
        BY <1>9, <2>1, <3>1, FirstStatus
      <4>. QED BY <1>8, <3>1, <4>1
    <3>2. CASE x # y
      BY <1>9, <2>1, <3>2 DEF StatusInv, GivenRight
    <3>. QED BY <3>1, <3>2
  <2>. QED BY <1>2, <2>1 DEF GivenRight
<1>. QED BY <1>3, <1>11, <1>12 DEF StatusInv

(* An exit hands its status to a parent asleep for it, and then the table   *)
(* counts it as given.                                                      *)
LEMMA NotifyStatus ==
    ASSUME SchedInv, TypeOK, FamilyInv, StatusInv, Notify
    PROVE  StatusInv'
<1>1. /\ pc = "notify" /\ pc' = "stop" /\ cur \in Slot /\ state[cur] = "RUNNING"
      /\ UNCHANGED <<pid, next_pid, fds, cur, code, sig, log, got>>
  BY NotifyFacts
<1>2. Heir # 0 => Heir \in Slot /\ Heir # cur
  BY NotifyFacts
<1>3. \A p \in Slot : waited'[p] <=> \/ waited[p]
                                     \/ p \in Orphans(cur) /\ state[p] = "ZOMBIE"
                                     \/ p = cur /\ (Heir = 0 \/ Handoff)
  BY NotifyFacts
<1>4. \A p \in Slot : state'[p] = IF p = cur THEN "ZOMBIE"
                                  ELSE IF Handoff /\ p = Heir THEN "READY"
                                  ELSE state[p]
  BY NotifyFacts
<1>5. /\ \A p \in Slot : ~(Handoff /\ p = Heir) => done'[p] = done[p]
      /\ Handoff => \E by \in {"wait", "waitpid"} :
            done'[Heir] = [pid |-> pid[cur], by |-> by,
                           status |-> Reported(by, code[cur], sig[cur])]
  BY NotifyFacts
<1>6. log[pid[cur]] = [code |-> code[cur], sig |-> sig[cur], dead |-> TRUE]
  BY <1>1 DEF StatusInv, Recorded, Exiting
<1>7. pid[cur] \in Pid /\ ~(pid[cur] >= next_pid) /\ \A o \in Slot : pid[o] = pid[cur] => o = cur
  BY <1>1, PidFacts
<1>8. Fresh(pid[cur])
  <2>1. ~waited[cur]
    BY <1>1 DEF FamilyInv, OnlyZombiesWaited, Live
  <2>. QED BY <1>1, <1>7, <2>1 DEF StatusInv, OnePlace
<1>9. Recorded'
  <2>1. ASSUME NEW p \in Slot, Exiting(p)' PROVE Exiting(p)
    <3>1. state'[p] = "ZOMBIE"
      BY <1>1, <2>1 DEF Exiting
    <3>. QED BY <1>1, <1>4, <3>1 DEF Exiting
  <2>. QED BY <1>1, <2>1 DEF StatusInv, Recorded
<1>10. GivenRight'
  BY <1>1 DEF StatusInv, GivenRight
<1>11. CASE ~Handoff
  <2>1. \A p \in Slot : done'[p] = done[p]
    BY <1>5, <1>11
  <2>2. OwedRight'
    BY <1>1, <2>1 DEF StatusInv, OwedRight
  <2>3. \A x \in Pid : Fresh(x)' <=> Fresh(x)
    BY <1>1, <2>1 DEF Fresh
  <2>4. OnePlace'
    BY <1>1, <1>3, <2>1, <2>3 DEF StatusInv, OnePlace
  <2>. QED BY <1>9, <1>10, <2>2, <2>4 DEF StatusInv
<1>12. CASE Handoff
  <2>1. Heir \in Slot
    BY <1>2, <1>12 DEF Handoff
  <2>2. PICK by \in {"wait", "waitpid"} :
            done'[Heir] = [pid |-> pid[cur], by |-> by,
                           status |-> Reported(by, code[cur], sig[cur])]
    BY <1>5, <1>12
  <2>3. /\ done'[Heir].pid = pid[cur] /\ done'[Heir].by = by
        /\ done'[Heir].status = Reported(by, code[cur], sig[cur])
    BY <2>2
  <2>4. \A p \in Slot : p # Heir => done'[p] = done[p]
    BY <1>5
  <2>5. OwedRight'
    <3>1. ASSUME NEW o \in Slot, done'[o] # NoDone
          PROVE  /\ done'[o].pid \in Pid /\ log'[done'[o].pid].dead
                 /\ done'[o].status = Reported(done'[o].by, log'[done'[o].pid].code,
                                               log'[done'[o].pid].sig)
      <4>1. CASE o = Heir
        BY <1>1, <1>6, <1>7, <2>3, <4>1
      <4>2. CASE o # Heir
        BY <1>1, <2>4, <3>1, <4>2 DEF StatusInv, OwedRight
      <4>. QED BY <4>1, <4>2
    <3>. QED BY <3>1 DEF OwedRight
  <2>6. OnePlace'
    <3>1. ASSUME NEW x \in Pid
          PROVE  /\ \A p \in Slot : pid'[p] = x /\ ~waited'[p] => Fresh(x)'
                 /\ x >= next_pid' => Fresh(x)'
                 /\ got'[x] = <<>> \/ (Len(got'[x]) = 1 /\ \A o \in Slot : done'[o].pid # x)
                 /\ \A o, q \in Slot : done'[o].pid = x /\ done'[q].pid = x => o = q
      <4>1. CASE x = pid[cur]
        <5>1. got'[x] = <<>>
          BY <1>1, <1>8, <4>1 DEF Fresh
        <5>2. \A p \in Slot : ~(pid'[p] = x /\ ~waited'[p])
          BY <1>1, <1>3, <1>7, <1>12, <4>1
        <5>3. \A o \in Slot : done'[o].pid = x => o = Heir
          BY <1>8, <2>4, <4>1 DEF Fresh
        <5>. QED BY <1>1, <1>7, <4>1, <5>1, <5>2, <5>3
      <4>2. CASE x # pid[cur]
        <5>1. \A o \in Slot : done'[o].pid = x => done[o].pid = x
          BY <2>3, <2>4, <4>2
        <5>2. Fresh(x) => Fresh(x)'
          BY <1>1, <5>1 DEF Fresh
        <5>. QED BY <1>1, <1>3, <5>1, <5>2 DEF StatusInv, OnePlace
      <4>. QED BY <4>1, <4>2
    <3>. QED BY <3>1 DEF OnePlace
  <2>. QED BY <1>9, <1>10, <2>5, <2>6 DEF StatusInv
<1>. QED BY <1>11, <1>12

(* Nothing has been said about anybody yet.                                 *)
LEMMA InitStatus == Init => StatusInv
<1>. SUFFICES ASSUME Init PROVE StatusInv
  OBVIOUS
<1>1. /\ \A p \in Slot : state[p] # "ZOMBIE" /\ done[p] = NoDone
      /\ \A x \in Pid : got[x] = <<>>
      /\ pc = "user"
  BY DEF Init
<1>2. NoDone.pid \notin Pid
  BY DEF NoDone, Pid
<1>3. DOMAIN <<>> = {}
  OBVIOUS
<1>. QED BY <1>1, <1>2, <1>3
         DEF StatusInv, Recorded, Exiting, OnePlace, Fresh, OwedRight, GivenRight

(* Every status is in one place, and right, for ever.                       *)
LEMMA StatusInvariant == Spec => []StatusInv
<1>1. SchedInv /\ TypeOK /\ FamilyInv /\ StatusInv /\ [Next]_vars => StatusInv'
  <2>. SUFFICES ASSUME SchedInv, TypeOK, FamilyInv, StatusInv, [Next]_vars PROVE StatusInv'
    OBVIOUS
  <2>1. CASE Fork \/ Collects \/ Notify \/ Reap
    BY <2>1, ForkStatus, CollectStatus, NotifyStatus, ReapStatus
  <2>2. CASE ~(Fork \/ Collects \/ Notify \/ Reap)
    <3>1. Steady /\ (Dies \/ Delivers \/ Silent)
      BY <2>2, FamilyCases, StatusCases
    <3>. QED BY <3>1, DiesStatus, DeliversStatus, SilentStatus
  <2>. QED BY <2>1, <2>2
<1>. QED BY <1>1, InitStatus, SchedInvariant, TypeCorrect, FamilyInvariant, PTL DEF Spec

(* Whichever way a status travels (collected from the table by wait or      *)
(* waitpid, or handed to a sleeping parent and completed on its way back to *)
(* user mode), a parent gets it at most once and it is the one the child    *)
(* ended with.                                                              *)
THEOREM StatusOnce == Spec => []CollectedOnce
<1>1. TypeOK /\ StatusInv => CollectedOnce
  <2>. SUFFICES ASSUME StatusInv, NEW x \in Pid PROVE Len(got[x]) <= 1
    BY DEF CollectedOnce, StatusInv, GivenRight
  <2>1. CASE got[x] = <<>>
    BY <2>1
  <2>2. CASE Len(got[x]) = 1
    BY <2>2
  <2>. QED BY <2>1, <2>2 DEF StatusInv, OnePlace
<1>. QED BY <1>1, TypeCorrect, StatusInvariant, PTL

-----------------------------------------------------------------------------
(* When the machine stops *)

Idle == (esp = 0 /\ pc \in {"deliver", "resume"}) \/ Stopped

(* A trap that has no frame to return to leaves nobody who could run.       *)
NobodyRuns == Idle => \A p \in Slot : state[p] \notin {"READY", "RUNNING"}

(* Whoever is BLOCKED has a reason to be.                                   *)
SleepersHaveReason == \A p \in Slot : state[p] = "BLOCKED" => blk[p].why # "none"

(* Only scheduler_exit_current, when the queue is empty, comes back without *)
(* a frame; what follows changes no process.                                *)
LEMMA IdleCases ==
    ASSUME SchedInv, TypeOK, [Next]_vars, Idle'
    PROVE  (Stop /\ queue = <<>> /\ state' = state) \/ (Idle /\ state' = state)
<1>0. 0 \notin Slot
  BY DEF Slot
<1>1. CASE UserStep
  <2>0. pc = "user"
    BY <1>1 DEF UserStep, Fork, Exit, FatalFault, HandledFault, WaitCollect, WaitBlock, Kill,
           SysPipe, Read, Write, Close, Other, Syscall
  <2>1. cur \in Slot /\ cur # 0 /\ Me = cur
    BY <1>0, <2>0, UserFacts
  <2>2. ASSUME NEW b, BlockCurrent(b) PROVE ~Idle'
    <3>1. HasNext => Next1 \in Slot
      BY NextFacts DEF HasNext, SchedInv
    <3>2. pc' = "deliver" /\ esp' # 0
      BY <1>0, <2>1, <2>2, <3>1 DEF BlockCurrent, Dispatch
    <3>. QED BY <3>2 DEF Idle, Stopped
  <2>3. Return => ~Idle'
    BY <2>1 DEF Return, Idle, Stopped
  <2>4. Fork \/ HandledFault => ~Idle'
    BY <2>1 DEF Fork, HandledFault, Idle, Stopped
  <2>5. \A c : Exit(c) \/ FatalFault(c) => ~Idle'
    BY DEF Exit, FatalFault, MarkExit, Idle, Stopped
  <2>6. \A by, t : WaitCollect(by, t) => ~Idle'
    BY <2>1 DEF WaitCollect, Idle, Stopped
  <2>7. \A by, t : WaitBlock(by, t) => ~Idle'
    BY <2>2 DEF WaitBlock
  <2>8. \A f, n : Read(f, n) \/ Write(f, n) => ~Idle'
    BY <2>2, <2>3 DEF Read, Write
  <2>9. /\ SysPipe \/ Other => ~Idle'
        /\ \A f : Close(f) => ~Idle'
        /\ \A x, s : Kill(x, s) => ~Idle'
    BY <2>3 DEF SysPipe, Other, Close, Kill
  <2>. QED BY <1>1, <2>4, <2>5, <2>6, <2>7, <2>8, <2>9 DEF UserStep
<1>2. CASE Timer
  <2>1. cur \in Slot /\ pc' = "deliver"
    BY <1>2, UserFacts DEF Timer
  <2>2. CanPreempt => Next1 \in Slot
    BY NextFacts DEF CanPreempt, SchedInv
  <2>3. esp' \in Slot
    BY <1>2, <2>1, <2>2 DEF Timer, Dispatch
  <2>. QED BY <1>0, <2>1, <2>3 DEF Idle, Stopped
<1>3. CASE Stop
  <2>1. queue # <<>> => HasNext /\ Next1 \in Slot
    BY NextFacts DEF SchedInv
  <2>2. pc' \in {"deliver", "resume"} /\ (HasNext => esp' = Next1)
    BY <1>3 DEF Stop, AfterStop, Dispatch
  <2>3. queue = <<>>
    BY <1>0, <2>1, <2>2 DEF Idle, Stopped
  <2>. QED BY <1>3, <2>3 DEF Stop, HasNext
<1>4. CASE CloseNext \/ CloseDone \/ Notify \/ DeliverFatal \/ Resume \/ Reap
  <2>1. pc' \in {"closing", "notify", "stop", "reap", "user"}
    BY <1>4 DEF CloseNext, CloseDone, Notify, DeliverFatal, MarkExit, Resume, Reap, cpuVars
  <2>. QED BY <2>1 DEF Idle, Stopped
<1>5. CASE DeliverChild \/ DeliverDone \/ NoFrame \/ UNCHANGED vars
  BY <1>5 DEF DeliverChild, Delivering, DeliverDone, NoFrame, vars, Idle, Stopped,
              schedVars, cpuVars
<1>. QED BY <1>1, <1>2, <1>3, <1>4, <1>5 DEF Next, KernelStep, Halted

(* The invariant behind the halt.                                           *)
LEMMA HaltInvariant == Spec => [](NobodyRuns /\ SleepersHaveReason)
<1>1. ASSUME SchedInv, TypeOK, NobodyRuns, [Next]_vars PROVE NobodyRuns'
  <2>1. CASE Stop /\ queue = <<>> /\ state' = state
    <3>1. \A p \in Slot : state[p] # "READY"
      <4>1. Queued(<<>>) = {}
        BY DEF Queued
      <4>. QED BY <1>1, <2>1, <4>1 DEF SchedInv, QueueIsReady
    <3>2. \A p \in Slot : state[p] # "RUNNING"
      BY <1>1, <2>1 DEF Stop, SchedInv, RunningIsCurrent, StoppedIsZombie
    <3>. QED BY <2>1, <3>1, <3>2 DEF NobodyRuns
  <2>2. CASE Idle /\ state' = state
    BY <1>1, <2>2 DEF NobodyRuns
  <2>. QED BY <1>1, <2>1, <2>2, IdleCases DEF NobodyRuns
<1>2. ASSUME SchedInv, TypeOK, FamilyInv, SleepersHaveReason, [Next]_vars
      PROVE  SleepersHaveReason'
  <2>1. CASE Fork
    <3>1. PICK child \in Slot :
              /\ \A p \in Slot : state'[p] = IF p = child THEN "READY" ELSE state[p]
              /\ blk' = blk
      BY <1>2, <2>1, ForkFacts
    <3>. QED BY <1>2, <3>1 DEF SleepersHaveReason
  <2>2. ASSUME NEW D, process_destroy(D) PROVE SleepersHaveReason'
    BY <1>2, <2>2 DEF SleepersHaveReason, process_destroy
  <2>3. CASE Collects \/ Reap
    BY <2>2, <2>3 DEF Collects, WaitCollect, Reap
  <2>4. CASE Notify
    <3>1. /\ \A p \in Slot : state'[p] = IF p = cur THEN "ZOMBIE"
                                          ELSE IF Handoff /\ p = Heir THEN "READY"
                                          ELSE state[p]
          /\ \A p \in Slot : blk'[p] = IF p = cur \/ (Handoff /\ p = Heir) THEN NoBlock
                                        ELSE blk[p]
      BY <1>2, <2>4, NotifyFacts
    <3>. QED BY <1>2, <3>1 DEF SleepersHaveReason
  <2>5. CASE Steady
    BY <1>2, <2>5 DEF Steady, SleepersHaveReason
  <2>. QED BY <1>2, <2>1, <2>3, <2>4, <2>5, FamilyCases
<1>3. Init => NobodyRuns /\ SleepersHaveReason
  BY DEF Init, NobodyRuns, SleepersHaveReason, Idle, Stopped
<1>. QED BY <1>1, <1>2, <1>3, SchedInvariant, TypeCorrect, FamilyInvariant, PTL DEF Spec

(* Of the live processes no older than p one is the youngest.               *)
LEMMA Youngest ==
    ASSUME TypeOK, FamilyInv, NEW p \in Slot, Live(p)
    PROVE  \E c \in Slot : /\ Live(c) /\ pid[c] >= pid[p]
                           /\ \A d \in Slot : Live(d) => pid[d] <= pid[c]
<1>1. MaxPid \in Nat /\ \A c \in Slot : pid[c] \in Nat /\ pid[c] <= MaxPid
  <2>1. MaxPid \in Nat
    BY KernelAssumption
  <2>2. \A c \in Slot : pid[c] \in Pid \cup {0}
    BY DEF FamilyInv, PidsIssued
  <2>. QED BY <2>1, <2>2 DEF Pid
<1>. DEFINE L == {c \in Slot : Live(c)}
            T == {MaxPid - pid[c] : c \in L}
<1>2. T \subseteq Nat /\ T # {}
  BY <1>1
<1>3. PICK x \in T : \A y \in T : x <= y
  <2>. HIDE DEF T
  <2>. QED BY <1>2, LeastNat
<1>4. PICK c \in L : x = MaxPid - pid[c]
  BY <1>3
<1>5. ASSUME NEW d \in Slot, Live(d) PROVE pid[d] <= pid[c]
  <2>1. MaxPid - pid[d] \in T
    BY <1>5
  <2>2. MaxPid - pid[c] <= MaxPid - pid[d]
    BY <1>3, <1>4, <2>1
  <2>. QED BY <1>1, <1>4, <2>2
<1>6. pid[p] <= pid[c] /\ c \in Slot /\ Live(c)
  BY <1>4, <1>5
<1>7. pid[c] >= pid[p]
  BY <1>1, <1>6
<1>. QED BY <1>5, <1>6, <1>7

(* The CPU halts for good only when nobody can run, and never on parents    *)
(* and children alone: the youngest process left cannot be waiting for a    *)
(* child, which would be younger still, so it sleeps on a pipe.             *)
THEOREM HaltsRightly == Spec => []HaltsWhenDone
<1>1. ASSUME TypeOK, FamilyInv, NobodyRuns, SleepersHaveReason PROVE HaltsWhenDone
  <2>. SUFFICES ASSUME Stopped, NEW p \in Slot, Live(p)
                PROVE  /\ state[p] = "BLOCKED"
                       /\ \E o \in Slot : /\ state[o] = "BLOCKED"
                                          /\ blk[o].why \in {"read", "write"}
                                          /\ pid[o] >= pid[p]
    BY DEF HaltsWhenDone
  <2>1. \A o \in Slot : Live(o) => state[o] = "BLOCKED"
    BY <1>1 DEF NobodyRuns, Idle, Live, TypeOK, ProcessState
  <2>2. PICK c \in Slot : /\ Live(c) /\ pid[c] >= pid[p]
                          /\ \A d \in Slot : Live(d) => pid[d] <= pid[c]
    BY <1>1, Youngest
  <2>3. state[c] = "BLOCKED" /\ blk[c].why \in {"child", "read", "write"}
    <3>1. state[c] = "BLOCKED" /\ blk[c].why # "none"
      BY <1>1, <2>1, <2>2 DEF SleepersHaveReason
    <3>2. blk[c] \in Block
      BY <1>1 DEF TypeOK, Block
    <3>. QED BY <3>1, <3>2 DEF Block
  <2>4. blk[c].why # "child"
    <3>1. SUFFICES ASSUME blk[c].why = "child" PROVE FALSE
      OBVIOUS
    <3>2. PICK d \in Slot : Live(d) /\ parent[d] = pid[c]
      BY <1>1, <2>3, <3>1 DEF FamilyInv, WaitersHaveChild
    <3>3. pid[c] # 0
      BY <1>1, <2>3 DEF FamilyInv, PidsIssued
    <3>4. pid[c] < pid[d] /\ pid[d] <= pid[c]
      BY <1>1, <2>2, <3>2, <3>3 DEF FamilyInv, ParentOlder
    <3>5. pid[c] \in Nat /\ pid[d] \in Nat
      BY <1>1 DEF TypeOK
    <3>. QED BY <3>4, <3>5
  <2>. QED BY <2>1, <2>2, <2>3, <2>4
<1>. QED BY <1>1, TypeCorrect, FamilyInvariant, HaltInvariant, PTL

-----------------------------------------------------------------------------
(***************************************************************************)
(* The reader and writer counts of the pipes.                              *)
(*                                                                         *)
(* fork adds to a count as many as the child inherits, SYS_PIPE starts it  *)
(* at one on a pipe nobody holds, and each close takes one off; every      *)
(* other step leaves the counts and the descriptor tables alone.  That the *)
(* counts are exact rests on what KernelFamily_proofs shows of free slots: *)
(* the slot fork fills holds no descriptor, and a process that is          *)
(* destroyed has closed its own.                                           *)
(***************************************************************************)

End(q, e) == [pipe |-> q, end |-> e]

(* What closing descriptor f of the running process does.                   *)
ClosesEnd(f) ==
    /\ cur \in Slot /\ f \in Fd /\ fds[cur][f] # NoEnd
    /\ fds' = [fds EXCEPT ![cur][f] = NoEnd]
    /\ pipe_close(fds[cur][f])

(* There are finitely many descriptors.                                     *)
LEMMA HoldersFinite ==
    /\ IsFiniteSet(Fd)
    /\ \A q, e : /\ IsFiniteSet(Holders(q, e)) /\ Cardinality(Holders(q, e)) \in Nat
                 /\ Holders(q, e) \subseteq Slot \X Fd
<1>1. IsFiniteSet(Fd)
  BY KernelAssumption, FS_Interval DEF Fd
<1>2. IsFiniteSet(Slot \X Fd)
  BY <1>1, SlotsFinite, FS_Product
<1>3. ASSUME NEW q, NEW e
      PROVE  /\ Holders(q, e) \in SUBSET (Slot \X Fd)
             /\ IsFiniteSet(Holders(q, e)) /\ Cardinality(Holders(q, e)) \in Nat
  <2>1. Holders(q, e) \in SUBSET (Slot \X Fd)
    BY DEF Holders
  <2>2. IsFiniteSet(Holders(q, e))
    BY <1>2, <2>1, FS_Subset
  <2>. QED BY <2>1, <2>2, FS_CardinalityType
<1>. QED BY <1>1, <1>3

(* A descriptor is a holder of the end it is open on, and of no other.      *)
LEMMA HolderIs ==
    ASSUME NEW p \in Slot, NEW f \in Fd, NEW q, NEW e
    PROVE  /\ <<p, f>> \in Holders(q, e) <=> fds[p][f] = End(q, e)
           /\ <<p, f>> \in Holders(q, e)' <=> fds'[p][f] = End(q, e)
BY DEF Holders, End

(* Sets of holders are compared descriptor by descriptor.                   *)
LEMMA SameHolders ==
    ASSUME NEW S, NEW T, S \subseteq Slot \X Fd, T \subseteq Slot \X Fd,
           \A p \in Slot, f \in Fd : <<p, f>> \in S <=> <<p, f>> \in T
    PROVE  S = T
<1>1. ASSUME NEW x \in Slot \X Fd PROVE x \in S <=> x \in T
  <2>1. PICK p \in Slot, f \in Fd : x = <<p, f>>
    OBVIOUS
  <2>. QED BY <2>1
<1>. QED BY <1>1

(* An end is never the closed descriptor, and ends are told apart by pipe   *)
(* and direction.                                                           *)
LEMMA EndFacts ==
    /\ \A q \in Pipe : \A e : End(q, e) # NoEnd
    /\ \A q, r, d, e : End(q, d) = End(r, e) <=> q = r /\ d = e
    /\ \A x \in PipeEnd : x # NoEnd => /\ x.pipe \in Pipe /\ x.end \in {"r", "w"}
                                       /\ x = End(x.pipe, x.end)
<1>1. \A q, e : End(q, e).pipe = q /\ End(q, e).end = e
  BY DEF End
<1>2. NoEnd.pipe = 0 /\ 0 \notin Pipe
  BY DEF NoEnd, Pipe
<1>3. \A x \in PipeEnd : x # NoEnd => /\ x.pipe \in Pipe /\ x.end \in {"r", "w"}
                                      /\ x = End(x.pipe, x.end)
  BY DEF PipeEnd, End
<1>. QED BY <1>1, <1>2, <1>3

(* Closing a descriptor takes one holder away from its end of its pipe.     *)
LEMMA CloseHolders ==
    ASSUME TypeOK, NEW f, ClosesEnd(f), NEW q \in Pipe, NEW e \in {"r", "w"}
    PROVE  Cardinality(Holders(q, e)') =
             IF fds[cur][f] = End(q, e) THEN Cardinality(Holders(q, e)) - 1
             ELSE Cardinality(Holders(q, e))
<1>1. cur \in Slot /\ f \in Fd /\ fds' = [fds EXCEPT ![cur][f] = NoEnd]
  BY DEF ClosesEnd
<1>2. \A p \in Slot, g \in Fd : fds'[p][g] = IF p = cur /\ g = f THEN NoEnd ELSE fds[p][g]
  BY <1>1 DEF TypeOK
<1>. DEFINE H == Holders(q, e)
            H1 == Holders(q, e)'
            x == <<cur, f>>
<1>3. H1 = H \ {x}
  <2>1. H \subseteq Slot \X Fd /\ H1 \subseteq Slot \X Fd
    BY DEF Holders
  <2>2. ASSUME NEW p \in Slot, NEW g \in Fd
        PROVE  <<p, g>> \in H1 <=> <<p, g>> \in H \ {x}
    <3>1. <<p, g>> = x <=> p = cur /\ g = f
      OBVIOUS
    <3>2. /\ <<p, g>> \in H <=> fds[p][g] = End(q, e)
          /\ <<p, g>> \in H1 <=> fds'[p][g] = End(q, e)
      BY HolderIs
    <3>3. NoEnd # End(q, e)
      BY EndFacts
    <3>. HIDE DEF H, H1, x
    <3>. QED BY <1>2, <3>1, <3>2, <3>3
  <2>3. H \ {x} \subseteq Slot \X Fd
    BY <2>1
  <2>. HIDE DEF H, H1, x
  <2>. QED BY <2>1, <2>2, <2>3, SameHolders
<1>4. IsFiniteSet(H)
  BY HoldersFinite
<1>5. x \in H <=> fds[cur][f] = End(q, e)
  BY <1>1, HolderIs
<1>6. Cardinality(H \ {x}) = IF x \in H THEN Cardinality(H) - 1 ELSE Cardinality(H)
  <2>. HIDE DEF H, x
  <2>. QED BY <1>4, FS_RemoveElement
<1>7. Cardinality(H1) = IF fds[cur][f] = End(q, e) THEN Cardinality(H) - 1 ELSE Cardinality(H)
  <2>. HIDE DEF H, H1, x
  <2>. QED BY <1>3, <1>5, <1>6
<1>. QED BY <1>7

(* pipe_close takes exactly that one off the count.                         *)
LEMMA CloseRefs ==
    ASSUME TypeOK, PipeRefs, NEW f, ClosesEnd(f)
    PROVE  PipeRefs'
<1>. DEFINE x == fds[cur][f]
<1>1. x \in PipeEnd /\ x # NoEnd
  BY DEF ClosesEnd, TypeOK
<1>2. x.pipe \in Pipe /\ x.end \in {"r", "w"} /\ x = End(x.pipe, x.end)
  BY <1>1, EndFacts
<1>3. /\ readers' = [readers EXCEPT ![x.pipe] =
                       IF x.end = "r" THEN readers[x.pipe] - 1 ELSE readers[x.pipe]]
      /\ writers' = [writers EXCEPT ![x.pipe] =
                       IF x.end = "w" THEN writers[x.pipe] - 1 ELSE writers[x.pipe]]
  BY DEF ClosesEnd, pipe_close
<1>4. ASSUME NEW q \in Pipe
      PROVE  /\ readers'[q] = IF x = End(q, "r") THEN readers[q] - 1 ELSE readers[q]
             /\ writers'[q] = IF x = End(q, "w") THEN writers[q] - 1 ELSE writers[q]
  <2>1. \A e : x = End(q, e) <=> x.pipe = q /\ x.end = e
    BY <1>2, EndFacts
  <2>0. readers \in [Pipe -> Int] /\ writers \in [Pipe -> Int]
    BY DEF TypeOK
  <2>. HIDE DEF x
  <2>2. CASE x.pipe = q
    <3>1. /\ readers'[q] = IF x.end = "r" THEN readers[q] - 1 ELSE readers[q]
          /\ writers'[q] = IF x.end = "w" THEN writers[q] - 1 ELSE writers[q]
      BY <1>2, <1>3, <2>0, <2>2
    <3>. QED BY <2>1, <2>2, <3>1
  <2>3. CASE x.pipe # q
    <3>1. readers'[q] = readers[q] /\ writers'[q] = writers[q]
      BY <1>2, <1>3, <2>0, <2>3
    <3>. QED BY <2>1, <2>3, <3>1
  <2>. QED BY <2>2, <2>3
<1>5. ASSUME NEW q \in Pipe
      PROVE  /\ readers'[q] = Cardinality(Holders(q, "r")')
             /\ writers'[q] = Cardinality(Holders(q, "w")')
  <2>1. readers[q] = Cardinality(Holders(q, "r")) /\ writers[q] = Cardinality(Holders(q, "w"))
    BY DEF PipeRefs
  <2>2. /\ Cardinality(Holders(q, "r")') =
             IF x = End(q, "r") THEN Cardinality(Holders(q, "r")) - 1
             ELSE Cardinality(Holders(q, "r"))
        /\ Cardinality(Holders(q, "w")') =
             IF x = End(q, "w") THEN Cardinality(Holders(q, "w")) - 1
             ELSE Cardinality(Holders(q, "w"))
    BY CloseHolders
  <2>. HIDE DEF x
  <2>. QED BY <1>4, <2>1, <2>2
<1>. QED BY <1>5 DEF PipeRefs

(* A new pipe takes a slot whose counts are zero, which nobody holds, and   *)
(* two descriptors that were closed.                                        *)
LEMMA PipeOpens ==
    ASSUME SchedInv, TypeOK, SysPipe
    PROVE  \E q \in Pipe, rfd, wfd \in Fd :
              /\ cur \in Slot /\ rfd # wfd
              /\ readers[q] = 0 /\ writers[q] = 0
              /\ fds[cur][rfd] = NoEnd /\ fds[cur][wfd] = NoEnd
              /\ readers' = [readers EXCEPT ![q] = 1]
              /\ writers' = [writers EXCEPT ![q] = 1]
              /\ fds' = [fds EXCEPT ![cur][rfd] = End(q, "r"), ![cur][wfd] = End(q, "w")]
<1>1. pc = "user" /\ cur \in Slot /\ Me = cur
  BY UserFacts DEF SysPipe, Syscall
<1>. DEFINE Z == {x \in Pipe : readers[x] = 0 /\ writers[x] = 0}
            q == Lowest(Z)
            rfd == Lowest(FreeFds(cur))
            W == FreeFds(cur) \ {rfd}
            wfd == Lowest(W)
<1>2. /\ q # 0 /\ rfd # 0 /\ wfd # 0
      /\ readers' = [readers EXCEPT ![q] = 1]
      /\ writers' = [writers EXCEPT ![q] = 1]
      /\ fds' = [fds EXCEPT ![cur][rfd] = End(q, "r"), ![cur][wfd] = End(q, "w")]
  BY <1>1 DEF SysPipe, End
<1>3. Z \subseteq Nat /\ FreeFds(cur) \subseteq Nat /\ W \subseteq Nat
  BY DEF Pipe, FreeFds, Fd
<1>4. q \in Z
  <2>. HIDE DEF Z
  <2>. QED BY <1>2, <1>3, LowestFacts
<1>5. rfd \in FreeFds(cur)
  BY <1>2, <1>3, LowestFacts
<1>6. wfd \in W
  <2>. HIDE DEF W
  <2>. QED BY <1>2, <1>3, LowestFacts
<1>7. /\ q \in Pipe /\ readers[q] = 0 /\ writers[q] = 0
      /\ rfd \in Fd /\ fds[cur][rfd] = NoEnd
      /\ wfd \in Fd /\ fds[cur][wfd] = NoEnd /\ rfd # wfd
  <2>. HIDE DEF q, rfd, wfd
  <2>. QED BY <1>4, <1>5, <1>6 DEF FreeFds
<1>. HIDE DEF q, rfd, wfd
<1>. QED BY <1>1, <1>2, <1>7

(* One new holder of each end of the new pipe, and no change elsewhere.     *)
LEMMA OpenRefs ==
    ASSUME SchedInv, TypeOK, PipeRefs, SysPipe
    PROVE  PipeRefs'
<1>1. PICK q \in Pipe, rfd \in Fd, wfd \in Fd :
          /\ cur \in Slot /\ rfd # wfd
          /\ readers[q] = 0 /\ writers[q] = 0
          /\ fds[cur][rfd] = NoEnd /\ fds[cur][wfd] = NoEnd
          /\ readers' = [readers EXCEPT ![q] = 1]
          /\ writers' = [writers EXCEPT ![q] = 1]
          /\ fds' = [fds EXCEPT ![cur][rfd] = End(q, "r"), ![cur][wfd] = End(q, "w")]
  BY PipeOpens
<1>2. \A p \in Slot, g \in Fd :
          fds'[p][g] = IF p = cur /\ g = rfd THEN End(q, "r")
                       ELSE IF p = cur /\ g = wfd THEN End(q, "w")
                       ELSE fds[p][g]
  <2>1. fds \in [Slot -> [Fd -> PipeEnd]]
    BY DEF TypeOK
  <2>. QED BY <1>1, <2>1
<1>3. Holders(q, "r") = {} /\ Holders(q, "w") = {}
  <2>1. Cardinality(Holders(q, "r")) = 0 /\ Cardinality(Holders(q, "w")) = 0
    BY <1>1 DEF PipeRefs
  <2>. QED BY <2>1, HoldersFinite, FS_EmptySet
<1>4. \A p \in Slot, g \in Fd : fds[p][g] # End(q, "r") /\ fds[p][g] # End(q, "w")
  BY <1>3, HolderIs
<1>5. ASSUME NEW y \in Pipe, NEW e \in {"r", "w"}
      PROVE  Holders(y, e)' = IF y # q THEN Holders(y, e)
                              ELSE {<<cur, IF e = "r" THEN rfd ELSE wfd>>}
  <2>. DEFINE n == IF e = "r" THEN rfd ELSE wfd
              T == IF y # q THEN Holders(y, e) ELSE {<<cur, n>>}
              H1 == Holders(y, e)'
  <2>1. n \in Fd
    OBVIOUS
  <2>2. T \subseteq Slot \X Fd /\ H1 \subseteq Slot \X Fd
    <3>1. Holders(y, e) \subseteq Slot \X Fd /\ H1 \subseteq Slot \X Fd
      BY DEF Holders
    <3>2. {<<cur, n>>} \subseteq Slot \X Fd
      BY <1>1, <2>1
    <3>. HIDE DEF H1, n
    <3>. QED BY <3>1, <3>2
  <2>3. ASSUME NEW p \in Slot, NEW g \in Fd
        PROVE  <<p, g>> \in H1 <=> <<p, g>> \in T
    <3>1. /\ <<p, g>> \in Holders(y, e) <=> fds[p][g] = End(y, e)
          /\ <<p, g>> \in H1 <=> fds'[p][g] = End(y, e)
      BY HolderIs
    <3>2. <<p, g>> \in {<<cur, n>>} <=> p = cur /\ g = n
      OBVIOUS
    <3>3. /\ End(y, e) = End(q, "r") <=> y = q /\ e = "r"
          /\ End(y, e) = End(q, "w") <=> y = q /\ e = "w"
          /\ End(q, "r") # End(q, "w")
          /\ End(y, e) # NoEnd
      BY EndFacts
    <3>. HIDE DEF H1
    <3>4. CASE p = cur /\ g = rfd
      <4>1. fds'[p][g] = End(q, "r") /\ fds[p][g] = NoEnd /\ g # wfd
        BY <1>1, <1>2, <3>4
      <4>. QED BY <3>1, <3>2, <3>3, <3>4, <4>1
    <3>5. CASE p = cur /\ g = wfd
      <4>1. fds'[p][g] = End(q, "w") /\ fds[p][g] = NoEnd /\ g # rfd
        BY <1>1, <1>2, <3>5
      <4>. QED BY <3>1, <3>2, <3>3, <3>5, <4>1
    <3>6. CASE ~(p = cur /\ g \in {rfd, wfd})
      <4>1. fds'[p][g] = fds[p][g] /\ fds[p][g] # End(q, "r") /\ fds[p][g] # End(q, "w")
        BY <1>2, <1>4, <3>6
      <4>2. n \in {rfd, wfd}
        OBVIOUS
      <4>3. y = q => End(y, e) \in {End(q, "r"), End(q, "w")}
        BY <3>3
      <4>. QED BY <3>1, <3>2, <3>6, <4>1, <4>2, <4>3
    <3>. QED BY <3>4, <3>5, <3>6
  <2>4. H1 = T
    <3>. HIDE DEF H1, T
    <3>. QED BY <2>2, <2>3, SameHolders
  <2>. QED BY <2>4
<1>6. ASSUME NEW y \in Pipe
      PROVE  /\ readers'[y] = Cardinality(Holders(y, "r")')
             /\ writers'[y] = Cardinality(Holders(y, "w")')
  <2>1. readers \in [Pipe -> Int] /\ writers \in [Pipe -> Int]
    BY DEF TypeOK
  <2>2. CASE y = q
    <3>1. readers'[y] = 1 /\ writers'[y] = 1
      BY <1>1, <2>1, <2>2
    <3>2. Holders(y, "r")' = {<<cur, rfd>>} /\ Holders(y, "w")' = {<<cur, wfd>>}
      BY <1>5, <2>2
    <3>3. Cardinality(Holders(y, "r")') = 1 /\ Cardinality(Holders(y, "w")') = 1
      BY <3>2, FS_Singleton
    <3>. QED BY <3>1, <3>3
  <2>3. CASE y # q
    <3>1. readers'[y] = readers[y] /\ writers'[y] = writers[y]
      BY <1>1, <2>1, <2>3
    <3>2. Holders(y, "r")' = Holders(y, "r") /\ Holders(y, "w")' = Holders(y, "w")
      BY <1>5, <2>3
    <3>. QED BY <3>1, <3>2 DEF PipeRefs
  <2>. QED BY <2>2, <2>3
<1>. QED BY <1>6 DEF PipeRefs

(* The child of a fork holds what its parent holds, and held nothing.       *)
LEMMA ForkHolders ==
    ASSUME TypeOK, ZombieHoldsNothing, NEW child \in Slot, state[child] = "DEAD", cur \in Slot,
           \A p \in Slot : fds'[p] = IF p = child THEN fds[cur] ELSE fds[p],
           NEW q \in Pipe, NEW e \in {"r", "w"}
    PROVE  Cardinality(Holders(q, e)') =
             Cardinality(Holders(q, e)) + Cardinality(Ends(cur, q, e))
<1>. DEFINE H == Holders(q, e)
            H1 == Holders(q, e)'
            E == Ends(cur, q, e)
            N == {child} \X E
<1>1. IsFiniteSet(H) /\ Cardinality(H) \in Nat /\ H \subseteq Slot \X Fd
  BY HoldersFinite
<1>2. E \in SUBSET Fd /\ \A f \in Fd : f \in E <=> fds[cur][f] = End(q, e)
  BY DEF Ends, End
<1>3. IsFiniteSet(E) /\ Cardinality(E) \in Nat
  <2>1. IsFiniteSet(E)
    BY <1>2, HoldersFinite, FS_Subset
  <2>. QED BY <2>1, FS_CardinalityType
<1>4. IsFiniteSet(N) /\ Cardinality(N) = Cardinality(E)
  <2>1. IsFiniteSet({child}) /\ Cardinality({child}) = 1
    BY FS_Singleton
  <2>. HIDE DEF E
  <2>2. IsFiniteSet({child} \X E) /\ Cardinality({child} \X E) = 1 * Cardinality(E)
    BY <1>3, <2>1, FS_Product
  <2>. QED BY <1>3, <2>2
<1>5. \A f \in Fd : fds[child][f] = NoEnd
  BY DEF ZombieHoldsNothing, Live, OpenFds
<1>6. NoEnd # End(q, e)
  BY EndFacts
<1>7. H1 = H \cup N
  <2>1. H1 \subseteq Slot \X Fd
    BY DEF Holders
  <2>2. H \cup N \subseteq Slot \X Fd
    <3>. HIDE DEF H, E
    <3>. QED BY <1>1, <1>2
  <2>3. ASSUME NEW p \in Slot, NEW f \in Fd
        PROVE  <<p, f>> \in H1 <=> <<p, f>> \in H \cup N
    <3>1. /\ <<p, f>> \in H <=> fds[p][f] = End(q, e)
          /\ <<p, f>> \in H1 <=> fds'[p][f] = End(q, e)
      BY HolderIs
    <3>2. <<p, f>> \in N <=> p = child /\ fds[cur][f] = End(q, e)
      <4>. HIDE DEF E
      <4>. QED BY <1>2
    <3>. HIDE DEF H, H1, N
    <3>3. CASE p = child
      BY <1>5, <1>6, <3>1, <3>2, <3>3
    <3>4. CASE p # child
      BY <3>1, <3>2, <3>4
    <3>. QED BY <3>3, <3>4
  <2>. HIDE DEF H, H1, N
  <2>. QED BY <2>1, <2>2, <2>3, SameHolders
<1>8. H \cap N = {}
  <2>1. ASSUME NEW f \in Fd PROVE <<child, f>> \notin H
    BY <1>5, <1>6, HolderIs
  <2>. HIDE DEF H, E
  <2>. QED BY <1>2, <2>1
<1>9. Cardinality(H \cup N) = Cardinality(H) + Cardinality(E)
  <2>. HIDE DEF H, N, E
  <2>1. Cardinality(H \cup N) = Cardinality(H) + Cardinality(N) - Cardinality(H \cap N)
    BY <1>1, <1>4, FS_Union
  <2>2. Cardinality(H \cap N) = 0
    BY <1>8, FS_EmptySet
  <2>. QED BY <1>1, <1>3, <1>4, <2>1, <2>2
<1>10. Cardinality(H1) = Cardinality(H) + Cardinality(E)
  <2>. HIDE DEF H, H1, N, E
  <2>. QED BY <1>7, <1>9
<1>. QED BY <1>10

(* fork retains one reference for every descriptor the child inherits.      *)
LEMMA ForkRefs ==
    ASSUME SchedInv, TypeOK, FamilyInv, PipeRefs, Fork
    PROVE  PipeRefs'
<1>1. PICK child \in Slot :
          /\ state[child] = "DEAD" /\ cur \in Slot
          /\ \A p \in Slot : fds'[p] = IF p = child THEN fds[cur] ELSE fds[p]
  BY ForkFacts
<1>2. Me = cur
  BY UserFacts DEF Fork, Syscall
<1>3. /\ readers' = [q \in Pipe |-> readers[q] + Cardinality(Ends(cur, q, "r"))]
      /\ writers' = [q \in Pipe |-> writers[q] + Cardinality(Ends(cur, q, "w"))]
  BY <1>2 DEF Fork
<1>4. ASSUME NEW q \in Pipe, NEW e \in {"r", "w"}
      PROVE  Cardinality(Holders(q, e)') =
               Cardinality(Holders(q, e)) + Cardinality(Ends(cur, q, e))
  BY <1>1, ForkHolders DEF FamilyInv
<1>. QED BY <1>3, <1>4 DEF PipeRefs

(* Fork, SYS_PIPE and closes change descriptors and counts, reads, writes   *)
(* and retries the bytes in a pipe, and no other step touches any of them.  *)
LEMMA PipeCases ==
    ASSUME SchedInv, TypeOK, [Next]_vars
    PROVE  \/ Fork \/ SysPipe
           \/ state[cur] = "RUNNING" /\ \E f : ClosesEnd(f)
           \/ fds' = fds /\ \E q : \E n \in Nat : pipe_read(q, n) \/ pipe_write(q, n)
           \/ UNCHANGED <<fds, pipeVars>>
<1>1. CASE UserStep
  <2>1. ASSUME NEW f \in Fd, Close(f) PROVE state[cur] = "RUNNING" /\ ClosesEnd(f)
    <3>1. cur \in Slot /\ Me = cur /\ state[cur] = "RUNNING"
      BY <2>1, UserFacts DEF Close, Syscall
    <3>. QED BY <2>1, <3>1 DEF Close, ClosesEnd
  <2>2. \A c : Exit(c) \/ FatalFault(c) => UNCHANGED <<fds, pipeVars>>
    BY DEF Exit, FatalFault
  <2>3. HandledFault \/ Other => UNCHANGED <<fds, pipeVars>>
    BY DEF HandledFault, Other
  <2>4. \A by, t : WaitCollect(by, t) \/ WaitBlock(by, t) => UNCHANGED <<fds, pipeVars>>
    BY DEF WaitCollect, WaitBlock
  <2>5. \A x, s : Kill(x, s) => UNCHANGED <<fds, pipeVars>>
    BY DEF Kill
  <2>6. ASSUME NEW f \in Fd, NEW n \in Counts, Read(f, n) \/ Write(f, n)
        PROVE  fds' = fds /\ ((\E q : pipe_read(q, n) \/ pipe_write(q, n)) \/ UNCHANGED pipeVars)
    BY <2>6 DEF Read, Write
  <2>7. Counts \subseteq Nat
    BY KernelAssumption
  <2>. QED BY <1>1, <2>1, <2>2, <2>3, <2>4, <2>5, <2>6, <2>7 DEF UserStep
<1>2. CASE Timer
  BY <1>2 DEF Timer
<1>3. CASE KernelStep
  <2>1. CASE CloseNext
    <3>1. cur \in Slot /\ state[cur] = "RUNNING"
      BY <2>1 DEF CloseNext, SchedInv, SchedType, RunningIsCurrent
    <3>2. OpenFds(cur) \subseteq Nat /\ OpenFds(cur) # {}
      BY <2>1 DEF OpenFds, Fd, CloseNext
    <3>3. Lowest(OpenFds(cur)) \in OpenFds(cur)
      BY <3>2, LowestFacts
    <3>4. ClosesEnd(Lowest(OpenFds(cur)))
      BY <2>1, <3>1, <3>3 DEF CloseNext, ClosesEnd, OpenFds
    <3>. QED BY <3>1, <3>4
  <2>2. CASE CloseDone \/ Notify \/ Stop \/ DeliverFatal \/ DeliverChild \/ DeliverDone
             \/ Reap \/ NoFrame
    BY <2>2 DEF CloseDone, Notify, Stop, DeliverFatal, DeliverChild, DeliverDone, Reap, NoFrame
  <2>3. CASE Resume
    <3>1. fds' = fds /\ Me \in Slot
      BY <2>3, MeIsCur DEF Resume, SchedInv, SchedType, RunningIsCurrent
    <3>2. (\E q : \E n \in Nat : pipe_read(q, n) \/ pipe_write(q, n)) \/ UNCHANGED pipeVars
      <4>. DEFINE b == blk[Me]
                  q == fds[Me][b.arg].pipe
      <4>0. b.n \in Nat
        BY <3>1 DEF TypeOK
      <4>1. CASE b.why = "read"
        <5>1. pipe_read(q, b.n)
          BY <2>3, <4>1 DEF Resume, process_complete_pipe_io
        <5>. QED BY <4>0, <5>1
      <4>2. CASE b.why = "write"
        <5>1. pipe_write(q, b.n)
          BY <2>3, <4>2 DEF Resume, process_complete_pipe_io
        <5>. QED BY <4>0, <5>1
      <4>3. CASE b.why \notin {"read", "write"}
        BY <2>3, <4>3 DEF Resume, process_complete_pipe_io
      <4>. QED BY <4>1, <4>2, <4>3
    <3>. QED BY <3>1, <3>2
  <2>. QED BY <1>3, <2>1, <2>2, <2>3 DEF KernelStep
<1>4. CASE UNCHANGED vars
  BY <1>4 DEF vars
<1>. QED BY <1>1, <1>2, <1>3, <1>4 DEF Next, Halted

(* No pipe is open at the start.                                            *)
LEMMA InitRefs == Init => PipeRefs
<1>. SUFFICES ASSUME Init, NEW q \in Pipe, NEW e \in {"r", "w"}
              PROVE  readers[q] = 0 /\ writers[q] = 0 /\ Cardinality(Holders(q, e)) = 0
  BY DEF PipeRefs
<1>1. \A p \in Slot, f \in Fd : fds[p][f] = NoEnd
  BY DEF Init, ClosedFds
<1>2. NoEnd # End(q, e)
  BY EndFacts
<1>3. Holders(q, e) = {}
  <2>1. \A p \in Slot, f \in Fd : <<p, f>> \notin Holders(q, e)
    BY <1>1, <1>2, HolderIs
  <2>. QED BY <2>1 DEF Holders
<1>4. Cardinality(Holders(q, e)) = 0
  BY <1>3, FS_EmptySet
<1>. QED BY <1>4 DEF Init

(* For every number of processes, descriptors and pipes, the reader and     *)
(* writer counts of a pipe are the number of descriptors open on its ends   *)
(* over the whole table, through fork, close, exit and kill in any order:   *)
(* pipe_close frees a pipe when its last descriptor goes and never before.  *)
THEOREM RefsCounted == Spec => []PipeRefs
<1>1. SchedInv /\ TypeOK /\ FamilyInv /\ PipeRefs /\ [Next]_vars => PipeRefs'
  <2>. SUFFICES ASSUME SchedInv, TypeOK, FamilyInv, PipeRefs, [Next]_vars PROVE PipeRefs'
    OBVIOUS
  <2>1. CASE UNCHANGED <<fds, readers, writers>>
    <3>1. \A q, e : Holders(q, e)' = Holders(q, e)
      BY <2>1 DEF Holders
    <3>. QED BY <2>1, <3>1 DEF PipeRefs
  <2>2. ASSUME NEW q, NEW n, pipe_read(q, n) \/ pipe_write(q, n) PROVE UNCHANGED <<readers, writers>>
    BY <2>2 DEF pipe_read, pipe_write
  <2>. QED BY <2>1, <2>2, PipeCases, ForkRefs, OpenRefs, CloseRefs DEF pipeVars
<1>. QED BY <1>1, InitRefs, SchedInvariant, TypeCorrect, FamilyInvariant, PTL DEF Spec

-----------------------------------------------------------------------------
(***************************************************************************)
(* Those who sleep on pipes.                                               *)
(*                                                                         *)
(* A sleeper's descriptor is its own until it is woken: nobody else closes *)
(* it, and the pipe behind it is not handed out again.  So what makes a    *)
(* pipe ready for it is a read, a write, or a close of the last descriptor *)
(* of the other end, and each of them wakes one of those who sleep at its  *)
(* end.                                                                    *)
(***************************************************************************)

(* Whoever sleeps after a step slept before it, for the same reason.        *)
StillAsleep ==
    \A p \in Slot : state'[p] = "BLOCKED" => state[p] = "BLOCKED" /\ blk'[p] = blk[p]

(* The running process goes to sleep; if on a pipe, on one that is not      *)
(* ready for it.                                                            *)
FallsAsleep ==
    LET b == blk'[cur]
        q == fds[cur][b.arg].pipe
    IN  /\ UNCHANGED <<fds, pipeVars>>
        /\ \A p \in Slot \ {cur} :
              state'[p] = "BLOCKED" => state[p] = "BLOCKED" /\ blk'[p] = blk[p]
        /\ b.why \in {"read", "write"} => b.arg \in Fd
        /\ b.why = "read" => ReadWouldBlock(q)
        /\ b.why = "write" => WriteWouldBlock(q, b.n)

(* Waking somebody puts nobody to sleep.                                    *)
LEMMA WakeSleepers ==
    ASSUME SchedInv, state[cur] = "RUNNING",
           NEW w \in Slot \cup {0}, w # 0 => state[w] = "BLOCKED", scheduler_wake(w),
           \A p \in Slot : p # cur => blk'[p] = blk[p]
    PROVE  StillAsleep
<1>1. \A p \in Slot : state'[p] = "BLOCKED" => state[p] = "BLOCKED"
  BY WakeSame
<1>. QED BY <1>1 DEF StillAsleep

(* Destroying processes puts nobody to sleep.                               *)
LEMMA DestroySleepers ==
    ASSUME NEW D, process_destroy(D)
    PROVE  StillAsleep
<1>1. \A p \in Slot : /\ state'[p] = IF p \in D THEN "DEAD" ELSE state[p]
                     /\ blk'[p] = IF p \in D THEN NoBlock ELSE blk[p]
  BY DEF process_destroy
<1>2. ASSUME NEW p \in Slot, state'[p] = "BLOCKED" PROVE p \notin D
  BY <1>1, <1>2
<1>. QED BY <1>1, <1>2 DEF StillAsleep

(* A call that blocks puts the caller to sleep, or nobody.                  *)
LEMMA BlockSleepers ==
    ASSUME SchedInv, TypeOK, pc = "user", NEW b, BlockCurrent(b), UNCHANGED <<fds, pipeVars>>,
           b.why \in {"read", "write"} => b.arg \in Fd,
           b.why = "read" => ReadWouldBlock(fds[cur][b.arg].pipe),
           b.why = "write" => WriteWouldBlock(fds[cur][b.arg].pipe, b.n)
    PROVE  StillAsleep \/ FallsAsleep
<1>1. /\ \A p \in Slot : p # cur => blk'[p] = blk[p]
      /\ \/ /\ state'[cur] = "BLOCKED" /\ blk'[cur] = b
            /\ \A p \in Slot : p # cur /\ state'[p] = "BLOCKED" => state[p] = "BLOCKED"
         \/ UNCHANGED <<state, blk>>
  BY BlockSame
<1>2. CASE UNCHANGED <<state, blk>>
  BY <1>2 DEF StillAsleep
<1>3. CASE ~UNCHANGED <<state, blk>>
  BY <1>1, <1>3 DEF FallsAsleep
<1>. QED BY <1>2, <1>3

(* Only a blocking call puts a process to sleep.                            *)
LEMMA UserSleepers ==
    ASSUME SchedInv, TypeOK, UserStep
    PROVE  StillAsleep \/ FallsAsleep
<1>0. pc = "user"
  BY DEF UserStep, Fork, Exit, FatalFault, HandledFault, WaitCollect, WaitBlock, Kill,
         SysPipe, Read, Write, Close, Other, Syscall
<1>1. cur \in Slot /\ state[cur] = "RUNNING" /\ Me = cur
  BY <1>0, UserFacts
<1>2. CASE Fork
  <2>1. \E child \in Slot : \A p \in Slot : state'[p] = IF p = child THEN "READY" ELSE state[p]
    BY <1>2, ForkFacts
  <2>2. blk' = blk
    BY <1>2 DEF Fork, blockVars
  <2>. QED BY <2>1, <2>2 DEF StillAsleep
<1>3. ASSUME \/ \E c \in ExitCodes : Exit(c)
             \/ \E c \in Faults : FatalFault(c)
             \/ HandledFault \/ Other \/ SysPipe
             \/ \E x \in Pid, s \in Signals : Kill(x, s)
      PROVE  StillAsleep
  <2>1. UNCHANGED <<state, blk>>
    BY <1>3 DEF Exit, FatalFault, HandledFault, Other, SysPipe, Kill, schedVars, blockVars
  <2>. QED BY <2>1 DEF StillAsleep
<1>4. ASSUME NEW by, NEW t, WaitCollect(by, t) PROVE StillAsleep
  BY <1>4, DestroySleepers DEF WaitCollect
<1>5. ASSUME NEW by, NEW t, WaitBlock(by, t) PROVE StillAsleep \/ FallsAsleep
  <2>1. PICK b : b.why = "child" /\ BlockCurrent(b)
    BY <1>5 DEF WaitBlock
  <2>2. UNCHANGED <<fds, pipeVars>>
    BY <1>5 DEF WaitBlock
  <2>. QED BY <1>0, <2>1, <2>2, BlockSleepers
<1>6. ASSUME NEW f \in Fd, NEW n \in Counts, Read(f, n) PROVE StillAsleep \/ FallsAsleep
  <2>. DEFINE b == [why |-> "read", arg |-> f, n |-> n]
  <2>1. CASE pipe_read(fds[Me][f].pipe, n) /\ blk' = blk
    <3>1. PICK w \in Slot \cup {0} : (w # 0 => state[w] = "BLOCKED") /\ scheduler_wake(w)
      BY <2>1, PipeReadWakes DEF SchedInv
    <3>. QED BY <1>1, <2>1, <3>1, WakeSleepers
  <2>2. CASE ReadWouldBlock(fds[Me][f].pipe) /\ BlockCurrent(b)
    <3>1. UNCHANGED <<fds, pipeVars>>
      BY <1>6, <2>2 DEF Read, pipe_read, BlockCurrent, pipeVars, ReadWouldBlock, Return
    <3>2. b.why = "read" /\ b.arg = f
      OBVIOUS
    <3>. HIDE DEF b
    <3>. QED BY <1>0, <1>1, <2>2, <3>1, <3>2, BlockSleepers
  <2>. QED BY <1>6, <2>1, <2>2 DEF Read
<1>7. ASSUME NEW f \in Fd, NEW n \in Counts, Write(f, n) PROVE StillAsleep \/ FallsAsleep
  <2>. DEFINE b == [why |-> "write", arg |-> f, n |-> n]
  <2>1. CASE pipe_write(fds[Me][f].pipe, n) /\ blk' = blk
    <3>1. PICK w \in Slot \cup {0} : (w # 0 => state[w] = "BLOCKED") /\ scheduler_wake(w)
      BY <2>1, PipeWriteWakes DEF SchedInv
    <3>. QED BY <1>1, <2>1, <3>1, WakeSleepers
  <2>2. CASE WriteWouldBlock(fds[Me][f].pipe, n) /\ BlockCurrent(b)
    <3>1. UNCHANGED <<fds, pipeVars>>
      BY <1>7, <2>2 DEF Write
    <3>2. b.why = "write" /\ b.arg = f /\ b.n = n
      OBVIOUS
    <3>. HIDE DEF b
    <3>. QED BY <1>0, <1>1, <2>2, <3>1, <3>2, BlockSleepers
  <2>. QED BY <1>7, <2>1, <2>2 DEF Write
<1>8. ASSUME NEW f \in Fd, Close(f) PROVE StillAsleep
  <2>1. PICK w \in Slot \cup {0} : (w # 0 => state[w] = "BLOCKED") /\ scheduler_wake(w)
    BY <1>8, PipeCloseWakes DEF Close, SchedInv
  <2>2. blk' = blk
    BY <1>8 DEF Close, blockVars
  <2>. QED BY <1>1, <2>1, <2>2, WakeSleepers
<1>. QED BY <1>2, <1>3, <1>4, <1>5, <1>6, <1>7, <1>8 DEF UserStep

(* Nobody falls asleep on the way out of a trap.                            *)
LEMMA KernelSleepers ==
    ASSUME SchedInv, TypeOK, FamilyInv, KernelStep
    PROVE  StillAsleep
<1>1. CASE CloseNext
  <2>1. state[cur] = "RUNNING" /\ blk' = blk
    BY <1>1 DEF CloseNext, SchedInv, RunningIsCurrent, blockVars
  <2>2. PICK w \in Slot \cup {0} : (w # 0 => state[w] = "BLOCKED") /\ scheduler_wake(w)
    BY <1>1, PipeCloseWakes DEF CloseNext, SchedInv
  <2>. QED BY <2>1, <2>2, WakeSleepers
<1>2. CASE CloseDone \/ DeliverFatal \/ DeliverChild \/ DeliverDone \/ NoFrame
  <2>1. UNCHANGED <<state, blk>>
    BY <1>2 DEF CloseDone, DeliverFatal, DeliverChild, DeliverDone, NoFrame, schedVars, blockVars
  <2>. QED BY <2>1 DEF StillAsleep
<1>3. CASE Notify
  <2>1. \A p \in Slot :
          /\ state'[p] = IF p = cur THEN "ZOMBIE" ELSE IF Handoff /\ p = Heir THEN "READY"
                         ELSE state[p]
          /\ blk'[p] = IF p = cur \/ (Handoff /\ p = Heir) THEN NoBlock ELSE blk[p]
    BY <1>3, NotifyFacts
  <2>2. ASSUME NEW p \in Slot, state'[p] = "BLOCKED" PROVE p # cur /\ ~(Handoff /\ p = Heir)
    BY <2>1, <2>2
  <2>. QED BY <2>1, <2>2 DEF StillAsleep
<1>4. CASE Stop
  <2>1. blk' = blk
    BY <1>4 DEF Stop, blockVars
  <2>2. CASE state' = [state EXCEPT ![Next1] = "RUNNING"]
    BY <2>1, <2>2 DEF StillAsleep, TypeOK
  <2>3. CASE state' = state
    BY <2>1, <2>3 DEF StillAsleep
  <2>. QED BY <1>4, <2>2, <2>3 DEF Stop
<1>5. CASE Resume
  <2>1. cur \in Slot /\ state[cur] = "RUNNING" /\ Me = cur
    BY <1>5, MeIsCur DEF Resume, SchedInv, SchedType, RunningIsCurrent
  <2>2. (blk' = blk \/ blk' = [blk EXCEPT ![cur] = NoBlock]) /\ process_complete_pipe_io
    BY <1>5, <2>1 DEF Resume, process_complete_pipe_io
  <2>3. \A p \in Slot : p # cur => blk'[p] = blk[p]
    BY <2>1, <2>2 DEF TypeOK
  <2>4. PICK w \in Slot \cup {0} : (w # 0 => state[w] = "BLOCKED") /\ scheduler_wake(w)
    <3>1. CASE UNCHANGED <<state, queue>>
      <4>1. scheduler_wake(0)
        BY <3>1 DEF scheduler_wake
      <4>. QED BY <4>1
    <3>. QED BY <2>2, <3>1, CompleteIoCases, PipeReadWakes, PipeWriteWakes DEF SchedInv
  <2>. QED BY <2>1, <2>3, <2>4, WakeSleepers
<1>6. CASE Reap
  BY <1>6, DestroySleepers DEF Reap
<1>. QED BY <1>1, <1>2, <1>3, <1>4, <1>5, <1>6 DEF KernelStep

(* Nor by a tick or when nothing happens.                                   *)
LEMMA SleepCases ==
    ASSUME SchedInv, TypeOK, FamilyInv, [Next]_vars
    PROVE  StillAsleep \/ FallsAsleep
<1>1. CASE UNCHANGED vars
  BY <1>1 DEF vars, schedVars, blockVars, StillAsleep
<1>2. CASE Timer
  <2>1. blk' = blk /\ cur \in Slot /\ state[cur] = "RUNNING"
    BY <1>2, UserFacts DEF Timer, blockVars
  <2>2. CASE ~CanPreempt
    BY <1>2, <2>1, <2>2 DEF Timer, StillAsleep
  <2>3. CASE CanPreempt
    <3>1. queue # <<>> /\ state' = [state EXCEPT ![cur] = "READY", ![Next1] = "RUNNING"]
      BY <1>2, <2>3 DEF Timer, CanPreempt
    <3>2. \A p \in Slot : state'[p] = "BLOCKED" => state[p] = "BLOCKED"
      BY <2>1, <3>1, SwitchSame
    <3>. QED BY <2>1, <3>2 DEF StillAsleep
  <2>. QED BY <2>2, <2>3
<1>. QED BY <1>1, <1>2, UserSleepers, KernelSleepers DEF Next, Halted

(* Whoever sleeps on a pipe sleeps on a descriptor.                         *)
SleepersHold ==
    \A p \in Slot : state[p] = "BLOCKED" /\ blk[p].why \in {"read", "write"} => blk[p].arg \in Fd

(* It is the one the call was made on.                                      *)
LEMMA SleepersInvariant == Spec => []SleepersHold
<1>1. Init => SleepersHold
  <2>1. Init => \A p \in Slot : blk[p] = NoBlock
    BY DEF Init
  <2>. QED BY <2>1 DEF SleepersHold, NoBlock
<1>2. SchedInv /\ TypeOK /\ FamilyInv /\ SleepersHold /\ [Next]_vars => SleepersHold'
  BY SleepCases DEF SleepersHold, StillAsleep, FallsAsleep
<1>. QED BY <1>1, <1>2, SchedInvariant, TypeCorrect, FamilyInvariant, PTL DEF Spec

(* No step changes a sleeper's descriptors.                                 *)
LEMMA SleeperEnds ==
    ASSUME SchedInv, TypeOK, [Next]_vars, NEW p \in Slot, state[p] = "BLOCKED"
    PROVE  fds'[p] = fds[p]
<1>1. CASE Fork
  <2>1. PICK child \in Slot : state[child] = "DEAD" /\ (p # child => fds'[p] = fds[p])
    BY <1>1, ForkFacts
  <2>. QED BY <2>1
<1>2. CASE SysPipe
  <2>1. state[cur] = "RUNNING"
    BY <1>2, UserFacts DEF SysPipe, Syscall
  <2>2. PICK q \in Pipe, rfd \in Fd, wfd \in Fd :
            fds' = [fds EXCEPT ![cur][rfd] = End(q, "r"), ![cur][wfd] = End(q, "w")]
    <3>. HIDE DEF SchedInv, TypeOK
    <3>. QED BY <1>2, PipeOpens
  <2>3. p # cur
    BY <2>1
  <2>. QED BY <2>2, <2>3 DEF TypeOK
<1>3. CASE state[cur] = "RUNNING" /\ \E f : ClosesEnd(f)
  BY <1>3 DEF ClosesEnd, TypeOK
<1>. QED BY <1>1, <1>2, <1>3, PipeCases

(* Of those asleep at one end of a pipe one is woken, if there is any.      *)
LEMMA OneIsWoken ==
    ASSUME SchedInv, NEW q \in Pipe, NEW why \in {"read", "write"},
           NEW p \in Slot, AsleepOn(p, q, why), state'[p] = "BLOCKED",
           scheduler_wake(Waiter(q, why))
    PROVE  WakesForIt(p)
<1>. DEFINE W == {o \in Slot : /\ state[o] = "BLOCKED"
                               /\ blk[o].why = why
                               /\ fds[o][blk[o].arg].pipe = q}
            o == Waiter(q, why)
<1>1. W \subseteq Nat /\ p \in W
  BY DEF Slot, AsleepOn
<1>2. o = Lowest(W)
  BY DEF Waiter
<1>3. o \in W
  <2>. HIDE DEF W
  <2>. QED BY <1>1, <1>2, LowestFacts
<1>4. o \in Slot /\ state[o] = "BLOCKED" /\ AsleepOn(o, q, why)
  <2>. HIDE DEF o
  <2>. QED BY <1>3 DEF AsleepOn
<1>. HIDE DEF o
<1>5. state'[o] = "READY"
  BY <1>4, WakeFacts DEF SchedInv, o
<1>. QED BY <1>4, <1>5 DEF WakesForIt

(* The count of an end never falls at a fork.                               *)
LEMMA ForkCounts ==
    ASSUME SchedInv, TypeOK, Fork, NEW q \in Pipe
    PROVE  readers'[q] >= readers[q] /\ writers'[q] >= writers[q] /\ fill' = fill
<1>1. \A e : Cardinality(Ends(Me, q, e)) \in Nat
  <2>1. \A e : Ends(Me, q, e) \subseteq Fd
    BY DEF Ends
  <2>. QED BY <2>1, HoldersFinite, FS_Subset, FS_CardinalityType
<1>2. /\ readers'[q] = readers[q] + Cardinality(Ends(Me, q, "r"))
      /\ writers'[q] = writers[q] + Cardinality(Ends(Me, q, "w"))
      /\ fill' = fill
  BY DEF Fork
<1>3. PICK r \in Nat : r = Cardinality(Ends(Me, q, "r"))
  BY <1>1
<1>4. PICK w \in Nat : w = Cardinality(Ends(Me, q, "w"))
  BY <1>1
<1>5. readers[q] \in Int /\ writers[q] \in Int
  BY DEF TypeOK
<1>. QED BY <1>2, <1>3, <1>4, <1>5

(* SYS_PIPE takes no pipe that somebody sleeps on.                          *)
LEMMA OpenSpares ==
    ASSUME SchedInv, TypeOK, PipeRefs, SleepersHold, SysPipe,
           NEW p \in Slot, NEW q \in Pipe, NEW why \in {"read", "write"}, AsleepOn(p, q, why)
    PROVE  readers'[q] = readers[q] /\ writers'[q] = writers[q] /\ fill'[q] = fill[q]
<1>1. PICK x \in Pipe : /\ readers[x] = 0 /\ writers[x] = 0
                        /\ readers' = [readers EXCEPT ![x] = 1]
                        /\ writers' = [writers EXCEPT ![x] = 1]
                        /\ fill' = [fill EXCEPT ![x] = 0]
  <2>. DEFINE Z == {x \in Pipe : readers[x] = 0 /\ writers[x] = 0}
  <2>1. Z \subseteq Nat
    BY DEF Pipe
  <2>2. Lowest(Z) = 0 \/ Lowest(Z) \in Z
    BY <2>1, LowestFacts
  <2>3. /\ Lowest(Z) # 0
        /\ readers' = [readers EXCEPT ![Lowest(Z)] = 1]
        /\ writers' = [writers EXCEPT ![Lowest(Z)] = 1]
        /\ fill' = [fill EXCEPT ![Lowest(Z)] = 0]
    BY DEF SysPipe
  <2>. QED BY <2>2, <2>3
<1>2. blk[p].arg \in Fd /\ fds[p][blk[p].arg].pipe = q
  BY DEF AsleepOn, SleepersHold
<1>3. PICK e \in {"r", "w"} : fds[p][blk[p].arg] = End(q, e)
  <2>0. \A f \in Fd : fds[p][f] \in PipeEnd
    BY DEF TypeOK
  <2>1. fds[p][blk[p].arg] \in PipeEnd
    BY <1>2, <2>0
  <2>2. q # 0
    BY DEF Pipe
  <2>. QED BY <1>2, <2>1, <2>2, EndFacts DEF NoEnd
<1>4. <<p, blk[p].arg>> \in Holders(q, e)
  BY <1>2, <1>3, HolderIs
<1>5. Cardinality(Holders(q, e)) # 0
  BY <1>4, HoldersFinite, FS_EmptySet
<1>6. q # x
  BY <1>1, <1>5 DEF PipeRefs
<1>. QED BY <1>1, <1>6 DEF TypeOK

(* What a close does to the pipe behind the descriptor, and to the others.  *)
LEMMA CloseCases ==
    ASSUME TypeOK, NEW f, ClosesEnd(f), NEW q \in Pipe
    PROVE  \/ readers'[q] = readers[q] /\ writers'[q] = writers[q] /\ fill'[q] = fill[q]
           \/ /\ readers'[q] = readers[q] - 1 /\ writers'[q] = writers[q]
              /\ fill'[q] = IF readers'[q] = 0 /\ writers[q] = 0 THEN 0 ELSE fill[q]
              /\ readers'[q] = 0 => scheduler_wake(Waiter(q, "write"))
           \/ /\ readers'[q] = readers[q] /\ writers'[q] = writers[q] - 1
              /\ fill'[q] = IF readers[q] = 0 /\ writers'[q] = 0 THEN 0 ELSE fill[q]
              /\ writers'[q] = 0 => scheduler_wake(Waiter(q, "read"))
<1>. DEFINE e == fds[cur][f]
<1>1. e \in PipeEnd /\ e # NoEnd
  BY DEF ClosesEnd, TypeOK
<1>2. e.pipe \in Pipe /\ e.end \in {"r", "w"}
  BY <1>1, EndFacts
<1>3. pipe_close(e)
  BY DEF ClosesEnd
<1>4. /\ readers \in [Pipe -> Int] /\ writers \in [Pipe -> Int]
      /\ fill \in [Pipe -> 0 .. PIPE_CAPACITY]
  BY DEF TypeOK
<1>. HIDE DEF e
<1>5. CASE e.pipe # q
  BY <1>3, <1>4, <1>5 DEF pipe_close
<1>6. CASE e.pipe = q /\ e.end = "r"
  BY <1>3, <1>4, <1>6 DEF pipe_close
<1>7. CASE e.pipe = q /\ e.end = "w"
  BY <1>3, <1>4, <1>7 DEF pipe_close
<1>. QED BY <1>2, <1>5, <1>6, <1>7

(* A step that makes a pipe ready for a sleeping reader wakes one of its    *)
(* readers: it wrote, or it closed the last write end.                      *)
LEMMA ReaderWoken ==
    ASSUME SchedInv, TypeOK, PipeRefs, SleepersHold, [Next]_vars,
           NEW p \in Slot, NEW q \in Pipe, AsleepOn(p, q, "read"),
           ReadWouldBlock(q), ~(fill'[q] = 0 /\ writers'[q] > 0)
    PROVE  scheduler_wake(Waiter(q, "read"))
<1>0. /\ fill \in [Pipe -> 0 .. PIPE_CAPACITY] /\ readers[q] \in Int /\ writers[q] \in Int
      /\ fill[q] = 0 /\ writers[q] > 0
      /\ fill'[q] # 0 \/ ~(writers'[q] > 0)
  BY DEF TypeOK, ReadWouldBlock
<1>1. CASE Fork
  <2>1. writers'[q] >= writers[q] /\ fill' = fill
    BY <1>1, ForkCounts
  <2>2. writers'[q] \in Int
    <3>1. Cardinality(Ends(Me, q, "w")) \in Nat
      <4>1. Ends(Me, q, "w") \subseteq Fd
        BY DEF Ends
      <4>. QED BY <4>1, HoldersFinite, FS_Subset, FS_CardinalityType
    <3>2. writers'[q] = writers[q] + Cardinality(Ends(Me, q, "w"))
      BY <1>1 DEF Fork
    <3>. QED BY <1>0, <3>1, <3>2
  <2>. QED BY <1>0, <2>1, <2>2
<1>2. CASE SysPipe
  <2>1. writers'[q] = writers[q] /\ fill'[q] = fill[q]
    BY <1>2, OpenSpares
  <2>. QED BY <1>0, <2>1
<1>3. ASSUME NEW f, ClosesEnd(f) PROVE scheduler_wake(Waiter(q, "read"))
  BY <1>0, <1>3, CloseCases
<1>4. ASSUME NEW x, NEW n \in Nat, pipe_read(x, n) PROVE FALSE
  <2>1. writers' = writers /\ fill' = [fill EXCEPT ![x] = @ - Smaller(n, @)]
    BY <1>4 DEF pipe_read
  <2>2. fill'[q] = IF x = q THEN fill[q] - Smaller(n, fill[q]) ELSE fill[q]
    BY <1>0, <2>1
  <2>3. fill'[q] = 0
    BY <1>0, <2>2 DEF Smaller
  <2>. QED BY <1>0, <2>1, <2>3
<1>5. ASSUME NEW x, NEW n \in Nat, pipe_write(x, n) PROVE scheduler_wake(Waiter(q, "read"))
  <2>1. fill'[q] # 0
    BY <1>0, <1>5 DEF pipe_write
  <2>2. x = q /\ ~(readers[x] = 0 \/ NoRoom(x, n))
    BY <1>0, <1>5, <2>1 DEF pipe_write
  <2>. QED BY <1>5, <2>2 DEF pipe_write
<1>6. CASE UNCHANGED <<fds, pipeVars>>
  BY <1>0, <1>6 DEF pipeVars
<1>. QED BY <1>1, <1>2, <1>3, <1>4, <1>5, <1>6, PipeCases

(* One that makes it ready for a sleeping writer wakes one of its writers:  *)
(* it read, or it closed the last read end.                                 *)
LEMMA WriterWoken ==
    ASSUME SchedInv, TypeOK, PipeRefs, SleepersHold, [Next]_vars,
           NEW p \in Slot, NEW q \in Pipe, AsleepOn(p, q, "write"), NEW m \in Nat,
           WriteWouldBlock(q, m),
           ~(readers'[q] > 0 /\ (\/ PIPE_CAPACITY - fill'[q] = 0
                                 \/ m <= PIPE_BUF /\ PIPE_CAPACITY - fill'[q] < m))
    PROVE  scheduler_wake(Waiter(q, "write"))
<1>0. /\ fill \in [Pipe -> 0 .. PIPE_CAPACITY] /\ readers[q] \in Int /\ writers[q] \in Int
      /\ readers[q] > 0
      /\ \/ PIPE_CAPACITY - fill[q] = 0
         \/ m <= PIPE_BUF /\ PIPE_CAPACITY - fill[q] < m
      /\ PIPE_CAPACITY \in Nat \ {0} /\ PIPE_BUF \in Nat /\ fill[q] \in 0 .. PIPE_CAPACITY
  BY KernelAssumption DEF TypeOK, WriteWouldBlock, NoRoom, Space
<1>1. CASE Fork
  <2>1. readers'[q] >= readers[q] /\ fill' = fill
    BY <1>1, ForkCounts
  <2>2. readers'[q] \in Int
    <3>1. Cardinality(Ends(Me, q, "r")) \in Nat
      <4>1. Ends(Me, q, "r") \subseteq Fd
        BY DEF Ends
      <4>. QED BY <4>1, HoldersFinite, FS_Subset, FS_CardinalityType
    <3>2. readers'[q] = readers[q] + Cardinality(Ends(Me, q, "r"))
      BY <1>1 DEF Fork
    <3>. QED BY <1>0, <3>1, <3>2
  <2>. QED BY <1>0, <2>1, <2>2
<1>2. CASE SysPipe
  <2>1. readers'[q] = readers[q] /\ fill'[q] = fill[q]
    BY <1>2, OpenSpares
  <2>. QED BY <1>0, <2>1
<1>3. ASSUME NEW f, ClosesEnd(f) PROVE scheduler_wake(Waiter(q, "write"))
  BY <1>0, <1>3, CloseCases
<1>4. ASSUME NEW x, NEW n \in Nat, pipe_read(x, n) PROVE scheduler_wake(Waiter(q, "write"))
  <2>1. readers' = readers /\ fill' = [fill EXCEPT ![x] = @ - Smaller(n, @)]
    BY <1>4 DEF pipe_read
  <2>2. fill'[q] # fill[q]
    BY <1>0, <2>1
  <2>3. x = q /\ fill'[q] = fill[q] - Smaller(n, fill[q])
    BY <1>0, <2>1, <2>2
  <2>4. fill[x] # 0
    BY <1>0, <2>2, <2>3 DEF Smaller
  <2>. QED BY <1>4, <2>3, <2>4 DEF pipe_read
<1>5. ASSUME NEW x, NEW n \in Nat, pipe_write(x, n) PROVE FALSE
  <2>1. /\ readers' = readers
        /\ fill' = [fill EXCEPT ![x] = IF readers[x] = 0 \/ NoRoom(x, n) THEN @
                                       ELSE @ + Smaller(n, Space(x))]
    BY <1>5 DEF pipe_write
  <2>2. fill'[q] = fill[q] \/ fill'[q] = fill[q] + Smaller(n, Space(q))
    BY <1>0, <2>1
  <2>3. fill'[q] >= fill[q] /\ fill'[q] <= PIPE_CAPACITY /\ fill'[q] \in Int
    BY <1>0, <2>2 DEF Smaller, Space
  <2>. QED BY <1>0, <2>1, <2>3
<1>6. CASE UNCHANGED <<fds, pipeVars>>
  BY <1>0, <1>6 DEF pipeVars
<1>. QED BY <1>1, <1>2, <1>3, <1>4, <1>5, <1>6, PipeCases

(* No wake-up is lost on a pipe: nobody falls asleep on one that is ready,  *)
(* and a step that makes one ready for a sleeper wakes it or another that   *)
(* sleeps at the same end (process_wake_pipe_waiter, at every read, write,  *)
(* retry and close).                                                        *)
THEOREM PipeWakesOne == Spec => NoLostPipeWakeup
<1>1. ASSUME SchedInv, TypeOK, FamilyInv, PipeRefs, SleepersHold, [Next]_vars,
             NEW p \in Slot, ~Stranded(p), Stranded(p)'
      PROVE  WakesForIt(p)
  <2>1. PICK q \in Pipe :
          /\ state'[p] = "BLOCKED" /\ fds'[p][blk'[p].arg].pipe = q
          /\ \/ blk'[p].why = "read" /\ ~(fill'[q] = 0 /\ writers'[q] > 0)
             \/ /\ blk'[p].why = "write"
                /\ LET n == blk'[p].n
                   IN  ~(readers'[q] > 0 /\ (\/ PIPE_CAPACITY - fill'[q] = 0
                                             \/ n <= PIPE_BUF /\ PIPE_CAPACITY - fill'[q] < n))
    BY <1>1 DEF Stranded, AsleepOn, ReadWouldBlock, WriteWouldBlock, NoRoom, Space
  <2>2. ~(/\ FallsAsleep /\ p = cur)
    <3>1. SUFFICES ASSUME FallsAsleep, p = cur PROVE FALSE
      OBVIOUS
    <3>2. UNCHANGED <<fds, pipeVars>>
      BY <3>1 DEF FallsAsleep
    <3>3. fds[p][blk'[p].arg].pipe = q
      BY <2>1, <3>2
    <3>4. /\ blk'[p].why = "read" => ReadWouldBlock(q)
          /\ blk'[p].why = "write" => WriteWouldBlock(q, blk'[p].n)
      BY <3>1, <3>3 DEF FallsAsleep
    <3>. QED BY <2>1, <3>2, <3>4
             DEF pipeVars, ReadWouldBlock, WriteWouldBlock, NoRoom, Space
  <2>3. state[p] = "BLOCKED" /\ blk'[p] = blk[p]
    BY <1>1, <2>1, <2>2, SleepCases DEF StillAsleep, FallsAsleep
  <2>4. fds'[p] = fds[p]
    BY <1>1, <2>3, SleeperEnds
  <2>5. AsleepOn(p, q, blk[p].why) /\ blk[p].n \in Nat
    BY <1>1, <2>1, <2>3, <2>4 DEF AsleepOn, TypeOK
  <2>6. CASE blk[p].why = "read"
    <3>1. AsleepOn(p, q, "read")
      BY <2>5, <2>6
    <3>2. ReadWouldBlock(q)
      BY <1>1, <3>1 DEF Stranded
    <3>3. ~(fill'[q] = 0 /\ writers'[q] > 0)
      BY <2>1, <2>3, <2>6
    <3>4. scheduler_wake(Waiter(q, "read"))
      BY <1>1, <3>1, <3>2, <3>3, ReaderWoken
    <3>. QED BY <1>1, <2>1, <3>1, <3>4, OneIsWoken
  <2>7. CASE blk[p].why = "write"
    <3>1. AsleepOn(p, q, "write")
      BY <2>5, <2>7
    <3>2. WriteWouldBlock(q, blk[p].n)
      BY <1>1, <3>1 DEF Stranded
    <3>3. ~(readers'[q] > 0 /\ (\/ PIPE_CAPACITY - fill'[q] = 0
                                \/ blk[p].n <= PIPE_BUF /\ PIPE_CAPACITY - fill'[q] < blk[p].n))
      BY <2>1, <2>3, <2>7
    <3>4. scheduler_wake(Waiter(q, "write"))
      BY <1>1, <2>5, <3>1, <3>2, <3>3, WriterWoken
    <3>. QED BY <1>1, <2>1, <3>1, <3>4, OneIsWoken
  <2>. QED BY <2>1, <2>3, <2>6, <2>7
<1>2. SchedInv /\ TypeOK /\ FamilyInv /\ PipeRefs /\ SleepersHold /\ [Next]_vars =>
      [\A p \in Slot : ~Stranded(p) /\ Stranded(p)' => WakesForIt(p)]_vars
  BY <1>1
<1>. QED BY <1>2, SchedInvariant, TypeCorrect, FamilyInvariant, RefsCounted, SleepersInvariant, PTL
         DEF Spec, NoLostPipeWakeup
=============================================================================
