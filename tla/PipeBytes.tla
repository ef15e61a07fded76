------------------------------ MODULE PipeBytes ------------------------------
(***************************************************************************)
(* The bytes of one pipe (kernel/pipe.c) and the processes that share it:  *)
(* the ring buffer with its positions and counts, blocking in SYS_READ and *)
(* SYS_WRITE, and the retry when a blocked process is resumed.             *)
(*                                                                         *)
(* Kernel models who runs and who is woken in full and counts the bytes;   *)
(* this module follows each byte.  The scheduler may pick any READY        *)
(* process here, and a process that dies (SYS_EXIT, a fault or a signal)   *)
(* leaves the table at once.                                               *)
(***************************************************************************)
EXTENDS Integers, Sequences, FiniteSets, Functions

CONSTANTS Procs,          \* slots of the process table that take part
          PIPE_CAPACITY, PIPE_BUF,
          Counts,         \* the byte counts given to SYS_READ and SYS_WRITE
          MaxSent         \* bound: the bytes accepted in all

EAGAIN == -13
EPIPE  == -15

VARIABLES
    (* struct pipe; it is in use while an end of it is open *)
    buffer, read_pos, write_pos, count, readers, writers,
    (* the processes *)
    pstate,   \* PROCESS_DEAD, READY, RUNNING, BLOCKED
    running,  \* the process the CPU executes
    ends,     \* ends[p]: the pipe ends in the descriptor table of p
    blk,      \* block_reason and blocked_count
    at,       \* where the CPU is: user code, a trap's exit, an exit's closing
    (* history: bytes accepted from each slot, the answer just given *)
    sent, answer

ring  == <<buffer, read_pos, write_pos, count>>
procs == <<pstate, running, ends, blk>>
vars  == <<ring, readers, writers, procs, at, sent, answer>>

NoByte   == <<0, 0>>
Awake    == [why |-> "none", n |-> 0]
NoAnswer == [by |-> 0, want |-> 0, res |-> 0, data |-> <<>>]

Empty == [i \in 0 .. PIPE_CAPACITY - 1 |-> NoByte]

Least(S) == CHOOSE x \in S : \A y \in S : x <= y

Total(f) == FoldFunction(+, 0, f)

Smaller(a, b) == IF a < b THEN a ELSE b

pipe_init ==
    /\ buffer = Empty
    /\ read_pos = 0
    /\ write_pos = 0
    /\ count = 0
    /\ readers = 0
    /\ writers = 0

Init ==
    /\ pipe_init
    /\ running = Least(Procs)
    /\ pstate = [p \in Procs |-> IF p = running THEN "RUNNING" ELSE "DEAD"]
    /\ ends = [p \in Procs |-> {}]
    /\ blk = [p \in Procs |-> Awake]
    /\ at = "user"
    /\ sent = [p \in Procs |-> 0]
    /\ answer = NoAnswer

Answer(want, res, data) ==
    answer' = [by |-> running, want |-> want, res |-> res, data |-> data]

(***************************************************************************)
(* process_wake_pipe_waiter: the first slot that is blocked for why.       *)
(***************************************************************************)
Woken(S) == [p \in Procs |-> IF S # {} /\ p = Least(S) THEN "READY" ELSE pstate[p]]

process_wake_pipe_waiter(why) ==
    pstate' = Woken({p \in Procs : pstate[p] = "BLOCKED" /\ blk[p].why = why})

Ready == {p \in Procs : pstate[p] = "READY"}

(***************************************************************************)
(* pipe_read: the oldest bytes, at most n.  It would block on an empty     *)
(* pipe that still has a writer.                                           *)
(***************************************************************************)
ReadBlocks(n) == n > 0 /\ count = 0 /\ writers > 0

pipe_read(n) ==
    LET copied == Smaller(n, count)
    IN  /\ Answer(n, copied,
                  [i \in 1 .. copied |-> buffer[(read_pos + i - 1) % PIPE_CAPACITY]])
        /\ read_pos' = (read_pos + copied) % PIPE_CAPACITY
        /\ count' = count - copied
        /\ IF copied > 0 THEN process_wake_pipe_waiter("write") ELSE UNCHANGED pstate
        /\ UNCHANGED <<buffer, write_pos, readers, writers, sent>>

(***************************************************************************)
(* pipe_write: all n bytes or, beyond PIPE_BUF, those that fit.            *)
(***************************************************************************)
Space == PIPE_CAPACITY - count

WriteBlocksWhenFull(n) == n > 0 /\ readers > 0 /\ Space = 0

WriteBlocks(n) ==
    /\ n > 0
    /\ readers > 0
    /\ Space = 0 \/ (n <= PIPE_BUF /\ Space < n)

PutBytes(n) ==
    LET copied == Smaller(n, Space)
        Index(i) == (i + PIPE_CAPACITY - write_pos) % PIPE_CAPACITY
    IN  /\ buffer' = [i \in DOMAIN buffer |->
                         IF Index(i) < copied
                         THEN <<running, sent[running] + Index(i) + 1>>
                         ELSE buffer[i]]
        /\ write_pos' = (write_pos + copied) % PIPE_CAPACITY
        /\ count' = count + copied
        /\ sent' = [sent EXCEPT ![running] = @ + copied]
        /\ Answer(n, copied, <<>>)
        /\ process_wake_pipe_waiter("read")
        /\ UNCHANGED <<read_pos, readers, writers>>

pipe_write(n) ==
    \/ /\ n = 0
       /\ Answer(0, 0, <<>>)
       /\ UNCHANGED <<ring, readers, writers, pstate, sent>>
    \/ /\ n > 0
       /\ readers = 0
       /\ Answer(n, EPIPE, <<>>)
       /\ UNCHANGED <<ring, readers, writers, pstate, sent>>
    \/ n > 0 /\ readers > 0 /\ PutBytes(n)

TryAgain(n) ==
    /\ Answer(n, EAGAIN, <<>>)
    /\ UNCHANGED <<ring, readers, writers, pstate, sent>>

-----------------------------------------------------------------------------
(* System calls of the running process *)

Switch(p) == running' = p /\ at' = "exit"

(***************************************************************************)
(* process_begin_pipe_wait and scheduler_block_current: another process    *)
(* takes over; without one the call is not blocked but fails.              *)
(***************************************************************************)
Block(why, n) ==
    \/ /\ Ready = {}
       /\ TryAgain(n)
       /\ UNCHANGED <<blk, running, at>>
    \/ \E p \in Ready :
          /\ blk' = [blk EXCEPT ![running] = [why |-> why, n |-> n]]
          /\ pstate' = [pstate EXCEPT ![running] = "BLOCKED", ![p] = "RUNNING"]
          /\ Switch(p)
          /\ answer' = NoAnswer
          /\ UNCHANGED <<ring, readers, writers, sent>>

syscall_read(n) ==
    /\ at = "user"
    /\ "r" \in ends[running]
    /\ \/ ~ReadBlocks(n) /\ pipe_read(n) /\ UNCHANGED <<blk, running, at>>
       \/ ReadBlocks(n) /\ Block("read", n)
    /\ UNCHANGED ends

syscall_write(n) ==
    /\ at = "user"
    /\ "w" \in ends[running]
    /\ Total(sent) + n <= MaxSent
    /\ \/ ~WriteBlocks(n) /\ pipe_write(n) /\ UNCHANGED <<blk, running, at>>
       \/ WriteBlocks(n) /\ Block("write", n)
    /\ UNCHANGED ends

(***************************************************************************)
(* SYS_PIPE while the pipe is not in use: pipe_create clears it.           *)
(***************************************************************************)
pipe_create ==
    /\ at = "user"
    /\ readers = 0 /\ writers = 0
    /\ buffer' = Empty
    /\ read_pos' = 0 /\ write_pos' = 0 /\ count' = 0
    /\ readers' = 1 /\ writers' = 1
    /\ ends' = [ends EXCEPT ![running] = {"r", "w"}]
    /\ answer' = NoAnswer
    /\ UNCHANGED <<pstate, running, blk, at, sent>>

(***************************************************************************)
(* SYS_FORK: process_fd_inherit retains (pipe_retain) each end the child   *)
(* gets.                                                                   *)
(***************************************************************************)
Held(p, e) == IF e \in ends[p] THEN 1 ELSE 0

process_fd_inherit(child) ==
    /\ at = "user"
    /\ pstate[child] = "DEAD"
    /\ pstate' = [pstate EXCEPT ![child] = "READY"]
    /\ ends' = [ends EXCEPT ![child] = ends[running]]
    /\ readers' = readers + Held(running, "r")
    /\ writers' = writers + Held(running, "w")
    /\ answer' = NoAnswer
    /\ UNCHANGED <<ring, running, blk, at, sent>>

(***************************************************************************)
(* The last reader gone wakes a writer, the last writer gone a reader; a   *)
(* pipe without ends is cleared.                                           *)
(***************************************************************************)
pipe_close(e) ==
    /\ readers' = readers - (IF e = "r" THEN 1 ELSE 0)
    /\ writers' = writers - (IF e = "w" THEN 1 ELSE 0)
    /\ CASE e = "r" /\ readers' = 0 -> process_wake_pipe_waiter("write")
         [] e = "w" /\ writers' = 0 -> process_wake_pipe_waiter("read")
         [] OTHER -> UNCHANGED pstate
    /\ IF readers' = 0 /\ writers' = 0
       THEN buffer' = Empty /\ read_pos' = 0 /\ write_pos' = 0 /\ count' = 0
       ELSE UNCHANGED ring
    /\ ends' = [ends EXCEPT ![running] = @ \ {e}]
    /\ answer' = NoAnswer

syscall_close(e) ==
    /\ at = "user"
    /\ e \in ends[running]
    /\ pipe_close(e)
    /\ UNCHANGED <<running, blk, at, sent>>

(***************************************************************************)
(* scheduler_preempt on a tick: the running process is queued again.       *)
(***************************************************************************)
scheduler_preempt ==
    /\ at = "user"
    /\ \E p \in Ready :
          /\ pstate' = [pstate EXCEPT ![running] = "READY", ![p] = "RUNNING"]
          /\ Switch(p)
    /\ answer' = NoAnswer
    /\ UNCHANGED <<ring, readers, writers, ends, blk, sent>>

-----------------------------------------------------------------------------
(* The exit of a trap *)

(***************************************************************************)
(* process_complete_pipe_io: the resumed process retries the call it slept *)
(* in and is given what the retry returns.                                 *)
(***************************************************************************)
Retry(b) ==
    CASE b.why = "read" -> IF ReadBlocks(b.n) THEN TryAgain(b.n) ELSE pipe_read(b.n)
      [] b.why = "write" -> IF WriteBlocks(b.n) THEN TryAgain(b.n) ELSE pipe_write(b.n)
      [] OTHER -> answer' = NoAnswer
                  /\ UNCHANGED <<ring, readers, writers, pstate, sent>>

process_complete_pipe_io ==
    /\ at = "exit"
    /\ Retry(blk[running])
    /\ blk' = [blk EXCEPT ![running] = Awake]
    /\ at' = "user"
    /\ UNCHANGED <<running, ends>>

(***************************************************************************)
(* process_mark_exit: by SYS_EXIT or a fault in user code, or by a signal  *)
(* that is delivered before the retry.  process_fd_close_all closes the    *)
(* ends one by one, the read end first; then another process runs or the   *)
(* CPU halts.                                                              *)
(***************************************************************************)
process_mark_exit ==
    /\ at \in {"user", "exit"}
    /\ at' = "closing"
    /\ answer' = NoAnswer
    /\ UNCHANGED <<ring, readers, writers, procs, sent>>

process_fd_close_all ==
    /\ at = "closing"
    /\ ends[running] # {}
    /\ pipe_close(IF "r" \in ends[running] THEN "r" ELSE "w")
    /\ UNCHANGED <<running, blk, at, sent>>

scheduler_exit_current ==
    /\ at = "closing"
    /\ ends[running] = {}
    /\ blk' = [blk EXCEPT ![running] = Awake]
    /\ \/ \E p \in Ready :
             /\ pstate' = [pstate EXCEPT ![running] = "DEAD", ![p] = "RUNNING"]
             /\ Switch(p)
       \/ /\ Ready = {}
          /\ pstate' = [pstate EXCEPT ![running] = "DEAD"]
          /\ at' = "halted"
          /\ UNCHANGED running
    /\ answer' = NoAnswer
    /\ UNCHANGED <<ring, readers, writers, ends, sent>>

Next ==
    \/ \E n \in Counts : syscall_read(n) \/ syscall_write(n)
    \/ pipe_create
    \/ \E p \in Procs : process_fd_inherit(p)
    \/ \E e \in {"r", "w"} : syscall_close(e)
    \/ scheduler_preempt
    \/ process_complete_pipe_io
    \/ process_mark_exit
    \/ process_fd_close_all
    \/ scheduler_exit_current

Spec == Init /\ [][Next]_vars

-----------------------------------------------------------------------------
(* Properties *)

TypeOK ==
    /\ buffer \in [0 .. PIPE_CAPACITY - 1 -> {NoByte} \cup (Procs \X (1 .. MaxSent))]
    /\ {read_pos, write_pos} \subseteq 0 .. PIPE_CAPACITY - 1
    /\ count \in 0 .. PIPE_CAPACITY
    /\ {readers, writers} \subseteq 0 .. Cardinality(Procs)
    /\ pstate \in [Procs -> {"DEAD", "READY", "RUNNING", "BLOCKED"}]
    /\ running \in Procs
    /\ ends \in [Procs -> SUBSET {"r", "w"}]
    /\ blk \in [Procs -> [why : {"none", "read", "write"}, n : {0} \cup Counts]]
    /\ at \in {"user", "exit", "closing", "halted"}
    /\ sent \in [Procs -> 0 .. MaxSent]

(***************************************************************************)
(* The bytes in transit, oldest first.                                     *)
(***************************************************************************)
InTransit == [i \in 1 .. count |-> buffer[(read_pos + i - 1) % PIPE_CAPACITY]]

Stream == INSTANCE ByteStream
              WITH Process <- Procs, Capacity <- PIPE_CAPACITY,
                   Atomic <- PIPE_BUF, chan <- InTransit

(***************************************************************************)
(* Whoever shares the pipe, blocks, is retried, told to try again or dies, *)
(* the ring delivers each byte once and in order, never splits a write of  *)
(* PIPE_BUF bytes or fewer, and reports end of file, a broken pipe or a    *)
(* call that would block only when it is so.                               *)
(***************************************************************************)
StreamKept == Stream!Spec

=============================================================================
