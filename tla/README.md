# A TLA+ verification of the kernel

The repository is a small 32-bit x86 kernel (`src/kernel`, `src/include`,
`src/boot`) with user processes, preemptive scheduling, fork/exec/wait, pipes,
signals, copy-on-write memory and a simple file system, and a body of
documents and scripts around it. This directory holds TLA+ models of the parts
that carry its logic, the TLC runs that check them on small instances, and
proofs checked by TLAPS that hold for every instance.

Contents: [inventory](#1-inventory) · [models](#2-the-models) ·
[runs](#3-the-runs) · [bounds](#4-bounds) · [fairness](#5-fairness) ·
[proofs](#6-proofs) · [findings](#7-findings) · [limits and plan](#8-limits-and-plan)

## 1. Inventory

One CPU. Interrupt gates clear IF, so a trap (system call, page fault, timer
tick) runs from entry to `iret` without being interrupted; concurrency is the
order in which processes take traps, and what one trap leaves for the next one
to find. Kernel code outside a trap (the boot code, the shell, kernel tasks) runs
with interrupts on and can be interrupted between any two instructions. The kernel
has no idle task; kernel tasks are made only by builds that test the scheduler.

| Part | State | Operations | What makes it correct |
|---|---|---|---|
| Scheduler `scheduler.c`, `usermode.asm` | `ready_queue` (list through `process::next`), `current`, `dynamic_priority`, TSS `esp0` | enqueue, best-of-queue, aging, preempt, block, exit, wake, remove, yield | the queue is exactly the READY processes, once each; one process runs and both records agree; nobody starves; the TSS names the stack of the running process; a kernel task goes on where it stopped |
| Process table `process.c` | `process_table[]`, `next_pid`, `process_count`, the stack pool's bitmap | create, fork, mark_exit, wait/waitpid, destroy, reap, signals | slots, stacks and count are conserved; no exit is missed; a status is delivered once; no field outlives its process |
| Pipes `pipe.c` | per pipe: `readers`, `writers`, ring buffer | create, read, write, retain, close | counts equal the open descriptors; no wake-up is missed; end of file is seen; the bytes are a stream |
| System calls `syscall.c` | none of its own | dispatch, argument checks, the calls | a failing call changes nothing |
| Traps `idt.c`, `isr.asm`, `timer.c` | the trap frame | timer, page fault, system call, trap exit | the frame returned to is one of a process that may run; signals are delivered on the way |
| Frames `frame.c` | bitmap, `frame_refcounts`, `used_frames` | init from the memory map, reserve, alloc, retain, release | a frame given away is usable memory nothing else occupies; its count is the number of its uses |
| Paging `paging.c`, `vm.c` | page directories and tables, the TLB | create, clone, destroy, map, resolve a COW fault, demand-map the heap | each process sees a private memory; no writable alias; no stale translation |
| User access `uaccess.c` | none | range checks, copies that fault pages in first | the kernel touches what the program itself may, no more and no less; its writes obey copy-on-write |
| ELF and exec `elf.c`, `syscall.c` | the address space under construction | validate, map segments, build the stack, commit | a failed exec leaves the caller as it was and leaks nothing |
| Heap `allocator.c` | a block list in a fixed arena | kmalloc, kfree | blocks tile the arena, no overlap |
| SimpleFS, VFS `simplefs.c`, `vfs.c` | superblock, bitmap, directory, extents; open handles | format, mount, open (create, truncate), read, write, close; files are never removed | extents are disjoint and marked used; reads return what was written; a handle stays valid |
| Keyboard `keyboard.c` | the key ring | IRQ 1 handler, getchar | keys arrive in order, each once, and are read |
| Screen, shell `vga.c`, `shell.c` | cells and cursor, the command line | putc, scroll, line editing, commands | the line on the screen is the line that is executed |
| Boot, memory map `stage2.asm`, `e820.c`, `memory.c` | the handoff, the loaded image, the size of memory | detect, load the kernel, size memory | the image is whole; odd memory maps do no harm |
| Ramdisk `ramdisk.c`, `blkdev.h` | the sectors | read, write | bounds |
| Serial port, GDT, strings | tables | device output, byte loops | no state |

How the parts meet: every system call runs on the kernel stack of the caller;
`process_mark_exit` calls into the scheduler (remove, wake) and the pipes
(close), the pipes call back into the process table (`process_wake_pipe_waiter`)
and from there into the scheduler (wake). fork clones the address space through
`paging.c`, which takes frames; destroying a process, done by its parent's wait
or by whoever runs next (`process_complete_context_switch`), gives everything
back. Blocked calls are completed by the trap that next returns to the sleeper,
in its address space.

Hard behaviours: the wait/exit race, blocked I/O retried after a wake-up, orphans,
signals that meet a process on different trap exits, destroying a stack inside a
trap, copy-on-write between parent, child and kernel, running out of frames in
the middle of fork and exec, stale TLB entries, files that move while another
handle is in the middle of them, sums that wrap, interrupts between two accesses
to the key ring or between the two halves of `yield`, memory maps with overlapping,
empty or wrapping entries, a line that wraps and scrolls while it is edited.
`PROJECT.json` lists each of
them as a hazard, at its line, with the properties aimed at it.

## 2. The models

| Module | Models |
|---|---|
| `ReadyQueue` | the list operations of `scheduler.c` as pure operators |
| `Kernel` | process table, scheduler, pipes, signals, traps (extends `ReadyQueue`) |
| `MCKernel` | the system calls and exit codes the `Kernel` runs use |
| `Memory` | frames, address spaces, copy-on-write, lazy heap, TLB, exec |
| `PrivateMemory` | what `Memory` promises: an abstract specification without frames |
| `FileSystem` | SimpleFS, the VFS handles and the descriptors that share them |
| `Files` | what `FileSystem` promises: files as byte sequences, without sectors |
| `MCFileSystem` | what the programs of the `FileSystem` runs write |
| `Heap` | `kmalloc` and `kfree` on the linked headers |
| `Elf` | validating and loading an executable |
| `ExecStack` | copying exec's argument vectors and building the new stack |
| `UserAccess` | range checks, page walks and string copies of `uaccess.c` |
| `Keyboard` | the key ring between its interrupt handler and its reader |
| `Console` | the screen and the shell's line editor |
| `PipeBytes` | the ring buffer of a pipe and the calls on it, byte by byte |
| `ByteStream` | what `PipeBytes` promises: a stream of bytes, without ring or sleepers |
| `Boot` | stage 2, the memory map, the frame bitmap and what boot takes from it |
| `Tasks` | kernel tasks: yield, the context switch, preemption (extends `ReadyQueue`) |
| `MCServices` | these nine parts (`ByteStream` aside) side by side, for two runs |
| `Kernel_proofs`, `KernelFamily_proofs`, `Memory_proofs`, `FileSystem_proofs`, `Streams_proofs`, `Heap_proofs`, `Boot_proofs`, `Services_proofs` | the theorems |

### Kernel

A process slot is a number; each field of `struct process` that has an effect is
a function over the slots (`state`, `pid`, `parent`, `waited`, `code`, `sig`,
`pend`, `blk`, `done`, `fds`, `intr`, `kstack`, `dyn`). `blk` gathers
`block_reason`, `waiting_for_child`, `wait_target_pid`, `wait_is_waitpid` and
the pipe wait's descriptor and count; `done` gathers what
`process_mark_exit` leaves for a sleeping parent. A pipe is its two counts and
its fill level. `log` and `got` are history: how each pid ended and which
statuses its parent was given.

The trap in progress is `pc`:

    user -> handler -> deliver* -> resume -> reap -> user
                    \-> closing* -> notify -> stop -/

`closing` closes one descriptor per step (`process_fd_close_all`), `notify` is
the rest of `process_mark_exit`, `stop` is `scheduler_exit_current`, `deliver`
one round of `process_deliver_signals`, `resume` the pending completion in
`process_complete_context_switch` and `reap` its table scan. The steps exist so
that invariants are seen in the middle of a trap; no other process runs in
between, as in the code. `esp` is the process whose frame the trap will load,
0 for none; `on` is the stack the trap runs on, taken from `tss` at entry.

`scheduler_get_current` and `process_get_current` are kept apart (`cur`, and the
lowest slot with state RUNNING), because the code uses both.

User programs are nondeterministic: at `pc = "user"` any call in `Calls` with
any argument in range may come, a fault, or, with preemption on, a tick.

### Memory

An address space is a function from cells (the directory, four tables, the user
pages) to entries (frame, writable bit, COW bit). `refs` is
`frame_refcounts`; a frame is free iff its count is 0. fork and exec build
`nw` in steps (one table, one page), each of which may fail for want of a
frame and then goes to `Undo`. `LOW_FRAMES` separates the frames page tables may
use from the rest, as `frame_alloc_below` does. `tlb` holds translations the CPU
has cached; it is filled by user accesses and emptied where the code loads cr3
or executes `invlpg`. A user store through a cached writable entry does
not look at the page table: this is what makes a missing flush visible.

`PrivateMemory` knows only what each process reads at each page. `Memory`
implements it under the mapping `mem[p][c] = data[space[p][c].f]`.

`Kernel` and `Memory` meet in fork, exec, exit and destroy; each abstracts the other's
part (`Kernel` has no memory, `Memory` has no queue: any live process may be
switched to, which covers every schedule).

### FileSystem

One system call is one action, for it runs in one trap and the ramdisk answers at
once; a call that changes nothing is no step. `dir`, `disk`, `used` and
`next_free` are SimpleFS's directory sectors, data sectors, allocation map and
superblock field; a file occupies one run of sectors and moves when it outgrows
it. `open` is `vfs_open_files` with its reference counts, `fds` the VFS
descriptors of each process. `RebuildSucceeds` and `RebuiltMap` are what mount
would compute from the directory at this moment. `Files` knows contents and
offsets only; `FileSystem` implements it with the content of a name read
through its directory entry.

### Heap, Elf, ExecStack, UserAccess, Keyboard

These share no state. `Heap` keeps the headers at their addresses, links
included, so that a wrong link is a wrong list. `Elf` reads any file: a program
header is chosen when the loader reaches it, words wrap at `WORD`, bytes of the
file are numbered so that a byte in the wrong place is noticed; `mapped` and
`writable` are the new address space, whose frames are in `Memory`.
`ExecStack` copies strings of chosen lengths and writes the stack byte by byte.
`UserAccess` takes any request against any mix of pages that are absent, in the lazy
heap, read-only to the program, shared copy-on-write, or writable (`pages`), with the
process's directory loaded or another one (`active`): what a write does at a page is
`vm_prepare_user_write_page`'s answer, which makes the second kind, resolves the
fourth and refuses the first and the third.
`Keyboard` splits `keyboard_getchar` at every access to the ring; its handler
runs in between unless the reader is `SYS_GETCHAR`, which has interrupts off.

### PipeBytes and ByteStream

`Kernel` says who sleeps and who is woken and counts bytes; `PipeBytes` follows
each byte of one pipe through `buffer`, `read_pos`, `write_pos` and `count`, with
the answer of every read and write. The scheduler picks any READY process. A
process resumed after a wake-up retries its call at `at = "exit"`, where it may find
that another process was faster and be told EAGAIN, or be killed before it tries.
A byte is a pair (writer, number), so that one lost, doubled or out of place is
noticed. `PipeBytes` implements `ByteStream` with `chan` the bytes from `read_pos`
on; the mapping leaves out who is asleep.

### Boot, Console, Tasks

`Boot` is straight-line code with its choices: any memory map of a few entries, any
CMOS answer, a disk error at any read. `fm` is the bitmap, the reference counts and
`used_frames`, kept apart because the code updates them separately; `handed` is
history, the frames given away. Addresses, products and sums wrap where the code's
32- and 64-bit ones do.

`Console` handles one key at a time. The shell echoes and never redraws, so that the
screen and `cmd_buffer` agree only if each wrap, scroll and erasure moves both alike.

`Tasks` splits `yield` where interrupts are on, between queueing the caller and
`context_switch`. `esp[t]` says what kind of frame `t` would be resumed from (one
`context_switch` pushed, or a trap's) and whose it is; `exec` is whose code the CPU
executes, which `current` should name.

`MCServices` declares the constants and variables of the nine parts and instantiates
them: a behaviour exercises one of those in `Parts`, named by `part`, and leaves the
others in an initial state. The reachable states are those of the modules, one after
another. Properties say nothing of a part that is idle.

## 3. The runs

| Run | Checks | Shows |
|---|---|---|
| `lifecycle` | TypeOK, RunningIsCurrent, QueueIsReady, ResumableFrames, ProcessResources, OnLiveStack, ParentsLive, ZombiesWaitable, WaitersHaveChild, CollectedOnce, HaltsWhenDone | three slots, four pids, preemption, faults, SIGKILL: the table, the queue, the stacks and the family links stay consistent through every order of fork, exit, wait, waitpid and kill; a parent is told each child's end once and correctly, by either call, awake or asleep, for wide and kernel exit codes; slots and stacks are reused; the machine stops only when no process can go on |
| `pipes` | NoLostPipeWakeup, PipeRefs, ZombieHoldsNothing | with three processes and SIGKILL nobody falls asleep on a pipe that is ready, and what makes one ready for a sleeper wakes it or another sleeper of its end (see section 7 for the rest of them), end counts are exact through fork, close and exit, and the dead hold no end |
| `fair` | ReadyRuns, KilledDies | no starvation; a signalled process that is not asleep dies |
| `oom` | TypeOK, RefsExact, HeapBelowBreak | reference counts are exact at every step of fork, exec, brk, faults and exit with too few frames |
| `cow` | NoWritableAlias, MemoryIsPrivate | sharing frames is invisible, kernel writes included |
| `tlb` | RetainSucceeds, MemoryIsPrivate | it stays invisible when user programs read and store through cached translations; a reference count at its maximum refuses fork before anything is shared (with `MAX_REFS` 3: 16 processes cannot reach the code's 0xFFFF) |
| `files` | TypeOK, DiskSound, FilesKept | two files on three data sectors, through two handles: growing, moving and truncating lose no sector and no byte, and a remount would find the same files |
| `handles` | HandlesExact, FilesKept | two processes share handles through fork, close, exec and exit; the table of handles and the directory fill up |
| `services` | TypeOK, HeapSound, ImageSound, ArgsSound, AccessExact, ScreenShowsLine, BootSound, StreamKept | the heap stays tiled and merged; a refused ELF file maps nothing, an accepted one is loaded whole; arguments arrive intact and fit when copied; the kernel touches only user memory that the program itself may read or write, and refuses no other; the screen shows the line to be executed; the kernel is loaded whole and no frame given away is outside usable memory or reserved; a pipe is a byte stream |
| `turns` | KeysInOrder, TaskFrames, KeyRead, TaskRuns | keys arrive in order and the shell gets each; a kernel task goes on where it stopped whenever the timer ticks, and every preemptive one runs again and again |
| `eof`, `signal` | EofDetected; SignalsDelivered | violated: see [findings](#7-findings) |

Run one with `tlc -workers 2 -config Kernel_lifecycle.cfg MCKernel`,
`Memory_cow.cfg Memory`, `FileSystem_files.cfg MCFileSystem` or
`Services_services.cfg MCServices`. Each takes about three minutes or less.

Every property of a passing run has a mutant in `PROJECT.json`: a plausible slip in
one mapped definition (a dropped guard, a missed reset) under which TLC finds the
property violated. The mutated forms stand before the definitions they replace.

Deadlock is checked in every run but two. Where the machine can really stop (no
process can run, so the stub executes `cli; hlt`) `Kernel` stutters in `Halted`, and
`HaltsWhenDone` says when it may. The exceptions are `services` and `turns`, whose
parts end: loading is over, boot fails, the keys of the bound are typed, or a reader
in `SYS_GETCHAR` halts with interrupts off and nothing follows (see section 7).

## 4. Bounds

| Bound | Value | Why it is enough |
|---|---|---|
| `MAX_PROCESSES`, `STACK_SLOTS` | 2 or 3 | parent, child and a third that is sibling, grandchild or bystander: every table scan has a choice, every handoff an observer. Proofs cover the rest for the proved properties |
| `MaxPid` | 3 or 4 | 4 > slots, so slots and stacks are reused within `lifecycle`; 3 processes in `pipes`, two of them asleep at one end while the third reads, writes, closes or is killed |
| `PROCESS_MAX_FDS` / `MAX_PIPES` | 2 / 1 (0 / 0 where pipes play no part) | one pipe with both ends is what fits the blocking logic; descriptor exhaustion happens |
| `PIPE_CAPACITY`, `PIPE_BUF`, `Counts` | 2, 2, {1, 2} in `pipes`; 2, 1, {1} in the other runs of `Kernel` | writes that must go in whole, one that does not fit though there is room, reads of a part and of all, empty, partly full and full pipes; writes that may be split are in `PipeBytes`, and in the proofs about `Kernel` |
| `PROCESS_MAX_PRIORITY` | 2 (default 1) | aging saturates within two switches |
| `Faults`, `ExitCodes`, `Signals` | one fault code; codes 0, 258 and one with bit 31; 9, 15 | one of each class `process_mark_exit` tells apart |
| `FRAMES`, `LOW_FRAMES` | 11/10 (`oom`, `cow`), more elsewhere | enough for the first space and a part of the second: allocation fails at every place it can |
| `PAGE_SIZE` | 2 in `oom` | breaks inside a page |
| `MAX_REFS` | 3 | so small that three users of a frame meet the check; 16 processes do not reach the code's limit, 0xFFFF, and the check is what a larger table would rest on |
| `MaxBuilt` | 2, 3 in `tlb` | forks and execs begun; two let a fork or exec follow another one, three reach the limit of the counts |
| `SECTOR_SIZE`, `TOTAL_SECTORS` | 2, 4 (`files`) | one sector for tables, three for data: a file of two sectors and one of one fill the disk, and a file that grows must move or be refused |
| `MAX_OPEN_FILES`, `PROCESS_MAX_FDS` | 2, 2 | two handles on one file; both tables fill |
| `HEAP_SIZE`, `HEADER`, `Sizes` | 28, 2, {1, 4, 7} | up to six blocks; rests on both sides of the splitting limit, sizes that need rounding |
| `WORD` | 20 | sums wrap; user space lies away from both ends; a wrapped range can end in the page it starts in |
| `ELF_MAX_SEGMENTS`, `MemorySizes` | 2; 0, 1, 4, 6, 19 | pairs that touch, share a page or overlap; the greatest size that is allowed, one that is not, one that wraps |
| `StackSizes` | 8, 32 | a stack the arguments outgrow in every place, and one in the code's proportion to the limits |
| `KEYBOARD_BUFFER_SIZE`, `MaxKeys` | 3, 4 | the ring fills, drops keys and wraps |
| `VGA_WIDTH`, `VGA_HEIGHT`, `CMD_BUFFER_SIZE`, `MaxStrokes` | 3, 3, 5, 7 | a prompt and a full line take two rows, so the line wraps, scrolls and is erased back across a row end; seven keys execute a line and begin another |
| `Procs`, `PIPE_CAPACITY`, `PIPE_BUF`, `Counts`, `MaxSent` | 2, 3, 2, 0 to 3, 4 | the ring wraps, fills partly and wholly; writes that must be whole and that may be split; either process may be reader, writer or both |
| `Bases`, `Regions`, `E820_MAX_ENTRIES` | 0, 7, 13, 21; 0, 3, 10, 60; 2 | entries that are empty, unaligned, overlapping, beyond what is tracked, and that wrap at `UINT64` = 64; totals that wrap at `UINT32` = 32 |
| `MAX_TRACKED_MEMORY`, `FRAME_SIZE` | 20, 2 | ten frames: low memory, kernel, two fixed ranges (`TwoRanges` for the six of `kernel_main`), the ramdisk and some to give away |
| `KERNEL_SECTORS`, `KERNEL_CHUNK_SECTORS` | 3, 2 | a whole chunk and a rest |
| `Task`, `Priorities` | 3 tasks; 0, 2, 5 (limit 3) | a priority for the default, one that is kept and one that is cut; a task of low priority waits behind two |

No symmetry is used: table scans take the lowest slot, so slots are not
interchangeable.

## 5. Fairness

`FairSpec` is weak fairness of `KernelStep`, the steps of a trap: they are
instructions running with interrupts off, so a trap that has begun finishes.
And strong fairness of `Timer`: the PIT raises IRQ 0 periodically and the PIC
latches it, so an interrupt that arrives during a trap is taken when user mode
resumes; it is enabled only at `pc = "user"` and so only infinitely often. Nothing
is assumed of user programs: they may loop without ever calling the kernel.
`eof` is a counterexample under the same specification.

`Keyboard` has weak fairness of the reader (it runs whenever it is not halted), of
`Tick` (the timer is never masked) and of `keyboard_handler` (a latched interrupt
is taken while they are on). `KeyRead` needs the tick: an interrupt between the test
of the ring and `hlt` does not wake the reader, the next one does.

`Tasks` has weak fairness of `scheduler_preempt`: the timer ticks for ever and
preemptive tasks run with interrupts on. Cooperative tasks get none: one that never
yields keeps the CPU, and `TaskRuns` claims nothing of them.

## 6. Proofs

`tlapm KernelFamily_proofs.tla` and the modules it extends, one by one, check the proofs
about `Kernel`; `tlapm Memory_proofs.tla` those about `Memory`, `tlapm
FileSystem_proofs.tla` those about `FileSystem`, and `tlapm Services_proofs.tla`, with
`Streams_proofs`, `Heap_proofs` and `Boot_proofs`, of which each extends the one before, those
about `MCServices`. The assumptions are `KernelAssumption`
(with `ReadyQueue`'s), `MemoryAssumption`, `FileAssumption` and those of `MCServices`: the
ranges of the constants, that the empty name, which marks a free directory entry and which
`simplefs_normalize_path` refuses, names no file, that user space ends below the last word
(a range that ends at `WORD` would have the end 0) and so does the load area of the ELF
loader, that a string's buffer is smaller than the address space, that no size asked of kmalloc is so near 2^32 that rounding it up wraps (all callers pass small ones), that a stack size leaves an
aligned address above 0, that the process table is finite and the table for the memory map has
room for an entry, and that a line and its prompt fit the screen above its last row and hold
printable characters only. TLC evaluates them in every run of `MCKernel`, `Memory`,
`MCFileSystem` and `MCServices`. The theorems hold for any number of processes, pids,
stacks, descriptors, pipes, pages, frames, files, sectors, tasks, arguments and bytes.

### Kernel

1. `Kernel_proofs`: first what each operation on the ready queue does to the set of queued
   processes and that it keeps the list free of repetitions.
   The inductive invariant `SchedInv` = scheduler types, `RunningIsCurrent`,
   `QueueIsReady`, `ResumableFrames`, and that at `stop` the current process is
   a zombie. None is inductive alone: that a switch leaves the queue correct
   needs the picked process to be resumable (otherwise it is put back), that one
   process runs needs the queue to hold only READY ones. Theorems `OneRunner`,
   `QueueCorrect`, `FramesResumable`.
   `StackInv` relative to `SchedInv`: stacks are partitioned, the TSS
   names the current process's stack, the current process's slot is never dead,
   even after exit. Theorems `StacksPartitioned`, `StackLive`: the reaper, which
   frees stacks inside a trap, never frees the one it runs on.
   Last, `process_count` against the cardinality of the slots in use
   (`ResourcesExact`), and the whole type invariant (`TypeCorrect`).
2. `KernelFamily_proofs`: who is whose child. Most steps are `Steady`: they leave the tree
   alone; the four that do not (fork, the collecting wait, the second half of
   `process_mark_exit`, the reaper) are treated one by one. `FamilyInv` adds to the
   checked invariants what they need: pids are handed out once and in order, a
   parent is older than its child (so nobody is its own ancestor), descriptors are closed
   before the parent is told, a zombie still to be collected is not one its parent
   sleeps for, and only zombies are marked waited. Theorems `ParentsAlive`,
   `NothingOutlives`, `ZombiesCollectable`, `WaitsEnd`.
   `StatusInv` says that a status is in one place at a time, in the table, on its way to
   a sleeping parent, or with the parent, and is the one stored at exit: `StatusOnce`.
   `HaltsRightly` follows a sleeper in wait to its child, which is younger, until a
   sleeper on a pipe is met; there are finitely many pids.
   `RefsCounted`: `PipeRefs` is inductive given `FamilyInv`: the slot fork
   fills must hold no descriptor, and a process that is destroyed must have closed its own.
   `PipeWakesOne`: whoever sleeps after a step slept before it for the same reason
   (`StillAsleep`), or is the caller, whose pipe is not ready (`FallsAsleep`). No step changes
   a sleeper's descriptors (`SleeperEnds`), and since it holds an end, which `PipeRefs`
   counts, `SYS_PIPE` does not hand its pipe out again (`OpenSpares`). What is left that can
   make the pipe ready are the reads, writes, retries and closes that wake its end
   (`ReaderWoken`, `WriterWoken`).

### Memory

`Memory_proofs` is about counts `R` and spaces `S` as values: `Good(R, S, x)` says that
counts are the numbers of uses, that a shared frame is shared at the same page, that a writable
one has a single user, and that an absent entry has no flags. `x` is the process whose
fork is taking references: its writable pages are, for that while, in the
unfinished space too. Each thing the code does to frames is one lemma on `Good`
(`Alloc`, `Drop`, `HandOver`, `Share`, `Protected`, `MapPage`), and each action is one or two of
these, so that a step which takes two frames is seen as two.

The inductive invariant `MemInv` joins `Good` with: `Inhabited` (the dead have no space, the
running process lives), `Tabled` (a mapped page has its table, without which fork's first
phase could pass over a page), `Progress` (how far fork or exec is: which pages have been
looked at, shared or filled), `Coherent` (a cached translation is the one in the tables) and
`HeapBelowBreak`. TLC checked it on the instances of `oom`, `cow` and `tlb` first. `SameCell` and
`Progress` are what the checked properties lack: without the first a reference
given back by one page could be another page's, without the second fork could meet a
full count half way.

Theorems `MemoryTypes`, `FramesCounted`, `WritersAlone`, `RetainNeverFails`, `HeapTrimmed` follow
from `MemInv`. `SharingInvisible` is the refinement of `PrivateMemory`: a step that writes a
frame writes one that is behind no other page (`WriteShown`, `CowShown`, `DemandShown`) or behind
no page at all (`ForkHidden`, `ExecHidden`); fork and exec show in one step, their last.

### FileSystem

`FileSystem_proofs` takes a directory, a disk and an allocation map as values. `Sound(d, k, u,
nf)` says that runs are in the data area and disjoint, that the map has exactly their
sectors, all below `next_free_sector`, that a name is used once, and that past its end a
file's sectors hold zeros. `Replace` shows once what is left of it when one entry changes;
open with create or truncate and both ways of `simplefs_write` are cases of it. What
the two loops do to bytes is stated by position in the file (`OverwriteIs`, `CopyIs`), with the
arithmetic of sectors and offsets in `Position` and `SectorsFor`.

The inductive invariant `FsInv` joins `Sound` and the types with `HandlesExact` and
`HandlesNamed`: a handle without references is clear, one with references names a file of the
directory. The checked properties need the last part, since a write through a handle must find
its file, and it holds because files are truncated but never removed. TLC checked `FsInv` on
the instances of `files` and `handles` first. Zeros past the end are needed to show
what a write beyond the end, after another handle has truncated the file, leaves in the gap.

Theorems `FileTypes`, `DiskStaysSound` and `HandlesCounted` follow from `FsInv`. `FilesFaithful` is the
refinement of `Files`: a write is a splice (`WriteContent`) whether or not the file moves, a read
a slice (`ReadContent`), and fork, exec, close and exit only close handles (`CloseShown`, `ForkShown`).

### Streams

`Streams_proofs` describes a ring by what lies in it, read from its tail (`Ring`); `RingPut` and
`RingDrop` say what storing and taking do to that sequence. For the keyboard, `KeyboardInv` adds to
`KeysInOrder` that a reader which has seen a key still finds one: the handler only adds.
`KeyboardInOrder` then holds with IRQ 1 between any two accesses of the reader, though the
ring has no lock.

`PipeIsStream` is the refinement of `ByteStream`. A step of the loops in `pipe.c` moves as many
bytes as fit, so one step of `PipeBytes` moves a slice of the ring (`RingFill`, `FilledPut`). Its
invariant `PipeInv` has the ring's (the write position follows from the read position and the
count), the reference counts as cardinalities of the sets of holders, and that a process asleep in
a call holds the end it waits on, without which its retry could answer for an end it has
closed; an unused pipe is empty, or a new one would begin with old bytes.

`ScreenFollows` says of the screen which string ends at its cursor, with nothing behind it
(`Shown`): a printed character makes it longer (`ShownPut`), the three characters of an erasure
shorter, at the start of a row too (`ShownErase`), and a scroll moves it up whole, since a line and
its prompt fit above the last row. `vga_puts` is a fold of the community modules, that is, a
recursive function on sets of indices; `PrintsAll` shows that there is one, by the least
length for which there is none, and `PutsAppend` what it does to one character more.

### Heap

`HeapSound` speaks of the blocks that kmalloc's walk visits. `Heap_proofs` says that there is a
set of addresses whose headers are linked both ways and tile the heap in the order of their
addresses (`Linked`), with no two free neighbours (`Merged`), and that those in use are the ones
callers hold (`HeapInv`). TLC checked this, with the visited blocks as that set, on the instance of
`services` first. kmalloc takes a block whole (`Marked`) or cuts it (`Split`), which adds
an address to the set; kfree marks a block, after which it and the block in front may have a free
neighbour behind them, and each half of `coalesce` joins two blocks (`Fused`) and so takes an
address from the set and one of the two exceptions away (`FusedMerged`). The walk needs an
argument of its own: after `n` steps it is `n` headers down the heap or done, and has passed every
block in front of where it is (`Along`), so with a step for every header that fits it visits
exactly the set (`WalkVisits`). `heap_used` is compared with a fold over the
blocks in the order `CHOOSE` takes them; `TotalsExist` gives a function that adds sizes in any
order, and `FoldedTotal`, by the smallest set on which they differ, that the fold agrees with it.
`kfree`'s branch for a count that is too small is thus never taken. Theorem `HeapIsSound`.

### Boot

`BootSound` speaks of frames given away. `Boot_proofs` has the same of the frames that may be given
away next (`Open`), and says stage by stage what they are already away from: `Clean` ones are usable
memory outside low memory and the kernel, once the kernel is up they are in no fixed range and not
in the ramdisk. The page table taken before the ramdisk's memory is reserved lies below it. `Books`
says that the three records of the frames agree. `BootInv` adds what `load_kernel` has read so far;
TLC checked it on the instance of `services` first. `Reserve` is what `mark_allocated` does, and with
it `frame_reserve_range`, whether it cuts its range, refuses it or takes it as it is: fewer frames are
open, and none has a byte in the range. `MarkFree` is the converse, with the rounding inward that
keeps a frame closed when only part of it is usable. Without a map the frames end where CMOS says
memory does, or earlier, because the 32-bit product may wrap (`HighestFacts`). The loops over the
map's entries and over the fixed ranges are folds as in `vga_puts`; `Loops` and `LoopKeeps` treat
them alike. Theorem `BootIsSound`.

### Services

The parts of `MCServices` share no variable, so each invariant is kept by the
steps of the others.

- `TasksKeepFrames`. `TaskFrames` alone is not inductive: whether the switch may `ret` depends on
  the frame of the task it goes *to*. `TasksInv` says for a cooperative build that at most the
  executing task is inside `yield` and everybody else was left by `context_switch`, for a
  preemptive one that nobody is inside it and whoever waits was left by a trap.
- `AccessIsExact`. While the pages of a range are walked, `AccessInv` has that the range
  lies in user space, that the page is one of the range's, and that the pages before it may be
  read, or written if the range is to be. `RangeFacts` shows that the test of `uaccess_range_valid`, with its 32-bit sum, is the test
  for a range inside user space, `PageBelow` and its neighbours that a walk by whole pages
  meets every page once and stops.
- `ImageWhole`. `ElfInv` says that from the first mapping on the headers have been accepted and
  that the page ranges of different segments are disjoint (`HeadersInv`), and that the segments
  before the loop's index are whole, no other page being mapped (`SpaceInv`). Since the load area
  ends below the last page `align_up` does not wrap; since no segment meets a page of
  another (`Apart`), the mapping loop cannot come upon a page in use, the one way it
  could report the file as invalid half way; `PagesFit` bounds a segment's pages by the size of the two arrays.
- `ArgumentsArrive`. `ArgsInv` follows the strings: in the buffer each begins where the one before
  it ends, envp behind argv (`CopiedInv`); pushed backwards, the stack pointer is as far below the top as
  the buffer from the string on is long (`PushedInv`), so the strings on the stack do not overlap
  and the table goes below all of them. That arguments once copied cannot fail to fit
  (`NeverTooBigLate`) is arithmetic of this and the code's limits.
- `TypesCorrect`. That nothing leaves its bounds, whatever they are, follows in each part from its
  invariant and little more. `heap_used` stays within the heap because blocks on the list start
  where the ones before them have ended (`SumBound`) and callers hold only sizes they asked for
  (`HeldSizes`). A walk through user memory stays at a page of user space (`WalkInside`), the pages of
  an accepted segment lie in the load area (`PagesInside`). A process sends no more than its bound
  even when the call it sleeps in goes through (`PipeTypes`), and the reference counts of a pipe
  are at most the number of processes. `load_kernel` and the map's entries stay in range because
  of `BootShape`; for the keyboard and the tasks the types are part of the invariant.

### Model-checked only

- `ReadyRuns`, `KilledDies`, `KeyRead` and `TaskRuns`: liveness under fairness, which is out
  of the prover's reach.
- What recursive functions and folds compute for every input: the sum of sizes in `Elf` (whose value
  `ImageWhole` does not need).

## 7. Findings

- **eof** (`pipe.c:131`, `process.c:630`). Closing the last write end wakes one
  blocked reader. Of two blocked readers the second sleeps for ever, since
  neither a read at end of file nor anything else wakes it.
  `scripts/ipc_test.sh:100` reports end of file as detected.
- **signal** (`idt.c:138`). A fatal page fault switches to the next process
  without `process_deliver_signals`; that process enters user mode with SIGKILL
  pending and runs until its next trap. `scripts/ipc_test.sh:96` says delivery
  terminates the target on the transition to user space.

Observed while modelling, with no promise they break or none a run states:

- `isr.asm:141`: the timer stub loads `esp` with the scheduler's answer without
  the test for 0 the other stubs make; when a signal delivered on the tick
  kills the last runnable process the answer is 0. In `Kernel` this is the state
  `pc = "wild"`, which `lifecycle` reaches.
- `keyboard.c:78`: `SYS_GETCHAR` waits with `hlt` behind an interrupt gate
  (`syscall.c:23`), so with an empty ring the CPU stops for good. In `Keyboard`
  this is the reader `SYS_GETCHAR` at `hlt`.
- `syscall.c:311`: exec closes the descriptors opened with CLOEXEC and no others;
  `harness-engineering/09-safety-and-security/README.md:93` says that writable
  descriptors do not survive exec, `red-team/ATTACK_CATALOG.md:73` describes the code.
- `syscall.c:383`: an open that finds no free descriptor has already created or
  truncated the file.
- `elf.c:321`: an entry point in the gap between two segments is accepted.
- `vm.c:20`: user pages are taken from the lowest free frames, the only ones
  page tables can use.
- `process.c:725`: a process that slept in a blocking read or write and finds on its
  retry that another was faster is told EAGAIN, so that a blocking call can fail
  for no error. `ByteStream` allows the answer and says when it may be given.
- `process.c:630`: each read, write and last close wakes one waiter. If that one takes only a
  part of the bytes, needs more room than there is, or is killed by a signal before its retry,
  the others at its end stay asleep beside a ready pipe until the next read, write or close.
  `NoLostPipeWakeup` leaves this case out: it asks of a step that makes the pipe ready for a
  sleeper that it wakes somebody of that end.
- `uaccess.c:32`: with another directory loaded than the current process's every access is
  refused; `AccessComplete` speaks of the case where they agree.
- `scheduler.c:304`, `yield`: the preemptive kind is tested of the task that gives the CPU
  up and not of the one that gets it, so a cooperative task that yielded to a
  preemptive one would `ret` off a trap frame. No build has both kinds, and `Tasks`
  models one kind at a time.
- `frame.c`: a usable entry of the memory map that overlaps a reserved one is freed
  whole; `FramesUsable` asks only that some usable entry holds the frame.
- `frame.c`, `frame_reserve_range`: a range that ends beyond memory is cut and reported
  as reserved, so `ramdisk_init` succeeds when only the start of its 12 to 14 MB is
  there.
- `frame.c:97`: the size of memory in bytes is a 32-bit product and wraps at 4 GB,
  towards a smaller size.
- `Makefile`: nothing bounds `KERNEL_SECTORS`, though the image must stay below the
  loader's stack and the handoff block.

## 8. Limits and plan

Abstracted: in `Kernel` the bytes in pipes (fill levels; `PipeBytes` has the bytes),
addresses in `Memory` (pages are indices), bit 31 of exit codes (`VM_BIT`), path
syntax (names), the scan-code table (classes of characters), the texts of the shell's
commands, `run_count` and other statistics. `next_pid` is bounded by `MaxPid` and does
not wrap.

Not modelled, and why:

- stage 1, A20, the PIC and the segment tables: straight-line set-up of devices,
  nothing to interleave with;
- the serial port: output of test markers, no state;
- the self-tests of `kernel.c`, which are most of its lines, the one-shot markers they
  put into processes and the counters they read: test programs;
- exceptions that panic the kernel: nothing follows;
- the contents of the kernel's own page tables and the scratch mapping: one mapping
  replaced and flushed before each use;
- `stat` and the statistics calls: they only read;
- mounting a disk another system wrote: the ramdisk is memory, and every mount follows
  a format (`kernel.c:2221`);
- the documents and scripts of the agent harness.

Every safety property a passing run checks is proved for all values of the constants; liveness
stays with TLC.
