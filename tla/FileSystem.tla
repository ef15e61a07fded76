----------------------------- MODULE FileSystem -----------------------------
(***************************************************************************)
(* Files: SimpleFS on the ramdisk (kernel/simplefs.c, kernel/ramdisk.c),   *)
(* the open-file table of the VFS (kernel/vfs.c) and the descriptors of    *)
(* the processes that share it (kernel/process.c, kernel/syscall.c).       *)
(*                                                                         *)
(* Every call runs in one trap with interrupts off, so one call is one     *)
(* action; a call that returns an error and changes nothing is no step.    *)
(* The ramdisk refuses a sector out of range and never fails otherwise.    *)
(* Paths are names: those simplefs_normalize_path refuses come to nothing. *)
(***************************************************************************)
EXTENDS Integers, Sequences, FiniteSets

CONSTANTS SECTOR_SIZE,
          DATA_START,      \* SIMPLEFS_DATA_START
          TOTAL_SECTORS,
          MAX_FILES, MAX_OPEN_FILES, MAX_PROCESSES, PROCESS_MAX_FDS,
          Names,
          Buffers,         \* what the programs write, as byte sequences
          Counts,          \* how many bytes they ask to read
          Modes,           \* the access they open files with: r, w or rw
          Acts             \* the calls they make

NoName == ""

ASSUME FileAssumption ==
    /\ SECTOR_SIZE \in Nat \ {0}
    /\ DATA_START \in Nat \ {0}
    /\ TOTAL_SECTORS \in Nat /\ DATA_START < TOTAL_SECTORS
    /\ MAX_FILES \in Nat
    /\ MAX_OPEN_FILES \in Nat
    /\ MAX_PROCESSES \in Nat \ {0}
    /\ PROCESS_MAX_FDS \in Nat
    /\ NoName \notin Names
    /\ Buffers \subseteq Seq(Nat) /\ <<>> \notin Buffers
    /\ Counts \subseteq Nat
    /\ Modes \subseteq {"r", "w", "rw"}
    /\ Acts \subseteq {"open", "read", "write", "close", "fork", "exec", "exit"}

Sector == DATA_START .. TOTAL_SECTORS - 1   \* the data sectors
Byte   == 0 .. SECTOR_SIZE - 1              \* a place in a sector
Index  == 1 .. MAX_FILES                    \* a directory entry, as i + 1
Handle == 1 .. MAX_OPEN_FILES               \* vfs_open_files[i], as i + 1
Proc   == 1 .. MAX_PROCESSES
Fd     == 1 .. PROCESS_MAX_FDS

NoEntry == [name |-> NoName, start |-> 0, size |-> 0, alloc |-> 0]
Unused  == [ref |-> 0, name |-> NoName, off |-> 0, r |-> FALSE, w |-> FALSE]
NoFd    == [h |-> 0, cloexec |-> FALSE]

VARIABLES
    dir,       \* the directory sectors; an entry is used iff it has a name
    disk,      \* the data sectors
    used,      \* simplefs_sector_used, the data sectors
    next_free, \* next_free_sector of the superblock
    open,      \* vfs_open_files
    fds,       \* the VFS descriptors of each process
    live,      \* the processes
    got        \* what the last call read

fsVars  == <<dir, disk, used, next_free>>
tabVars == <<open, fds, live>>
vars    == <<fsVars, tabVars, got>>

Smaller(m, n) == IF m < n THEN m ELSE n
Larger(m, n)  == IF m > n THEN m ELSE n
Lowest(S) == IF S = {} THEN 0 ELSE CHOOSE x \in S : \A y \in S : x <= y

Zeros == [b \in Byte |-> 0]

(***************************************************************************)
(* simplefs_format and simplefs_mount of an empty disk, and one process.   *)
(***************************************************************************)
Init ==
    /\ dir = [i \in Index |-> NoEntry]
    /\ disk = [s \in Sector |-> Zeros]
    /\ used = {}
    /\ next_free = DATA_START
    /\ open = [h \in Handle |-> Unused]
    /\ fds = [p \in Proc |-> [f \in Fd |-> NoFd]]
    /\ live = {1}
    /\ got = <<>>

-----------------------------------------------------------------------------
(* The allocation map *)

Run(start, count) == start .. start + count - 1

InRange(start, count) ==
    /\ start >= DATA_START
    /\ start < TOTAL_SECTORS
    /\ count <= TOTAL_SECTORS - start

mark_run_free(map, start, count) ==
    IF count # 0 /\ InRange(start, count) THEN map \ Run(start, count) ELSE map

(***************************************************************************)
(* simplefs_allocate_sectors is first fit: the scan jumps past each used   *)
(* sector it meets.  0 when no run is long enough.                         *)
(***************************************************************************)
FitsOneMore(s, count) == s + count <= TOTAL_SECTORS + 1 /\ Run(s, count) \cap used = {}

FitsUnchecked(s, count) == s + count <= TOTAL_SECTORS

Fits(s, count) == s + count <= TOTAL_SECTORS /\ Run(s, count) \cap used = {}

allocate_sectors(count) == Lowest({s \in Sector : Fits(s, count)})

(***************************************************************************)
(* simplefs_rebuild_allocation_map as simplefs_mount runs it on a disk     *)
(* with directory d: it fails on a run out of range or one that meets      *)
(* another, and finds the sectors in use.                                  *)
(***************************************************************************)
HasRun(d) == {i \in Index : d[i].name # NoName /\ d[i].alloc # 0}
RunOf(e)  == Run(e.start, e.alloc)

RebuildSucceeds(d) ==
    /\ \A i \in HasRun(d) : InRange(d[i].start, d[i].alloc)
    /\ \A i, j \in HasRun(d) : i # j => RunOf(d[i]) \cap RunOf(d[j]) = {}

RebuiltMap(d) == UNION {RunOf(d[i]) : i \in HasRun(d)}

-----------------------------------------------------------------------------
(* SimpleFS *)

find_entry(n)   == Lowest({i \in Index : dir[i].name = n})
find_free_entry == Lowest({i \in Index : dir[i].name = NoName})

sectors_for_bytes(n) == (n + SECTOR_SIZE - 1) \div SECTOR_SIZE

(***************************************************************************)
(* What is done to a file that is there: TRUNC gives its sectors back.     *)
(***************************************************************************)
Truncate(i) ==
    /\ used' = mark_run_free(used, dir[i].start, dir[i].alloc)
    /\ dir' = [dir EXCEPT ![i] = [NoEntry EXCEPT !.name = dir[i].name]]
    /\ UNCHANGED <<disk, next_free>>

Create(i, n) ==
    /\ dir' = [dir EXCEPT ![i] = [NoEntry EXCEPT !.name = n]]
    /\ UNCHANGED <<disk, used, next_free>>

simplefs_open(n, creat, trunc) ==
    LET i == find_entry(n)
        j == find_free_entry
    IN  \/ i = 0 /\ creat /\ j # 0 /\ Create(j, n)
        \/ i # 0 /\ trunc /\ Truncate(i)
        \/ i # 0 /\ ~trunc /\ UNCHANGED fsVars

(***************************************************************************)
(* simplefs_read: the bytes from offset o up to n of them or to the end.   *)
(***************************************************************************)
ByteAt(start, a) == disk[start + (a \div SECTOR_SIZE)][a % SECTOR_SIZE]

simplefs_read(n, o, count) ==
    LET e == dir[find_entry(n)]
    IN  IF o >= e.size THEN <<>>
        ELSE [k \in 1 .. Smaller(count, e.size - o) |-> ByteAt(e.start, o + k - 1)]

(***************************************************************************)
(* simplefs_ensure_capacity: a file that does not fit is moved to a longer *)
(* run.  The new run is zeroed (simplefs_zero_run), then the sectors with  *)
(* data are copied (simplefs_copy_file_data).                              *)
(***************************************************************************)
ZeroAndCopyNotZeroed(e, s, count) ==
    [x \in Sector |->
        IF x \in Run(s, sectors_for_bytes(e.size)) /\ e.alloc > 0
            THEN disk[e.start + (x - s)]
        ELSE disk[x]]

ZeroAndCopy(e, s, count) ==
    [x \in Sector |->
        IF x \in Run(s, sectors_for_bytes(e.size)) /\ e.alloc > 0
            THEN disk[e.start + (x - s)]
        ELSE IF x \in Run(s, count) THEN Zeros
        ELSE disk[x]]

(***************************************************************************)
(* The loop of simplefs_write: buffer s over the file's bytes from o on,   *)
(* sector by sector.                                                       *)
(***************************************************************************)
Overwrite(d, start, o, s) ==
    [x \in Sector |-> [b \in Byte |->
        LET a == (x - start) * SECTOR_SIZE + b
        IN  IF x >= start /\ a \in o .. o + Len(s) - 1 THEN s[a - o + 1]
            ELSE d[x][b]]]

(***************************************************************************)
(* simplefs_write.  The old run is given back last, when the entry names   *)
(* the new one.                                                            *)
(***************************************************************************)
GrownSize(e, o, s) == Larger(o + Len(s), e.size)

WriteInPlace(i, o, s) ==
    LET e == dir[i]
        size == GrownSize(e, o, s)
    IN  /\ sectors_for_bytes(size) <= e.alloc
        /\ disk' = Overwrite(disk, e.start, o, s)
        /\ dir' = [dir EXCEPT ![i].size = size]
        /\ UNCHANGED <<used, next_free>>

WriteMoved(i, o, s) ==
    LET e == dir[i]
        size == GrownSize(e, o, s)
        count == sectors_for_bytes(size)
        start == allocate_sectors(count)
    IN  /\ count > e.alloc
        /\ start # 0
        /\ next_free' = Larger(next_free, start + count)
        /\ disk' = Overwrite(ZeroAndCopy(e, start, count), start, o, s)
        /\ dir' = [dir EXCEPT ![i] = [@ EXCEPT !.start = start, !.size = size,
                                               !.alloc = count]]
        /\ used' = mark_run_free(used \cup Run(start, count), e.start, e.alloc)

simplefs_write(n, o, s) ==
    LET i == find_entry(n)
    IN  i # 0 /\ (WriteInPlace(i, o, s) \/ WriteMoved(i, o, s))

-----------------------------------------------------------------------------
(* The open-file table and the descriptors *)

vfs_alloc_fd == Lowest({h \in Handle : open[h].ref = 0})

FreeFd(p) == Lowest({f \in Fd : fds[p][f] = NoFd})

(***************************************************************************)
(* vfs_flags_valid: CREAT and TRUNC only with write access.                *)
(***************************************************************************)
vfs_flags_valid(mode, creat, trunc) == creat \/ trunc => mode # "r"

(***************************************************************************)
(* syscall_open.  The file is created or truncated before a descriptor is  *)
(* looked for; without one the handle is closed again.                     *)
(***************************************************************************)
Open(p, n, mode, creat, trunc, cloexec) ==
    LET h == vfs_alloc_fd
        f == FreeFd(p)
    IN  /\ "open" \in Acts
        /\ cloexec => "exec" \in Acts   \* no difference to other programs
        /\ vfs_flags_valid(mode, creat, trunc)
        /\ h # 0
        /\ simplefs_open(n, creat, trunc)
        /\ \/ /\ f # 0
              /\ open' = [open EXCEPT ![h] = [ref |-> 1, name |-> n, off |-> 0,
                                              r |-> mode # "w", w |-> mode # "r"]]
              /\ fds' = [fds EXCEPT ![p][f] = [h |-> h, cloexec |-> cloexec]]
           \/ f = 0 /\ UNCHANGED <<open, fds>>
        /\ got' = <<>>
        /\ UNCHANGED live

(***************************************************************************)
(* syscall_read and syscall_write on a VFS descriptor: the offset moves by *)
(* what was transferred, for every descriptor that shares the handle.      *)
(***************************************************************************)
AdvanceStuck(h, n) == open' = open

Advance(h, n) == open' = [open EXCEPT ![h].off = @ + n]

Read(p, f, n) ==
    LET h == fds[p][f].h
    IN  /\ "read" \in Acts
        /\ h # 0
        /\ open[h].r
        /\ got' = simplefs_read(open[h].name, open[h].off, n)
        /\ Advance(h, Len(got'))
        /\ UNCHANGED <<fsVars, fds, live>>

Write(p, f, s) ==
    LET h == fds[p][f].h
    IN  /\ "write" \in Acts
        /\ h # 0
        /\ open[h].w
        /\ simplefs_write(open[h].name, open[h].off, s)
        /\ Advance(h, Len(s))
        /\ got' = <<>>
        /\ UNCHANGED <<fds, live>>

(***************************************************************************)
(* The descriptors F of process p are closed one by one: each takes one    *)
(* reference off its handle, and the last one clears the handle.           *)
(***************************************************************************)
VfsCloseClears(n, e) == IF n > 0 THEN Unused ELSE e

vfs_close(n, e) == IF n >= e.ref THEN Unused ELSE [e EXCEPT !.ref = @ - n]

CloseFds(p, F) ==
    /\ open' = [h \in Handle |->
                   vfs_close(Cardinality({f \in F : fds[p][f].h = h}), open[h])]
    /\ fds' = [fds EXCEPT ![p] = [f \in Fd |-> IF f \in F THEN NoFd ELSE @[f]]]
    /\ got' = <<>>

Close(p, f) ==
    /\ "close" \in Acts
    /\ fds[p][f] # NoFd
    /\ CloseFds(p, {f})
    /\ UNCHANGED <<fsVars, live>>

(***************************************************************************)
(* process_fd_close_on_exec, after which the new image runs.               *)
(***************************************************************************)
CloseOnExec(p) == {f \in Fd : fds[p][f].cloexec}

Exec(p) ==
    /\ "exec" \in Acts
    /\ CloseFds(p, CloseOnExec(p))
    /\ UNCHANGED <<fsVars, live>>

(***************************************************************************)
(* process_fd_close_all, on exit.                                          *)
(***************************************************************************)
Exit(p) ==
    /\ "exit" \in Acts
    /\ CloseFds(p, {f \in Fd : fds[p][f] # NoFd})
    /\ live' = live \ {p}
    /\ UNCHANGED fsVars

(***************************************************************************)
(* process_fd_inherit, in fork: the child's descriptors share the handles. *)
(***************************************************************************)
Inherit(p) ==
    [h \in Handle |-> [open[h] EXCEPT !.ref =
        @ + Cardinality({f \in Fd : fds[p][f].h = h})]]

Fork(p, child) ==
    /\ "fork" \in Acts
    /\ child \notin live
    /\ open' = Inherit(p)
    /\ fds' = [fds EXCEPT ![child] = fds[p]]
    /\ live' = live \cup {child}
    /\ got' = <<>>
    /\ UNCHANGED fsVars

-----------------------------------------------------------------------------
Call(p) ==
    \/ \E n \in Names, mode \in Modes, creat, trunc, cloexec \in BOOLEAN :
          Open(p, n, mode, creat, trunc, cloexec)
    \/ \E f \in Fd, n \in Counts : Read(p, f, n)
    \/ \E f \in Fd, s \in Buffers : Write(p, f, s)
    \/ \E f \in Fd : Close(p, f)
    \/ \E child \in Proc : Fork(p, child)
    \/ Exec(p)
    \/ Exit(p)

(***************************************************************************)
(* Every process has ended.                                                *)
(***************************************************************************)
Idle == live = {} /\ UNCHANGED vars

Next == (\E p \in live : Call(p)) \/ Idle

Spec == Init /\ [][Next]_vars

-----------------------------------------------------------------------------
(* Properties *)

(* The directory, the disk, the allocation map, the open files and the      *)
(* descriptors stay in range, and an exited process has no descriptor.      *)
TypeOK ==
    /\ dir \in [Index -> [name : Names \cup {NoName}, start : Sector \cup {0},
                          size : Nat, alloc : 0 .. TOTAL_SECTORS - DATA_START]]
    /\ disk \in [Sector -> [Byte -> Nat]]
    /\ used \in SUBSET Sector
    /\ next_free \in DATA_START .. TOTAL_SECTORS
    /\ open \in [Handle -> [ref : Nat, name : Names \cup {NoName}, off : Nat,
                            r : BOOLEAN, w : BOOLEAN]]
    /\ fds \in [Proc -> [Fd -> [h : Handle \cup {0}, cloexec : BOOLEAN]]]
    /\ live \in SUBSET Proc
    /\ got \in Seq(Nat)
    /\ \A p \in Proc \ live : \A f \in Fd : fds[p][f] = NoFd

(* The disk could be mounted again after any call: no two files share a     *)
(* sector, and the map built from the directory is the map in memory, so    *)
(* truncating and growing files neither leaks a sector nor frees one that   *)
(* a file still has.                                                        *)
MountAgrees ==
    /\ RebuildSucceeds(dir)
    /\ RebuiltMap(dir) = used
    /\ \A s \in used : s < next_free

(* A file has one directory entry and enough sectors for its bytes, and     *)
(* what its last sectors hold past its end is zero: a write beyond the end, *)
(* possible after another handle has truncated the file, leaves no old      *)
(* bytes of any file in the gap.                                            *)
NoStaleBytes ==
    /\ \A i, j \in Index : dir[i].name = dir[j].name /\ dir[i].name # NoName => i = j
    /\ \A i \in HasRun(dir) :
          /\ dir[i].size <= dir[i].alloc * SECTOR_SIZE
          /\ \A a \in dir[i].size .. dir[i].alloc * SECTOR_SIZE - 1 :
                ByteAt(dir[i].start, a) = 0

(* Whatever happens to its files, the disk is one that SimpleFS can mount   *)
(* and that holds no bytes of dead files in live ones.                      *)
DiskSound == MountAgrees /\ NoStaleBytes

(* A handle is open as long as some descriptor of some process refers to    *)
(* it and no longer: its reference count is the number of descriptors, so   *)
(* no descriptor is left naming a handle that now belongs to another file.  *)
Descriptors(h) == {pf \in Proc \X Fd : fds[pf[1]][pf[2]].h = h}

HandlesExact == \A h \in Handle : open[h].ref = Cardinality(Descriptors(h))

(* The promise of Files: reads return what was written, wherever SimpleFS   *)
(* has moved the sectors, and processes that share a handle share its       *)
(* offset.                                                                  *)
NoFile == <<-1>>

Content(n) ==
    LET i == find_entry(n)
    IN  IF i = 0 THEN NoFile
        ELSE [k \in 1 .. dir[i].size |-> ByteAt(dir[i].start, k - 1)]

OpenFile(h) == [name |-> open[h].name, off |-> open[h].off,
                r |-> open[h].r, w |-> open[h].w]

Abstract == INSTANCE Files
    WITH Name <- Names, Buffer <- Buffers, Count <- Counts,
         Closed <- [name |-> NoName, off |-> 0, r |-> FALSE, w |-> FALSE],
         content <- [n \in Names |-> Content(n)],
         open <- [h \in Handle |-> OpenFile(h)]

FilesKept == Abstract!Spec

=============================================================================
