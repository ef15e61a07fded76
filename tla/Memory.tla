------------------------------- MODULE Memory -------------------------------
(***************************************************************************)
(* The memory half of the kernel: physical frames and their reference      *)
(* counts (kernel/frame.c), page directories and tables with copy-on-write *)
(* (kernel/paging.c), the page faults of user programs (kernel/vm.c), the  *)
(* kernel's own accesses to user pages (kernel/uaccess.c), and the system  *)
(* calls that build, change and drop an address space: SYS_FORK, SYS_EXEC  *)
(* with the ELF loader, SYS_BRK and process_destroy.                       *)
(*                                                                         *)
(* An address space is a function from cells to entries.  A cell is the    *)
(* directory, one of its tables or one of its user pages; an entry is the  *)
(* frame behind it with the two flags the code looks at.  fork and exec    *)
(* build a new space in steps, any of which may run out of frames; nw is   *)
(* the space under construction and pc says how far it is.                 *)
(*                                                                         *)
(* The allocation bitmap and used_frames change where a reference count    *)
(* leaves or reaches 0 and nowhere else: a frame is free iff its count is  *)
(* 0.  Of the frames below RESERVED_LOW_END, which are never handed out,   *)
(* there is one, KernelFrame: code of the kernel image that the first user *)
(* program runs from.  The kernel's own tables, which every directory      *)
(* shares, are left out.                                                   *)
(***************************************************************************)
EXTENDS Integers, FiniteSets

CONSTANTS SLOTS,       \* process slots
          TEXT_PAGES,  \* pages of an ELF image
          HEAP_PAGES,
          PAGE_SIZE,   \* bytes in a page
          FRAMES,      \* frames from RESERVED_LOW_END up
          LOW_FRAMES,  \* those below IDENTITY_MAPPED_LIMIT
          MAX_REFS,    \* 0xFFFF
          Contents,    \* what user programs store in a page
          MaxBuilt,    \* bound: forks and execs begun
          Acts         \* what they do: system calls, reads and stores

ASSUME MemoryAssumption ==
    /\ SLOTS \in Nat \ {0}
    /\ TEXT_PAGES \in Nat
    /\ HEAP_PAGES \in Nat
    /\ PAGE_SIZE \in Nat \ {0}
    /\ FRAMES \in Nat
    /\ LOW_FRAMES \in 4 .. FRAMES
    /\ MAX_REFS \in Nat \ {0}
    /\ Contents \subseteq Nat
    /\ 0 \in Contents
    /\ MaxBuilt \in Nat
    /\ Acts \subseteq {"fork", "exec", "brk", "copy", "read", "store"}

Slot  == 1 .. SLOTS
KernelFrame == FRAMES + 1
Frame == 1 .. KernelFrame

(***************************************************************************)
(* User pages in address order: the kernel code the first program is made  *)
(* of, ELF text, heap, stack.  Each region has a table of its own; the one *)
(* with the code is table 0, the identity map of low memory.               *)
(***************************************************************************)
Dir      == <<"dir", 0>>
Table(i) == <<"table", i>>
Page(i)  == <<"page", i>>

CodePage  == Page(0)
TextPages == {Page(i) : i \in 1 .. TEXT_PAGES}
HeapPages == {Page(TEXT_PAGES + i) : i \in 1 .. HEAP_PAGES}
StackPage == Page(TEXT_PAGES + HEAP_PAGES + 1)

Tables == {Table(i) : i \in 0 .. 3}
Pages  == {CodePage, StackPage} \cup TextPages \cup HeapPages
Cells  == {Dir} \cup Tables \cup Pages

TableOf(c) == IF c = CodePage THEN Table(0)
              ELSE IF c \in TextPages THEN Table(1)
              ELSE IF c \in HeapPages THEN Table(2)
              ELSE Table(3)

(***************************************************************************)
(* Heap addresses, from heap_start = 0: the page of an address, and the    *)
(* first byte of a heap page.                                              *)
(***************************************************************************)
PROCESS_HEAP_LIMIT == HEAP_PAGES * PAGE_SIZE
Address   == 0 .. PROCESS_HEAP_LIMIT - 1
PageOf(a) == Page(TEXT_PAGES + (a \div PAGE_SIZE) + 1)
Start(c)  == (c[2] - TEXT_PAGES - 1) * PAGE_SIZE
align_up(a) == ((a + PAGE_SIZE - 1) \div PAGE_SIZE) * PAGE_SIZE

(***************************************************************************)
(* A present entry; f = 0 when PAGE_PRESENT is clear.                      *)
(***************************************************************************)
Entry    == [f : Frame \cup {0}, w : BOOLEAN, cow : BOOLEAN]
NoEntry  == [f |-> 0, w |-> FALSE, cow |-> FALSE]
ReadWrite(fr) == [f |-> fr, w |-> TRUE, cow |-> FALSE]
ReadOnly(fr)  == [f |-> fr, w |-> FALSE, cow |-> FALSE]
Empty    == [c \in Cells |-> NoEntry]
NoTlb    == [c \in Pages |-> NoEntry]

VARIABLES
    refs,      \* frame_refcounts
    data,      \* what each frame holds
    space,     \* the address space behind each process's cr3
    life,      \* dead, live or zombie
    heap_end,  \* per process, from heap_start
    cur,       \* the process that runs, whose directory is active; 0: none
    tlb,       \* the translations the CPU has cached
    pc, nw,
    built      \* the forks and execs so far

vars == <<refs, data, space, life, heap_end, cur, tlb, pc, nw, built>>

(***************************************************************************)
(* The first program as the kernel launches it: an address space, a stack  *)
(* page, and the kernel code mapped for user mode (without a reference of  *)
(* its own: the frame is reserved, with count 1, for good).                *)
(***************************************************************************)
Init ==
    /\ refs = [f \in Frame |-> IF f \in 1 .. 4 \cup {KernelFrame} THEN 1 ELSE 0]
    /\ data = [f \in Frame |-> 0]
    /\ space = [p \in Slot |->
                  IF p = 1
                  THEN [Empty EXCEPT ![Dir] = ReadWrite(1),
                                     ![Table(0)] = ReadWrite(2),
                                     ![StackPage] = ReadWrite(3),
                                     ![Table(3)] = ReadWrite(4),
                                     ![CodePage] = ReadOnly(KernelFrame)]
                  ELSE Empty]
    /\ life = [p \in Slot |-> IF p = 1 THEN "live" ELSE "dead"]
    /\ heap_end = [p \in Slot |-> 0]
    /\ cur = 1
    /\ tlb = NoTlb
    /\ pc = "user"
    /\ nw = Empty
    /\ built = 0

-----------------------------------------------------------------------------
(* frame.c *)

Lowest(S) == IF S = {} THEN 0 ELSE CHOOSE x \in S : \A y \in S : x <= y

(***************************************************************************)
(* frame_alloc_below: the first free frame; 0 when there is none.          *)
(***************************************************************************)
frame_alloc_below(r, n) == Lowest({f \in 1 .. n : r[f] = 0})

frame_alloc(r) == frame_alloc_below(r, FRAMES)

paging_alloc_frame(r) == frame_alloc_below(r, LOW_FRAMES)

(***************************************************************************)
(* frame_retain takes a reference unless the count is at its limit.        *)
(***************************************************************************)
Retainable(f) == refs[f] # 0 /\ refs[f] # MAX_REFS

(***************************************************************************)
(* frame_release once for every cell of C in the space s.  A count that is *)
(* 0 stays 0, and a reserved frame keeps its last reference.               *)
(***************************************************************************)
frame_release(s, C) ==
    [f \in Frame |->
        LET n == Cardinality({c \in C : s[c].f = f})
            least == IF f = KernelFrame THEN 1 ELSE 0
        IN  IF refs[f] - n < least THEN least ELSE refs[f] - n]

-----------------------------------------------------------------------------
(* paging.c: building and dropping address spaces *)

Mapped(s) == {c \in Cells : s[c].f # 0}

(***************************************************************************)
(* paging_destroy_address_space gives back the user pages, the tables and  *)
(* the directory.  paging_destroy_clone_with_refs does the same, and       *)
(* paging_destroy_clone_skeleton does when no page is shared yet.  The     *)
(* directory the CPU is using is left alone.                               *)
(***************************************************************************)
destroy_address_space(s, active) ==
    IF s[Dir].f = active THEN refs ELSE frame_release(s, Mapped(s))

(***************************************************************************)
(* The next cell of a loop over ascending indices.                         *)
(***************************************************************************)
First(C) == CHOOSE c \in C : \A d \in C : c[2] <= d[2]

(***************************************************************************)
(* paging_map_page_in_directory(space s, page c, frame fr) given counts r: *)
(* a missing table is allocated first.                                     *)
(***************************************************************************)
MapTable(s, c, r) ==
    IF s[TableOf(c)].f # 0 THEN s[TableOf(c)].f ELSE paging_alloc_frame(r)

WithPage(s, c, e, t) == [s EXCEPT ![c] = e, ![TableOf(c)] = ReadWrite(t)]

-----------------------------------------------------------------------------
(* SYS_FORK: paging_clone_directory *)

Dead == {p \in Slot : life[p] = "dead"}
Child == Lowest(Dead)
Parent == space[cur]

Running == pc = "user" /\ cur # 0
Does(act) == Running /\ act \in Acts

ForkBegin ==
    LET d == paging_alloc_frame(refs)
    IN  /\ Does("fork")
        /\ built < MaxBuilt
        /\ built' = built + 1
        /\ Child # 0
        /\ d # 0
        /\ refs' = [refs EXCEPT ![d] = 1]
        /\ data' = [data EXCEPT ![d] = 0]
        /\ nw' = [Empty EXCEPT ![Dir] = ReadWrite(d)]
        /\ pc' = "tables"
        /\ UNCHANGED <<space, life, heap_end, cur, tlb>>

(***************************************************************************)
(* Phase 1: a table for each one of the parent, and every frame of the     *)
(* parent's under it can take another reference.                           *)
(***************************************************************************)
TablesToDo == {c \in Tables : Parent[c].f # 0 /\ nw[c].f = 0}

PagesOf(s, t) == {c \in Pages : TableOf(c) = t /\ s[c].f # 0}

ShareableUnchecked(t) == TRUE

Shareable(t) == \A c \in PagesOf(Parent, t) : Retainable(Parent[c].f)

CloneTable ==
    LET t == First(TablesToDo)
        fr == paging_alloc_frame(refs)
    IN  /\ pc = "tables"
        /\ TablesToDo # {}
        /\ \/ /\ fr # 0
              /\ refs' = [refs EXCEPT ![fr] = 1]
              /\ data' = [data EXCEPT ![fr] = 0]
              /\ nw' = [nw EXCEPT ![t] = ReadWrite(fr)]
              /\ pc' = IF Shareable(t) THEN "tables" ELSE "undo"
           \/ /\ fr = 0
              /\ pc' = "undo"
              /\ UNCHANGED <<refs, data, nw>>
        /\ UNCHANGED <<space, life, heap_end, cur, tlb, built>>

CloneTablesDone ==
    /\ pc = "tables"
    /\ TablesToDo = {}
    /\ pc' = "retain"
    /\ UNCHANGED <<refs, data, space, life, heap_end, cur, tlb, nw, built>>

(***************************************************************************)
(* Phase 2a: one reference per user page, while the parent is untouched.   *)
(***************************************************************************)
PagesToDo == {c \in Pages : Parent[c].f # 0 /\ nw[c].f = 0}

Retain ==
    LET c == First(PagesToDo)
        f == Parent[c].f
    IN  /\ pc = "retain"
        /\ PagesToDo # {}
        /\ IF Retainable(f)
           THEN /\ refs' = [refs EXCEPT ![f] = @ + 1]
                /\ nw' = [nw EXCEPT ![c] = Parent[c]]
                /\ UNCHANGED pc
           ELSE /\ pc' = "undo"
                /\ UNCHANGED <<refs, nw>>
        /\ UNCHANGED <<data, space, life, heap_end, cur, tlb, built>>

(***************************************************************************)
(* Phase 2b: writable pages become read-only copy-on-write on both sides,  *)
(* and the parent's directory is loaded again to flush its translations.   *)
(***************************************************************************)
Protect(s) ==
    [c \in Cells |-> IF c \in Pages /\ (s[c].w \/ s[c].cow)
                     THEN [s[c] EXCEPT !.w = FALSE, !.cow = TRUE]
                     ELSE s[c]]

ParentUnprotected(s) == s

ParentAfterClone(s) == Protect(s)

TlbKept == tlb

TlbAfterClone == NoTlb

Commit ==
    /\ pc = "retain"
    /\ PagesToDo = {}
    /\ space' = [space EXCEPT ![cur] = ParentAfterClone(@)]
    /\ nw' = Protect(nw)
    /\ tlb' = TlbAfterClone
    /\ pc' = "inherit"
    /\ UNCHANGED <<refs, data, life, heap_end, cur, built>>

(***************************************************************************)
(* The rest of process_fork: the child gets the space, unless one of the   *)
(* parent's descriptors cannot be inherited.                               *)
(***************************************************************************)
ForkDone ==
    /\ pc = "inherit"
    /\ space' = [space EXCEPT ![Child] = nw]
    /\ life' = [life EXCEPT ![Child] = "live"]
    /\ heap_end' = [heap_end EXCEPT ![Child] = heap_end[cur]]
    /\ nw' = Empty
    /\ pc' = "user"
    /\ UNCHANGED <<refs, data, cur, tlb, built>>

ForkFails ==
    /\ pc = "inherit"
    /\ pc' = "undo"
    /\ UNCHANGED <<refs, data, space, life, heap_end, cur, tlb, nw, built>>

(***************************************************************************)
(* Every failing path of fork and exec drops the unfinished space.         *)
(***************************************************************************)
Undo ==
    /\ pc = "undo"
    /\ refs' = destroy_address_space(nw, Parent[Dir].f)
    /\ nw' = Empty
    /\ pc' = "user"
    /\ UNCHANGED <<data, space, life, heap_end, cur, tlb, built>>

-----------------------------------------------------------------------------
(* SYS_EXEC *)

(***************************************************************************)
(* paging_create_address_space: a directory and the low table.             *)
(***************************************************************************)
ExecBegin ==
    LET d == paging_alloc_frame(refs)
        r == [refs EXCEPT ![d] = 1]
        t == paging_alloc_frame(r)
    IN  /\ Does("exec")
        /\ built < MaxBuilt
        /\ built' = built + 1
        /\ d # 0
        /\ \/ /\ t # 0
              /\ refs' = [r EXCEPT ![t] = 1]
              /\ data' = [data EXCEPT ![d] = 0, ![t] = 0]
              /\ nw' = [Empty EXCEPT ![Dir] = ReadWrite(d), ![Table(0)] = ReadWrite(t)]
              /\ pc' = "load"
           \/ /\ t = 0
              /\ refs' = r
              /\ data' = [data EXCEPT ![d] = 0]
              /\ nw' = [Empty EXCEPT ![Dir] = ReadWrite(d)]
              /\ pc' = "undo"
        /\ UNCHANGED <<space, life, heap_end, cur, tlb>>

(***************************************************************************)
(* map_segment_pages for the text, then the stack page: a frame, mapped    *)
(* with the table it needs, and filled.  The text ends up read-only.  The  *)
(* loader switches to the new directory and back.                          *)
(***************************************************************************)
ImagePages == TextPages \cup {StackPage}
ImageToDo == {c \in ImagePages : nw[c].f = 0}

ExecMap ==
    LET c == First(ImageToDo)
        fr == frame_alloc(refs)
        r == [refs EXCEPT ![fr] = 1]
        t == MapTable(nw, c, r)
        e == IF c = StackPage THEN ReadWrite(fr) ELSE ReadOnly(fr)
    IN  /\ pc = "load"
        /\ ImageToDo # {}
        /\ \/ /\ fr # 0
              /\ t # 0
              /\ refs' = [r EXCEPT ![t] = 1]
              /\ data' = [data EXCEPT ![fr] = 0, ![t] = 0]
              /\ nw' = WithPage(nw, c, e, t)
              /\ UNCHANGED pc
           \/ /\ ~(fr # 0 /\ t # 0)
              /\ pc' = "undo"
              /\ UNCHANGED <<refs, data, nw>>
        /\ tlb' = NoTlb
        /\ UNCHANGED <<space, life, heap_end, cur, built>>

(***************************************************************************)
(* The image is refused before anything is mapped, or the arguments do not *)
(* fit the stack page afterwards.                                          *)
(***************************************************************************)
ExecRejects ==
    /\ pc = "load"
    /\ ImageToDo \in {{}, ImagePages}
    /\ pc' = "undo"
    /\ tlb' = NoTlb
    /\ UNCHANGED <<refs, data, space, life, heap_end, cur, nw, built>>

(***************************************************************************)
(* The point of no return: the new directory becomes the process's and     *)
(* active, then the old one is destroyed.                                  *)
(***************************************************************************)
SwitchAfterDestroy == destroy_address_space(Parent, Parent[Dir].f)

SwitchThenDestroy == destroy_address_space(Parent, nw[Dir].f)

ExecCommit ==
    /\ pc = "load"
    /\ ImageToDo = {}
    /\ refs' = SwitchThenDestroy
    /\ space' = [space EXCEPT ![cur] = nw]
    /\ heap_end' = [heap_end EXCEPT ![cur] = 0]
    /\ tlb' = NoTlb
    /\ nw' = Empty
    /\ pc' = "user"
    /\ UNCHANGED <<data, life, cur, built>>

-----------------------------------------------------------------------------
(* SYS_BRK *)

(***************************************************************************)
(* Growth is lazy; shrinking releases the whole pages above the new break. *)
(***************************************************************************)
BrkInRangeUnlimited(n) == TRUE

BrkInRange(n) == n <= PROCESS_HEAP_LIMIT

GivenUpOffByOne(n) ==
    {c \in HeapPages : Start(c) > n /\ Start(c) < align_up(heap_end[cur])}

GivenUp(n) ==
    {c \in HeapPages : Start(c) >= align_up(n) /\ Start(c) < align_up(heap_end[cur])}

Brk(n) ==
    /\ Does("brk")
    /\ BrkInRange(n)
    /\ refs' = frame_release(Parent, GivenUp(n) \cap Mapped(Parent))
    /\ space' = [space EXCEPT ![cur] =
                    [c \in Cells |-> IF c \in GivenUp(n) THEN NoEntry ELSE @[c]]]
    /\ tlb' = [c \in Pages |-> IF c \in GivenUp(n) THEN NoEntry ELSE tlb[c]]
    /\ heap_end' = [heap_end EXCEPT ![cur] = n]
    /\ UNCHANGED <<data, life, cur, pc, nw, built>>

-----------------------------------------------------------------------------
(* vm.c: page faults; uaccess.c: the kernel's own writes *)

(***************************************************************************)
(* paging_resolve_cow_fault on page c, after which it holds v.  The last   *)
(* owner keeps the frame, another gets a copy and drops its reference.     *)
(***************************************************************************)
LastOwnerOfTwo(f) == refs[f] <= 2

LastOwner(f) == refs[f] = 1

IsCow(c) == Parent[c].cow /\ ~Parent[c].w

Resolvable(c) == IsCow(c) /\ (LastOwner(Parent[c].f) \/ frame_alloc(refs) # 0)

resolve_cow_fault(c, v) ==
    LET old == Parent[c].f
        new == frame_alloc(refs)
    IN  /\ Resolvable(c)
        /\ \/ /\ LastOwner(old)
              /\ space' = [space EXCEPT ![cur][c] = ReadWrite(old)]
              /\ data' = [data EXCEPT ![old] = v]
              /\ UNCHANGED refs
           \/ /\ ~LastOwner(old)
              /\ space' = [space EXCEPT ![cur][c] = ReadWrite(new)]
              /\ data' = [data EXCEPT ![new] = v]
              /\ refs' = [frame_release(Parent, {c}) EXCEPT ![new] = 1]
        /\ tlb' = [tlb EXCEPT ![c] = NoEntry]
        /\ UNCHANGED <<life, heap_end, cur, pc, nw, built>>

(***************************************************************************)
(* demand_map_heap_page on page c, after which it holds v.                 *)
(***************************************************************************)
Mappable(c) ==
    LET fr == frame_alloc(refs)
    IN  fr # 0 /\ MapTable(Parent, c, [refs EXCEPT ![fr] = 1]) # 0

demand_map_heap_page(c, v) ==
    LET fr == frame_alloc(refs)
        r == [refs EXCEPT ![fr] = 1]
        t == MapTable(Parent, c, r)
    IN  /\ Mappable(c)
        /\ refs' = [r EXCEPT ![t] = 1]
        /\ data' = IF Parent[TableOf(c)].f = 0
                   THEN [data EXCEPT ![t] = 0, ![fr] = v]
                   ELSE [data EXCEPT ![fr] = v]
        /\ space' = [space EXCEPT ![cur] = WithPage(@, c, ReadWrite(fr), t)]
        /\ tlb' = [tlb EXCEPT ![c] = NoEntry]
        /\ UNCHANGED <<life, heap_end, cur, pc, nw, built>>

(***************************************************************************)
(* A process leaves the CPU for good: another one runs, if there is one.   *)
(* (When all the others are blocked the CPU halts in the state reached.)   *)
(***************************************************************************)
Runnable == {p \in Slot : life[p] = "live"} \ {cur}

Terminate ==
    /\ life' = [life EXCEPT ![cur] = "zombie"]
    /\ cur' \in IF Runnable = {} THEN {0} ELSE Runnable
    /\ tlb' = NoTlb
    /\ UNCHANGED <<refs, data, space, heap_end, pc, nw, built>>

(***************************************************************************)
(* User mode.  What the CPU uses for page c: the cached translation, or    *)
(* the one it finds in the tables and caches.                              *)
(***************************************************************************)
Translation(c) == IF tlb[c].f # 0 THEN tlb[c] ELSE Parent[c]

UserRead(c) ==
    /\ Does("read")
    /\ Translation(c).f # 0
    /\ tlb' = [tlb EXCEPT ![c] = Translation(c)]
    /\ UNCHANGED <<refs, data, space, life, heap_end, cur, pc, nw, built>>

UserWrite(c, v) ==
    /\ Does("store")
    /\ Translation(c).f # 0
    /\ Translation(c).w
    /\ data' = [data EXCEPT ![Translation(c).f] = v]
    /\ tlb' = [tlb EXCEPT ![c] = Translation(c)]
    /\ UNCHANGED <<refs, space, life, heap_end, cur, pc, nw, built>>

(***************************************************************************)
(* vm_handle_page_fault for a write to a page that is there.  A page that  *)
(* is not copy-on-write, or one that cannot be copied, ends the process.   *)
(***************************************************************************)
WriteFault(c) ==
    /\ Running
    /\ Translation(c).f # 0
    /\ ~Translation(c).w
    /\ \/ resolve_cow_fault(c, data[Parent[c].f])
       \/ ~Resolvable(c) /\ Terminate

(***************************************************************************)
(* For a heap address that is not there: below the break it is mapped on   *)
(* demand, zeroed.  Above it, or without memory, the process ends.         *)
(***************************************************************************)
HeapFault(a) ==
    /\ Running
    /\ Translation(PageOf(a)).f = 0
    /\ \/ a < heap_end[cur] /\ demand_map_heap_page(PageOf(a), 0)
       \/ ~(a < heap_end[cur] /\ Mappable(PageOf(a))) /\ Terminate

(***************************************************************************)
(* copy_to_user of v to page c: vm_prepare_user_write_page makes the page  *)
(* writable, without memory the call fails and the process lives on.       *)
(***************************************************************************)
CopyToUser(c, v) ==
    /\ Does("copy")
    /\ c # CodePage
    /\ \/ /\ Parent[c].w
          /\ data' = [data EXCEPT ![Parent[c].f] = v]
          /\ UNCHANGED <<refs, space, life, heap_end, cur, tlb, pc, nw, built>>
       \/ resolve_cow_fault(c, v)
       \/ /\ Parent[c].f = 0
          /\ c \in HeapPages
          /\ Start(c) < heap_end[cur]
          /\ demand_map_heap_page(c, v)

Exit == Running /\ Terminate

(***************************************************************************)
(* scheduler: switch_address_space to a process that can run.              *)
(***************************************************************************)
Switch(p) ==
    /\ Running
    /\ p \in Runnable
    /\ cur' = p
    /\ tlb' = NoTlb
    /\ UNCHANGED <<refs, data, space, life, heap_end, pc, nw, built>>

(***************************************************************************)
(* process_destroy of a zombie, from wait or from the end of a trap.       *)
(***************************************************************************)
Destroy(p) ==
    /\ Running
    /\ life[p] = "zombie"
    /\ refs' = destroy_address_space(space[p], Parent[Dir].f)
    /\ space' = [space EXCEPT ![p] = Empty]
    /\ life' = [life EXCEPT ![p] = "dead"]
    /\ heap_end' = [heap_end EXCEPT ![p] = 0]
    /\ UNCHANGED <<data, cur, tlb, pc, nw, built>>

(***************************************************************************)
(* Nobody can run: the CPU is halted.                                      *)
(***************************************************************************)
Halted == cur = 0 /\ UNCHANGED vars

-----------------------------------------------------------------------------
ForkStep == ForkBegin \/ CloneTable \/ CloneTablesDone \/ Retain \/ Commit
            \/ ForkDone \/ ForkFails

ExecStep == ExecBegin \/ ExecMap \/ ExecRejects \/ ExecCommit

UserStep ==
    \/ \E c \in Pages : UserRead(c) \/ WriteFault(c)
    \/ \E c \in Pages, v \in Contents : UserWrite(c, v) \/ CopyToUser(c, v)
    \/ \E a \in Address : HeapFault(a)
    \/ \E n \in 0 .. PROCESS_HEAP_LIMIT + 1 : Brk(n)
    \/ \E p \in Slot : Switch(p) \/ Destroy(p)
    \/ Exit

Next == ForkStep \/ ExecStep \/ Undo \/ UserStep \/ Halted

Spec == Init /\ [][Next]_vars

-----------------------------------------------------------------------------
(* Properties *)

(* Reference counts, page tables and the break stay in their ranges, at     *)
(* most one space is under construction, and it is gone in user mode.       *)
TypeOK ==
    /\ refs \in [Frame -> 0 .. MAX_REFS]
    /\ data \in [Frame -> Contents]
    /\ space \in [Slot -> [Cells -> Entry]]
    /\ life \in [Slot -> {"dead", "live", "zombie"}]
    /\ heap_end \in [Slot -> 0 .. PROCESS_HEAP_LIMIT]
    /\ cur \in Slot \cup {0}
    /\ tlb \in [Pages -> Entry]
    /\ pc \in {"user", "tables", "retain", "inherit", "load", "undo"}
    /\ nw \in [Cells -> Entry]
    /\ pc = "user" <=> nw = Empty
    /\ built \in 0 .. MaxBuilt

(* The places a frame is referenced from: the cells of every process's      *)
(* space and of the one under construction, 0.                              *)
SpaceOf(p) == IF p = 0 THEN nw ELSE space[p]

Owners(f) == {o \in (Slot \cup {0}) \X Cells : SpaceOf(o[1])[o[2]].f = f}

(* Frame accounting is exact at every step of fork, exec, brk, a fault and  *)
(* exit, also when one of them runs out of memory half way: the reference   *)
(* count is the number of places a frame is used in, so nothing is leaked   *)
(* and nothing is freed that somebody still uses.  Kernel code keeps its    *)
(* reservation when the last program that runs it is gone.                  *)
RefsExact ==
    \A f \in Frame :
        LET n == Cardinality(Owners(f))
        IN  refs[f] = IF f = KernelFrame /\ n = 0 THEN 1 ELSE n

(* A page a process may write, a page table and a directory are in a frame  *)
(* nobody else uses: no alias survives a fork, in the parent's directory or *)
(* the child's.  (While fork runs the parent still has its writable pages:  *)
(* no user code runs until they are protected.)                             *)
NoWritableAlias ==
    \A p \in Slot : \A c \in Cells :
        (space[p][c].w /\ (c \notin Pages \/ pc = "user")) =>
            Cardinality(Owners(space[p][c].f)) = 1

(* fork checks every reference count before it takes the first reference,   *)
(* so taking them cannot fail: the parent is never left half shared.        *)
RetainSucceeds ==
    pc = "retain" => \A c \in PagesToDo : Retainable(Parent[c].f)

(* No heap page stays mapped above the break, rounded up to a page, through *)
(* brk, fork and exec in any order.                                         *)
HeapBelowBreak ==
    \A p \in Slot : \A c \in HeapPages :
        space[p][c].f # 0 => Start(c) < align_up(heap_end[p])

(* The promise of PrivateMemory: what a process reads changes only by its   *)
(* own stores, brk and exec while it runs, and a child starts with exactly  *)
(* what its parent reads, though the two share every frame.                 *)
NoPage == -1

View == [p \in Slot |-> [c \in Pages |->
            IF space[p][c].f = 0 THEN NoPage ELSE data[space[p][c].f]]]

Private == INSTANCE PrivateMemory
    WITH Process <- Slot, Cell <- Pages, Content <- Contents, Boot <- 1,
         mem <- View, running <- cur

MemoryIsPrivate == Private!Spec

=============================================================================
