-------------------------------- MODULE Boot --------------------------------
(***************************************************************************)
(* From the BIOS to the first free frame: stage 2 of the boot loader asks  *)
(* for the memory map and loads the kernel (boot/stage2.asm); kernel_main  *)
(* reads the map (kernel/e820.c, kernel/memory.c), builds the frame bitmap *)
(* (kernel/frame.c) and reserves the memory it uses at fixed addresses     *)
(* (kernel/kernel.c, kernel/ramdisk.c).                                    *)
(*                                                                         *)
(* The BIOS answers as it likes: any list of regions, overlapping, not     *)
(* aligned or empty; an error at any call; any CMOS memory size; a disk    *)
(* error at any read.  Nothing runs concurrently.                          *)
(***************************************************************************)
EXTENDS Integers, Sequences, FiniteSets, SequencesExt

CONSTANTS
    UINT32, UINT64,        \* the two unsigned types wrap there
    FRAME_SIZE, MAX_TRACKED_MEMORY, RESERVED_LOW_END,
    KB, MB, MB16,          \* 1024, 1 MB in KB, 16 MB
    KERNEL_END,            \* &__kernel_end
    IDENTITY_MAPPED_LIMIT, \* page tables come from below it
    FixedRanges,           \* what kernel_main reserves: a sequence of <<start, end>>
    RAMDISK_BASE, RAMDISK_END,
    E820_MAX_ENTRIES, Bases, Regions,   \* Regions: the lengths of map entries
    CmosBelow, CmosAbove,  \* what CMOS may report: KB above 1 MB, blocks above 16 MB
    CMOS_BLOCK,            \* the KB of such a block
    KERNEL_OFFSET, KERNEL_LBA_START, KERNEL_SECTORS, KERNEL_CHUNK_SECTORS,
    PARAGRAPH, PARAS       \* bytes per paragraph, paragraphs per sector

MAX_FRAMES == MAX_TRACKED_MEMORY \div FRAME_SIZE

VARIABLES
    stage,        \* where the boot is
    map,          \* the memory map entries, in the order of the BIOS
    sectors_left, current_lba, dest_seg,
    image,        \* the sector the loader put at each paragraph
    total_kb,     \* total_memory_kb
    total_frames,
    fm,           \* frame_bitmap, the frames with a refcount, used_frames
    handed        \* the frames that were allocated and not yet released

loader == <<sectors_left, current_lba, dest_seg, image>>
vars   == <<stage, map, loader, total_kb, total_frames, fm, handed>>

Frame == 0 .. MAX_FRAMES - 1

Entry == [base : Bases, length : Regions, usable : BOOLEAN]

Init ==
    /\ stage = "detect_e820"
    /\ map = <<>>
    /\ sectors_left = KERNEL_SECTORS
    /\ current_lba = KERNEL_LBA_START
    /\ dest_seg = KERNEL_OFFSET \div PARAGRAPH
    /\ image = <<>>
    /\ total_kb = 0
    /\ total_frames = 0
    /\ fm = [bits |-> {}, counted |-> {}, used |-> 0]
    /\ handed = {}

-----------------------------------------------------------------------------
(* Stage 2 *)

(***************************************************************************)
(* One int 0x15: an error or a wrong signature ends the list; so do the    *)
(* BIOS's last entry and a full table.                                     *)
(***************************************************************************)
detect_e820 ==
    /\ stage = "detect_e820"
    /\ \/ stage' = "load_kernel" /\ UNCHANGED map
       \/ \E e \in Entry, last \in BOOLEAN :
             /\ map' = Append(map, e)
             /\ stage' = IF last \/ Len(map') >= E820_MAX_ENTRIES
                         THEN "load_kernel" ELSE "detect_e820"
    /\ UNCHANGED <<loader, total_kb, total_frames, fm, handed>>

(***************************************************************************)
(* One int 0x13 of load_kernel: at most KERNEL_CHUNK_SECTORS, each sector  *)
(* PARAS paragraphs behind the one before it.                              *)
(***************************************************************************)
Chunk == IF sectors_left <= KERNEL_CHUNK_SECTORS THEN sectors_left ELSE KERNEL_CHUNK_SECTORS

load_kernel ==
    /\ stage = "load_kernel"
    /\ sectors_left > 0
    /\ \/ /\ image' = image \o [i \in 1 .. Chunk |->
                          [seg |-> dest_seg + (i - 1) * PARAS, lba |-> current_lba + i - 1]]
          /\ current_lba' = current_lba + Chunk
          /\ sectors_left' = sectors_left - Chunk
          /\ dest_seg' = dest_seg + Chunk * PARAS
          /\ UNCHANGED stage
       \/ stage' = "disk_error" /\ UNCHANGED loader
    /\ UNCHANGED <<map, total_kb, total_frames, fm, handed>>

switch_to_pm ==
    /\ stage = "load_kernel"
    /\ sectors_left = 0
    /\ stage' = "memory_init"
    /\ UNCHANGED <<map, loader, total_kb, total_frames, fm, handed>>

-----------------------------------------------------------------------------
(* The size of memory *)

e820_is_available == map # <<>>

AddUsable(total, e) == IF e.usable THEN (total + e.length) % UINT64 ELSE total

e820_get_total_usable_memory == FoldLeft(AddUsable, 0, map)

CmosTotal(below, above) ==
    IF above > 0 THEN MB16 \div KB + above * CMOS_BLOCK
    ELSE IF below > 0 THEN MB + below
    ELSE 0

memory_init ==
    /\ stage = "memory_init"
    /\ stage' = "frame_init"
    /\ \/ /\ e820_is_available /\ e820_get_total_usable_memory >= MB16
          /\ total_kb' = e820_get_total_usable_memory \div KB
       \/ /\ ~(e820_is_available /\ e820_get_total_usable_memory >= MB16)
          /\ \E below \in CmosBelow, above \in CmosAbove : total_kb' = CmosTotal(below, above)
    /\ UNCHANGED <<map, loader, total_frames, fm, handed>>

-----------------------------------------------------------------------------
(* The frame bitmap *)

Smaller(a, b) == IF a < b THEN a ELSE b
Larger(a, b)  == IF a < b THEN b ELSE a

Down(a) == a \div FRAME_SIZE
Up(a)   == (a + FRAME_SIZE - 1) \div FRAME_SIZE

mark_allocated(m, total, start, end) ==
    LET F == Down(start) .. Smaller(Up(end), total) - 1
    IN  [bits    |-> m.bits \cup F,
         counted |-> m.counted \cup F,
         used    |-> m.used + Cardinality(F \ m.bits)]

MarkFreeOutward(m, total, start, end) ==
    LET F == (Down(start) .. Smaller(Down(end), total) - 1) \cap m.bits
    IN  [bits    |-> m.bits \ F,
         counted |-> m.counted \ F,
         used    |-> Larger(m.used - Cardinality(F), 0)]

mark_free(m, total, start, end) ==
    LET F == (Up(start) .. Smaller(Down(end), total) - 1) \cap m.bits
    IN  [bits    |-> m.bits \ F,
         counted |-> m.counted \ F,
         used    |-> Larger(m.used - Cardinality(F), 0)]

End64(e) == (e.base + e.length) % UINT64

Tracked(a) == Smaller(a, MAX_TRACKED_MEMORY)

RaiseHighest(highest, e) ==
    IF e.usable THEN Larger(highest, Tracked(End64(e))) ELSE highest

highest_memory_from_e820 == FoldLeft(RaiseHighest, 0, map)

(***************************************************************************)
(* total_kb * 1024 is a 32-bit product.                                    *)
(***************************************************************************)
Highest ==
    IF highest_memory_from_e820 >= MB16
    THEN highest_memory_from_e820
    ELSE Tracked((total_kb * KB) % UINT32)

FreeEntry(m, total, e) ==
    IF e.usable /\ e.base <= MAX_TRACKED_MEMORY
    THEN mark_free(m, total, e.base, Tracked(End64(e)))
    ELSE m

FreeEntries(m, total) == FoldLeft(LAMBDA acc, e : FreeEntry(acc, total, e), m, map)

(***************************************************************************)
(* Everything is taken, the usable regions are freed, and low memory (with *)
(* the handoff, heap and page tables in it) and the kernel taken again.    *)
(***************************************************************************)
frame_init ==
    LET total == Smaller(Highest \div FRAME_SIZE, MAX_FRAMES)
        all == [bits |-> Frame, counted |-> 0 .. total - 1, used |-> total]
        freed == IF e820_is_available THEN FreeEntries(all, total)
                 ELSE mark_free(all, total, 0, total * FRAME_SIZE)
        low == mark_allocated(freed, total, 0, RESERVED_LOW_END)
    IN  /\ stage = "frame_init"
        /\ stage' = "kernel_main"
        /\ total_frames' = total
        /\ fm' = mark_allocated(low, total, KERNEL_OFFSET, KERNEL_END)
        /\ UNCHANGED <<map, loader, total_kb, handed>>

(***************************************************************************)
(* frame_reserve_range refuses a range that starts beyond memory and cuts  *)
(* one that ends beyond it.                                                *)
(***************************************************************************)
MaxAddr == total_frames * FRAME_SIZE

CanReserve(start) == start < MaxAddr

frame_reserve_range(m, start, end) ==
    IF CanReserve(start)
    THEN mark_allocated(m, total_frames, start, Smaller(end, MaxAddr))
    ELSE m

(***************************************************************************)
(* The first free frame at or above RESERVED_LOW_END and below limit; {}   *)
(* when there is none.                                                     *)
(***************************************************************************)
frame_alloc_below(m, limit) ==
    LET F == (Down(RESERVED_LOW_END) .. Smaller(Down(limit), total_frames) - 1) \ m.bits
    IN  {f \in F : \A g \in F : f <= g}

Take(m, F) ==
    [bits |-> m.bits \cup F, counted |-> m.counted \cup F, used |-> m.used + Cardinality(F)]

-----------------------------------------------------------------------------
(* kernel_main *)

(***************************************************************************)
(* The fixed ranges, whose result is not looked at, then paging_init: its  *)
(* scratch table, which it does without if there is no frame for it.       *)
(***************************************************************************)
Reserved ==
    FoldLeft(LAMBDA acc, r : frame_reserve_range(acc, r[1], r[2]), fm, FixedRanges)

paging_init ==
    LET m == Reserved
        F == frame_alloc_below(m, IDENTITY_MAPPED_LIMIT)
    IN  /\ stage = "kernel_main"
        /\ stage' = "ramdisk_init"
        /\ fm' = Take(m, F)
        /\ handed' = handed \cup F
        /\ UNCHANGED <<map, loader, total_kb, total_frames>>

(***************************************************************************)
(* The ramdisk's memory and a page table to map it; without either the     *)
(* kernel stops.                                                           *)
(***************************************************************************)
ramdisk_init ==
    LET m == frame_reserve_range(fm, RAMDISK_BASE, RAMDISK_END)
        F == frame_alloc_below(m, IDENTITY_MAPPED_LIMIT)
    IN  /\ stage = "ramdisk_init"
        /\ \/ /\ CanReserve(RAMDISK_BASE) /\ F # {}
              /\ stage' = "up"
              /\ fm' = Take(m, F)
              /\ handed' = handed \cup F
           \/ /\ ~(CanReserve(RAMDISK_BASE) /\ F # {})
              /\ stage' = "RAMDISK_INIT_FATAL"
              /\ fm' = m
              /\ UNCHANGED handed
        /\ UNCHANGED <<map, loader, total_kb, total_frames>>

(***************************************************************************)
(* From then on frame_alloc (the limit is all memory) and page tables.     *)
(***************************************************************************)
frame_alloc ==
    \E limit \in {MaxAddr, IDENTITY_MAPPED_LIMIT} :
        LET F == frame_alloc_below(fm, limit)
        IN  /\ stage = "up"
            /\ F # {}
            /\ fm' = Take(fm, F)
            /\ handed' = handed \cup F
            /\ UNCHANGED <<stage, map, loader, total_kb, total_frames>>

frame_release(f) ==
    /\ stage = "up"
    /\ f \in handed
    /\ fm' = [bits |-> fm.bits \ {f}, counted |-> fm.counted \ {f},
              used |-> Larger(fm.used - 1, 0)]
    /\ handed' = handed \ {f}
    /\ UNCHANGED <<stage, map, loader, total_kb, total_frames>>

Next ==
    \/ detect_e820
    \/ load_kernel
    \/ switch_to_pm
    \/ memory_init
    \/ frame_init
    \/ paging_init
    \/ ramdisk_init
    \/ frame_alloc
    \/ \E f \in Frame : frame_release(f)

Spec == Init /\ [][Next]_vars

-----------------------------------------------------------------------------
(* Properties *)

TypeOK ==
    /\ stage \in {"detect_e820", "load_kernel", "disk_error", "memory_init", "frame_init",
                  "kernel_main", "ramdisk_init", "RAMDISK_INIT_FATAL", "up"}
    /\ map \in Seq(Entry) /\ Len(map) <= E820_MAX_ENTRIES
    /\ sectors_left \in 0 .. KERNEL_SECTORS
    /\ total_kb \in Nat
    /\ total_frames \in 0 .. MAX_FRAMES
    /\ fm \in [bits : SUBSET Frame, counted : SUBSET Frame, used : 0 .. MAX_FRAMES]
    /\ handed \subseteq Frame

(***************************************************************************)
(* Kernel code runs only once its image is whole: sector by sector, in     *)
(* order and without gap or overlap from KERNEL_OFFSET on.                 *)
(***************************************************************************)
KernelLoaded ==
    stage \notin {"detect_e820", "load_kernel", "disk_error"} =>
        image = [i \in 1 .. KERNEL_SECTORS |->
                    [seg |-> KERNEL_OFFSET \div PARAGRAPH + (i - 1) * PARAS,
                     lba |-> KERNEL_LBA_START + i - 1]]

Bytes(f) == f * FRAME_SIZE .. (f + 1) * FRAME_SIZE - 1

Taken(start, end) == start .. end - 1

(***************************************************************************)
(* A frame the allocator gives away is memory that is there, all of it in  *)
(* one region the BIOS calls usable, or below what CMOS reports when there *)
(* is no map; and no part of it is low memory, the kernel, a fixed range   *)
(* or the ramdisk, whatever the map and the order of the reservations.     *)
(***************************************************************************)
FramesUsable ==
    \A f \in handed :
        /\ IF e820_is_available
           THEN \E i \in DOMAIN map :
                   /\ map[i].usable
                   /\ Bytes(f) \subseteq Taken(map[i].base, map[i].base + map[i].length)
           ELSE Bytes(f) \subseteq Taken(0, total_kb * KB)
        /\ Bytes(f) \cap Taken(0, RESERVED_LOW_END) = {}
        /\ Bytes(f) \cap Taken(KERNEL_OFFSET, KERNEL_END) = {}
        /\ \A i \in DOMAIN FixedRanges :
              Bytes(f) \cap Taken(FixedRanges[i][1], FixedRanges[i][2]) = {}
        /\ Bytes(f) \cap Taken(RAMDISK_BASE, RAMDISK_END) = {}

(***************************************************************************)
(* The three records of which frames are taken agree: the bitmap, the      *)
(* reference counts and used_frames, from which the free count is derived. *)
(***************************************************************************)
CountsAgree ==
    stage \in {"kernel_main", "ramdisk_init", "up"} =>
        /\ fm.counted = fm.bits \cap (0 .. total_frames - 1)
        /\ fm.used = Cardinality(fm.counted)
        /\ handed \subseteq fm.counted

(***************************************************************************)
(* The kernel is loaded whole, what the allocator gives away is free       *)
(* memory, and its books agree.                                            *)
(***************************************************************************)
BootSound == KernelLoaded /\ FramesUsable /\ CountsAgree

=============================================================================
