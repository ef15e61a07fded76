--------------------------------- MODULE Elf ---------------------------------
(***************************************************************************)
(* The ELF loader of exec (kernel/elf.c): the header, then every program   *)
(* header, are checked before any page is mapped; then the segments are    *)
(* mapped, filled and protected one by one in the new address space.       *)
(*                                                                         *)
(* The file is any file: its program headers are chosen when they are      *)
(* first read.  Words are WORD values that wrap, bytes are their offsets   *)
(* in the file, plus 1.  Frames and page tables are in module Memory; here *)
(* mapping a segment may fail at any time.                                 *)
(***************************************************************************)
EXTENDS Integers, Sequences, FiniteSets

CONSTANTS WORD,                     \* 2^32
          FRAME_SIZE,
          ELF_USER_LOAD_MIN, ELF_USER_LOAD_MAX,
          ELF_MAX_LOAD_MEMORY_SIZE,
          ELF_MAX_SEGMENTS,
          PH_SIZE,                  \* sizeof(struct elf32_program_header)
          FileSizes, Offsets, MemorySizes, Aligns   \* what files hold

Word     == 0 .. WORD - 1
UserByte == ELF_USER_LOAD_MIN .. ELF_USER_LOAD_MAX - 1
Stale    == -1         \* what a frame held before
LoadError == {"EINVAL", "ENOSPC"}

(***************************************************************************)
(* Program headers: w is ELF_PF_W, and of one that is not PT_LOAD nothing  *)
(* else matters.                                                           *)
(***************************************************************************)
Segment == [load : {TRUE}, vaddr : Word, memsz : MemorySizes, filesz : FileSizes,
            offset : Offsets, align : Aligns, w : BOOLEAN]
Note == [load |-> FALSE]

VARIABLES status,    \* "start", "checking", "loading", then the result
          size,      \* file_size
          phnum,
          phs,       \* the program headers read so far
          next,      \* the index the loop of this pass is at
          mapped,    \* the pages of the new address space, by address
          writable,  \* those its program may write
          mem        \* what they hold

space == <<mapped, writable, mem>>
vars  == <<status, size, phnum, phs, next, space>>

align_down(a) == (a \div FRAME_SIZE) * FRAME_SIZE
align_up(a)   == align_down((a + FRAME_SIZE - 1) % WORD)

UserPage == {a \in UserByte : a % FRAME_SIZE = 0}

Init ==
    /\ status = "start"
    /\ size \in FileSizes
    /\ phnum = 0
    /\ phs = <<>>
    /\ next = 1
    /\ mapped = {}
    /\ writable = {}
    /\ mem = [a \in UserByte |-> Stale]

-----------------------------------------------------------------------------
(* The checks *)

add_overflows(a, b) == (a + b) % WORD < a

range_inside_file(o, n) == ~add_overflows(o, n) /\ (o + n) % WORD <= size

range_inside_user_space(a, n) ==
    /\ n # 0
    /\ ~add_overflows(a, n)
    /\ a >= ELF_USER_LOAD_MIN
    /\ (a + n) % WORD <= ELF_USER_LOAD_MAX

power_of_two_or_zero(n) == n = 0 \/ \E k \in 0 .. n : n = 2 ^ k

(***************************************************************************)
(* n more bytes of memory do not fit the limit when m are in use.          *)
(***************************************************************************)
OverLimit(n, m) == n > ELF_MAX_LOAD_MEMORY_SIZE - m

validate_segment(ph) ==
    ph.load =>
        /\ ph.memsz # 0
        /\ ph.filesz <= ph.memsz
        /\ ~OverLimit(ph.memsz, 0)
        /\ range_inside_file(ph.offset, ph.filesz)
        /\ range_inside_user_space(ph.vaddr, ph.memsz)
        /\ power_of_two_or_zero(ph.align)
        /\ ph.align > 1 => ph.vaddr % ph.align = ph.offset % ph.align

PageStart(ph) == align_down(ph.vaddr)
PageEnd(ph)   == align_up((ph.vaddr + ph.memsz) % WORD)

RangesOverlapBytes(a, b) ==
    /\ a.vaddr < b.vaddr + b.memsz
    /\ b.vaddr < a.vaddr + a.memsz

ranges_overlap(a, b) == PageStart(a) < PageEnd(b) /\ PageStart(b) < PageEnd(a)

Segments == {i \in DOMAIN phs : phs[i].load}

LoadMemory[i \in 0 .. Len(phs)] ==
    IF i = 0 THEN 0
    ELSE LoadMemory[i - 1] + IF phs[i].load THEN phs[i].memsz ELSE 0

AcceptsHeader(ph) ==
    /\ validate_segment(ph)
    /\ ph.load => /\ \A i \in Segments : ~ranges_overlap(ph, phs[i])
                  /\ ~OverLimit(ph.memsz, LoadMemory[Len(phs)])

-----------------------------------------------------------------------------
(* The loader *)

Fail(error) ==
    /\ status' = error
    /\ UNCHANGED <<size, phnum, phs, next, space>>

(***************************************************************************)
(* read_file_into_buffer and validate_header; well_formed stands for the   *)
(* fields of the header that have one right value.                         *)
(***************************************************************************)
HeaderFits(n, phoff) ==
    /\ n \in 1 .. ELF_MAX_SEGMENTS
    /\ range_inside_file(phoff, n * PH_SIZE)

validate_header(well_formed, n, phoff) ==
    /\ status = "start"
    /\ \/ /\ size # 0
          /\ well_formed
          /\ HeaderFits(n, phoff)
          /\ status' = "checking"
          /\ phnum' = n
          /\ UNCHANGED <<size, phs, next, space>>
       \/ ~(size # 0 /\ well_formed /\ HeaderFits(n, phoff)) /\ Fail("EINVAL")

(***************************************************************************)
(* One round of the first loop of elf_load_from_vfs.                       *)
(***************************************************************************)
CheckSegment(ph) ==
    /\ status = "checking"
    /\ next <= phnum
    /\ \/ /\ AcceptsHeader(ph)
          /\ phs' = Append(phs, ph)
          /\ next' = next + 1
          /\ UNCHANGED <<status, size, phnum, space>>
       \/ ~AcceptsHeader(ph) /\ Fail("EINVAL")

(***************************************************************************)
(* Then the entry point is compared with the lowest and the highest        *)
(* address of the segments; between two of them it may be in neither.      *)
(***************************************************************************)
EntryInside(entry) ==
    /\ \E i \in Segments : phs[i].vaddr <= entry
    /\ \E i \in Segments : entry < phs[i].vaddr + phs[i].memsz

CheckEntry(entry) ==
    /\ status = "checking"
    /\ next = phnum + 1
    /\ \/ /\ EntryInside(entry)
          /\ status' = "loading"
          /\ next' = 1
          /\ UNCHANGED <<size, phnum, phs, space>>
       \/ ~EntryInside(entry) /\ Fail("EINVAL")

(***************************************************************************)
(* One round of the second loop: map_segment_pages, the bytes, and         *)
(* protect_segment_pages.  A page that is mapped already ends it with the  *)
(* pages before that one mapped; without frames they are taken back.       *)
(***************************************************************************)
PagesOf(ph) == {a \in Word : /\ a % FRAME_SIZE = 0
                             /\ PageStart(ph) <= a
                             /\ a < PageEnd(ph)}

BytesOf(ph) == ph.vaddr .. ph.vaddr + ph.memsz - 1

Filled(ph) ==
    [a \in UserByte |->
        IF a - ph.vaddr \in 0 .. ph.filesz - 1 THEN ph.offset + (a - ph.vaddr) + 1
        ELSE IF a \in BytesOf(ph) THEN 0
        ELSE mem[a]]

InTheWay(ph) == PagesOf(ph) \cap mapped

Mappable(ph) == {a \in PagesOf(ph) : \A b \in InTheWay(ph) : a < b}

AtSegment == status = "loading" /\ next <= phnum /\ phs[next].load

LoadSegment ==
    LET ph == phs[next]
        ok == InTheWay(ph) = {}
    IN  /\ AtSegment
        /\ mapped' = mapped \cup Mappable(ph)
        /\ writable' = IF ok /\ ~ph.w THEN writable ELSE writable \cup Mappable(ph)
        /\ mem' = IF ok THEN Filled(ph) ELSE mem
        /\ status' = IF ok THEN "loading" ELSE "EINVAL"
        /\ next' = next + 1
        /\ UNCHANGED <<size, phnum, phs>>

MapFails == AtSegment /\ Fail("ENOSPC")

SkipHeader ==
    /\ status = "loading"
    /\ next <= phnum
    /\ ~phs[next].load
    /\ next' = next + 1
    /\ UNCHANGED <<status, size, phnum, phs, space>>

Loaded ==
    /\ status = "loading"
    /\ next = phnum + 1
    /\ status' = "SUCCESS"
    /\ UNCHANGED <<size, phnum, phs, next, space>>

Finished == status \in LoadError \cup {"SUCCESS"} /\ UNCHANGED vars

Next ==
    \/ \E well_formed \in BOOLEAN, n \in 0 .. ELF_MAX_SEGMENTS + 1, phoff \in Offsets :
          validate_header(well_formed, n, phoff)
    \/ \E ph \in Segment \cup {Note} : CheckSegment(ph)
    \/ \E entry \in Word : CheckEntry(entry)
    \/ LoadSegment
    \/ MapFails
    \/ SkipHeader
    \/ Loaded
    \/ Finished

Spec == Init /\ [][Next]_vars

-----------------------------------------------------------------------------
(* Properties *)

(* Whatever the file says, only pages of the load area are ever mapped: the *)
(* lazy heap and the stack lie above it, the kernel below.                  *)
TypeOK ==
    /\ status \in {"start", "checking", "loading", "SUCCESS"} \cup LoadError
    /\ size \in FileSizes
    /\ phnum \in 0 .. ELF_MAX_SEGMENTS
    /\ Len(phs) <= phnum
    /\ next \in 1 .. phnum + 1
    /\ mapped \in SUBSET UserPage
    /\ writable \in SUBSET mapped
    /\ mem \in [UserByte -> Int]

(* A file that is refused as invalid leaves no page mapped: the check of    *)
(* the page ranges is as strict as mapping is, so that no segment meets a   *)
(* page of an earlier one when half of the image is loaded.                 *)
NoPartialImage == status = "EINVAL" => mapped = {}

(* The arrays in which map_segment_pages notes its pages hold them all: a   *)
(* segment of the greatest size that starts inside a page has one page more *)
(* than its size.                                                           *)
ArraysHold ==
    status = "loading" =>
        \A i \in Segments :
            Cardinality(PagesOf(phs[i])) <= ELF_MAX_LOAD_MEMORY_SIZE \div FRAME_SIZE + 1

(* A program that was loaded finds every segment whole: the bytes of the    *)
(* file, zeros up to the segment's size, each in a mapped page that can be  *)
(* written iff the segment says so, whatever was loaded after it.           *)
ByteOf(ph, k) == IF k < ph.filesz THEN ph.offset + k + 1 ELSE 0

ImageLoaded ==
    status = "SUCCESS" =>
        \A i \in Segments :
            \A a \in BytesOf(phs[i]) :
                /\ a \in UserByte
                /\ mem[a] = ByteOf(phs[i], a - phs[i].vaddr)
                /\ align_down(a) \in mapped
                /\ align_down(a) \in writable <=> phs[i].w
=============================================================================
