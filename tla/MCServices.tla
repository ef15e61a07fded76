------------------------------ MODULE MCServices ------------------------------
(***************************************************************************)
(* Nine parts of the system that share no state, checked together: the     *)
(* heap, the ELF loader, the arguments of exec, the access to user memory, *)
(* the keyboard, the console, the bytes of a pipe, the boot and the        *)
(* kernel's tasks.  A behaviour exercises one of those in Parts, chosen by *)
(* part; the others stay in one of their initial states.                   *)
(***************************************************************************)
EXTENDS Integers, Sequences, FiniteSets

CONSTANTS
    Parts,              \* the parts an instance exercises
    (* Heap *)
    HEAP_SIZE, ALIGNMENT, MIN_SPLIT, HEADER, Sizes,
    (* Elf *)
    WORD, FRAME_SIZE, ELF_USER_LOAD_MIN, ELF_USER_LOAD_MAX,
    ELF_MAX_LOAD_MEMORY_SIZE, ELF_MAX_SEGMENTS, PH_SIZE,
    FileSizes, Offsets, MemorySizes, Aligns,
    (* ExecStack *)
    EXEC_MAX_ARGS, EXEC_MAX_ENVS, EXEC_MAX_STRING_BYTES, EXEC_MAX_VECTOR_BYTES,
    USER_STACK_TOP, StackSizes, WORD_SIZE, STACK_ALIGN, Lengths,
    (* UserAccess, and the WORD of Elf *)
    PAGE_SIZE, USER_SPACE_START, USER_SPACE_END, MaxString,
    (* Keyboard *)
    KEYBOARD_BUFFER_SIZE, MaxKeys, Readers,
    (* Console *)
    VGA_WIDTH, VGA_HEIGHT, CMD_BUFFER_SIZE, Letters, MaxStrokes,
    (* PipeBytes *)
    Procs, PIPE_CAPACITY, PIPE_BUF, Counts, MaxSent,
    (* Boot, and the FRAME_SIZE of Elf *)
    UINT32, UINT64, MAX_TRACKED_MEMORY, RESERVED_LOW_END, KB, MB, MB16,
    KERNEL_END, IDENTITY_MAPPED_LIMIT, FixedRanges, RAMDISK_BASE, RAMDISK_END,
    E820_MAX_ENTRIES, Bases, Regions, CmosBelow, CmosAbove, CMOS_BLOCK,
    KERNEL_OFFSET, KERNEL_LBA_START, KERNEL_SECTORS, KERNEL_CHUNK_SECTORS,
    PARAGRAPH, PARAS,
    (* Tasks *)
    PROCESS_DEFAULT_PRIORITY, PROCESS_MAX_PRIORITY, Task, Priorities

(***************************************************************************)
(* For FixedRanges: the six ranges of kernel_main, as one that shares no   *)
(* frame with its neighbours and one that lies past small memories.        *)
(***************************************************************************)
TwoRanges == <<<<13, 14>>, <<19, 20>>>>

Positive == Nat \ {0}

ASSUME PartsAssumption ==
    Parts \subseteq {"heap", "elf", "stack", "access", "keyboard", "console",
                     "pipe", "boot", "tasks"}

ASSUME HeapAssumption ==
    /\ {HEADER, ALIGNMENT} \subseteq Positive
    /\ {HEAP_SIZE, MIN_SPLIT} \subseteq Nat
    /\ HEADER < HEAP_SIZE
    /\ Sizes \subseteq Positive
    /\ UINT32 \in Positive /\ \A n \in Sizes : n + ALIGNMENT - 1 < UINT32

ASSUME ElfAssumption ==
    /\ {FRAME_SIZE, PH_SIZE} \subseteq Positive
    /\ ELF_MAX_SEGMENTS \in Nat
    /\ \A n \in {WORD, ELF_USER_LOAD_MIN, ELF_USER_LOAD_MAX, ELF_MAX_LOAD_MEMORY_SIZE} :
          n \in 0 .. WORD /\ n % FRAME_SIZE = 0
    /\ ELF_USER_LOAD_MAX < WORD
    /\ FileSizes \cup Offsets \cup MemorySizes \cup Aligns \subseteq 0 .. WORD - 1

ASSUME ExecStackAssumption ==
    /\ {EXEC_MAX_ARGS, EXEC_MAX_ENVS, EXEC_MAX_STRING_BYTES,
        EXEC_MAX_VECTOR_BYTES} \subseteq Nat
    /\ {WORD_SIZE, STACK_ALIGN} \subseteq Positive
    /\ USER_STACK_TOP \in Positive
    /\ \A n \in StackSizes : /\ n \in Positive /\ n < USER_STACK_TOP
                              /\ (USER_STACK_TOP - n) % STACK_ALIGN = 0
    /\ Lengths \subseteq Positive

(***************************************************************************)
(* User space ends below the last word, as it does in syscall.h: a range   *)
(* that ends at WORD has the end 0. The buffer a string is copied to is    *)
(* smaller than the address space.                                         *)
(***************************************************************************)
ASSUME UserAccessAssumption ==
    /\ {PAGE_SIZE, MaxString} \subseteq Positive
    /\ \A n \in {USER_SPACE_START, USER_SPACE_END} :
          n \in 1 .. WORD - 1 /\ n % PAGE_SIZE = 0
    /\ WORD \in Nat /\ MaxString < WORD

ASSUME KeyboardAssumption ==
    /\ KEYBOARD_BUFFER_SIZE \in Positive
    /\ MaxKeys \in Nat
    /\ Readers \subseteq {"shell", "SYS_GETCHAR"}

(***************************************************************************)
(* A line and its prompt fit the screen above its last row, and the shell  *)
(* stores printable keys only.                                             *)
(***************************************************************************)
ASSUME ConsoleAssumption ==
    /\ {VGA_WIDTH, VGA_HEIGHT, CMD_BUFFER_SIZE} \subseteq Positive
    /\ Letters \cap {"newline", "backspace"} = {}
    /\ 2 + CMD_BUFFER_SIZE - 1 <= VGA_WIDTH * (VGA_HEIGHT - 1)
    /\ MaxStrokes \in Nat

ASSUME PipeBytesAssumption ==
    /\ Procs \subseteq Positive /\ Procs # {} /\ IsFiniteSet(Procs)
    /\ {PIPE_CAPACITY, PIPE_BUF} \subseteq Positive /\ PIPE_BUF <= PIPE_CAPACITY
    /\ Counts \subseteq Nat /\ MaxSent \in Nat

(***************************************************************************)
(* The page tables taken before the ramdisk's memory is reserved come from *)
(* below it.                                                               *)
(***************************************************************************)
ASSUME BootAssumption ==
    /\ {KB, CMOS_BLOCK, PARAGRAPH, PARAS, KERNEL_CHUNK_SECTORS, KERNEL_SECTORS,
        UINT32, UINT64, E820_MAX_ENTRIES} \subseteq Positive
    /\ {MB, MB16, KERNEL_OFFSET, KERNEL_END, KERNEL_LBA_START} \subseteq Nat
    /\ FixedRanges \in Seq(Nat \X Nat)
    /\ CmosBelow \cup CmosAbove \subseteq Nat
    /\ \A n \in {MAX_TRACKED_MEMORY, RESERVED_LOW_END, IDENTITY_MAPPED_LIMIT,
                 RAMDISK_BASE, RAMDISK_END} : n \in Nat /\ n % FRAME_SIZE = 0
    /\ MAX_TRACKED_MEMORY < UINT32 /\ UINT32 <= UINT64
    /\ IDENTITY_MAPPED_LIMIT <= RAMDISK_BASE
    /\ KERNEL_OFFSET < KERNEL_END
    /\ Bases \cup Regions \subseteq 0 .. UINT64 - 1

ASSUME TasksAssumption ==
    /\ Task \subseteq Positive
    /\ {PROCESS_DEFAULT_PRIORITY, PROCESS_MAX_PRIORITY} \subseteq Positive
    /\ PROCESS_DEFAULT_PRIORITY <= PROCESS_MAX_PRIORITY
    /\ Priorities \subseteq Nat

VARIABLES
    part,
    hdr, heap_used, held,
    status, size, phnum, phs, next, mapped, writable, mem,
    stack_size, phase, passed, offsets, data, ptr, sp, left, stack,
    pages, active, nul, req, page, copied, result,
    key_buffer, buffer_head, buffer_tail, reader, pc, c, typed, taken, struck, irq,
    screen, cmd, strokes, up,
    buffer, read_pos, write_pos, count, readers, writers, pstate, running, ends,
    blk, at, sent, answer,
    stage, map, sectors_left, current_lba, dest_seg, image, total_kb, total_frames,
    fm, handed,
    kind, tstate, priority, dyn, interrupt_frame, esp, queue, current,
    preemption_enabled, exec, prev

H == INSTANCE Heap
E == INSTANCE Elf
S == INSTANCE ExecStack
U == INSTANCE UserAccess
K == INSTANCE Keyboard
V == INSTANCE Console
P == INSTANCE PipeBytes
B == INSTANCE Boot
T == INSTANCE Tasks

heap     == <<hdr, heap_used, held>>
elf      == <<status, size, phnum, phs, next, mapped, writable, mem>>
args     == <<stack_size, phase, passed, offsets, data, ptr, sp, left, stack>>
access   == <<pages, active, nul, req, page, copied, result>>
keyboard == <<key_buffer, buffer_head, buffer_tail, reader, pc, c, typed,
              taken, struck, irq>>
console  == <<screen, cmd, strokes, up>>
pipe     == <<buffer, read_pos, write_pos, count, readers, writers, pstate,
              running, ends, blk, at, sent, answer>>
boot     == <<stage, map, sectors_left, current_lba, dest_seg, image, total_kb,
              total_frames, fm, handed>>
tasks    == <<kind, tstate, priority, dyn, interrupt_frame, esp, queue, current,
              preemption_enabled, exec, prev>>

vars == <<part, heap, elf, args, access, keyboard, console, pipe, boot, tasks>>

Idle(p) == part # p

Some(set) == CHOOSE x \in set : TRUE

Init ==
    /\ part \in Parts
    /\ H!allocator_init
    /\ E!Init
    /\ Idle("elf") => size = Some(FileSizes)
    /\ S!Init
    /\ Idle("stack") => stack_size = Some(StackSizes)
    /\ U!Init
    /\ Idle("access") => active /\ \A a \in U!UserByte : pages[U!PageOf(a)] = "none"
    /\ K!Init
    /\ Idle("keyboard") => reader = Some(Readers)
    /\ V!Init
    /\ P!Init
    /\ B!Init
    /\ T!Init
    /\ Idle("tasks") => kind = "cooperative"

Next ==
    /\ \/ part = "heap" /\ H!Next
       \/ Idle("heap") /\ UNCHANGED heap
    /\ \/ part = "elf" /\ E!Next
       \/ Idle("elf") /\ UNCHANGED elf
    /\ \/ part = "stack" /\ S!Next
       \/ Idle("stack") /\ UNCHANGED args
    /\ \/ part = "access" /\ U!Next
       \/ Idle("access") /\ UNCHANGED access
    /\ \/ part = "keyboard" /\ K!Next
       \/ Idle("keyboard") /\ UNCHANGED keyboard
    /\ \/ part = "console" /\ V!Next
       \/ Idle("console") /\ UNCHANGED console
    /\ \/ part = "pipe" /\ P!Next
       \/ Idle("pipe") /\ UNCHANGED pipe
    /\ \/ part = "boot" /\ B!Next
       \/ Idle("boot") /\ UNCHANGED boot
    /\ \/ part = "tasks" /\ T!Next
       \/ Idle("tasks") /\ UNCHANGED tasks
    /\ UNCHANGED part

Typing(A) == part = "keyboard" /\ A

(***************************************************************************)
(* Fairness is Keyboard's and Tasks', for the behaviours that exercise     *)
(* them.                                                                   *)
(***************************************************************************)
Spec ==
    /\ Init
    /\ [][Next]_vars
    /\ WF_keyboard(Typing(K!Reader))
    /\ WF_keyboard(Typing(K!Tick))
    /\ WF_keyboard(Typing(K!keyboard_handler))
    /\ WF_tasks(part = "tasks" /\ T!scheduler_preempt)

-----------------------------------------------------------------------------
(* The properties of the parts, which their modules explain; each is asked *)
(* in the states of the behaviours that exercise its part.                 *)

(* Nothing leaves its bounds: headers and counts the heap, mappings the ELF *)
(* load area, exec's strings their buffer and its stack pointer the page,   *)
(* page walks user space, indices the keyboard's ring and the pipe's, the   *)
(* shell's line its buffer, the cursor the screen, frame numbers memory.    *)
TypeOK ==
    /\ part \in Parts
    /\ Idle("heap") \/ H!TypeOK
    /\ Idle("elf") \/ E!TypeOK
    /\ Idle("stack") \/ S!TypeOK
    /\ Idle("access") \/ U!TypeOK
    /\ Idle("keyboard") \/ K!TypeOK
    /\ Idle("console") \/ V!TypeOK
    /\ Idle("pipe") \/ P!TypeOK
    /\ Idle("boot") \/ B!TypeOK
    /\ Idle("tasks") \/ T!TypeOK

(* kmalloc and kfree keep the list tiling the heap, linked both ways, with  *)
(* no two free neighbours; the blocks in use are those callers hold, large  *)
(* enough, and heap_used is their sum.                                      *)
HeapSound == Idle("heap") \/ (H!HeapTiled /\ H!HeldBlocks)

(* elf_load_from_vfs refuses a file as invalid before it maps any page, the *)
(* arrays of map_segment_pages hold the pages of the largest segment, and a *)
(* loaded program finds each segment whole, zero-filled and protected.      *)
ImageSound == Idle("elf") \/ (E!NoPartialImage /\ E!ArraysHold /\ E!ImageLoaded)

(* exec_build_user_stack delivers the strings the caller passed, and the    *)
(* arguments exec has copied fit the new stack, with limits like the code's. *)
ArgsSound == Idle("stack") \/ (S!ArgsDelivered /\ S!NeverTooBigLate)

(* Copies to and from user memory touch only pages checked for them, never  *)
(* writing to one that is read-only to the program, and                     *)
(* copy_string_from_user stops at the NUL, in its buffer; they refuse no    *)
(* range that the program itself may read, or write, as a whole.            *)
AccessExact == Idle("access") \/ (U!AccessSafe /\ U!AccessComplete)

(* keyboard_getchar returns the accepted keys in order, each once.          *)
KeysInOrder == Idle("keyboard") \/ K!KeysInOrder

(* The shell reads every key the ring accepted.                             *)
KeyRead == K!KeyRead

(* The screen ends in the prompt and the line the shell will execute.       *)
ScreenShowsLine == Idle("console") \/ V!ScreenShowsLine

(* The pipe is a byte stream: each byte once and in order, small writes     *)
(* whole, and only true answers.                                            *)
StreamKept == P!StreamKept

(* The kernel is loaded whole, and the frames the allocator gives away are  *)
(* usable memory that nothing else occupies.                                *)
BootSound == Idle("boot") \/ B!BootSound

(* A kernel task goes on where it stopped, whoever switches and whenever    *)
(* the timer ticks.                                                         *)
TaskFrames == Idle("tasks") \/ T!TaskFrames

(* Every preemptive kernel task runs again and again.                       *)
TaskRuns == T!TaskRuns

=============================================================================
