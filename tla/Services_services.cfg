CONSTANTS
    Parts = {"heap", "elf", "stack", "access", "console", "pipe", "boot"}

    HEAP_SIZE = 28
    ALIGNMENT = 2
    MIN_SPLIT = 2
    HEADER = 2
    Sizes = {1, 4, 7}

    WORD = 20
    FRAME_SIZE = 2
    ELF_USER_LOAD_MIN = 4
    ELF_USER_LOAD_MAX = 12
    ELF_MAX_LOAD_MEMORY_SIZE = 4
    ELF_MAX_SEGMENTS = 2
    PH_SIZE = 1
    FileSizes = {0, 1, 3}
    Offsets = {0, 1, 19}
    MemorySizes = {0, 1, 4, 6, 19}
    Aligns = {2, 3}

    EXEC_MAX_ARGS = 3
    EXEC_MAX_ENVS = 3
    EXEC_MAX_STRING_BYTES = 3
    EXEC_MAX_VECTOR_BYTES = 10
    USER_STACK_TOP = 64
    StackSizes = {8, 32}
    WORD_SIZE = 2
    STACK_ALIGN = 4
    Lengths = {1, 2, 3, 4}

    PAGE_SIZE = 4
    USER_SPACE_START = 4
    USER_SPACE_END = 16
    MaxString = 3

    KEYBOARD_BUFFER_SIZE = 3
    MaxKeys = 4
    Readers = {"shell", "SYS_GETCHAR"}

    VGA_WIDTH = 3
    VGA_HEIGHT = 3
    CMD_BUFFER_SIZE = 5
    Letters = {"c", "e", "i", "r"}
    MaxStrokes = 7

    Procs = {1, 2}
    PIPE_CAPACITY = 3
    PIPE_BUF = 2
    Counts = {0, 1, 2, 3}
    MaxSent = 4

    UINT32 = 32
    UINT64 = 64
    MAX_TRACKED_MEMORY = 20
    RESERVED_LOW_END = 4
    KB = 2
    MB = 1
    MB16 = 12
    KERNEL_END = 5
    IDENTITY_MAPPED_LIMIT = 12
    FixedRanges <- TwoRanges
    RAMDISK_BASE = 16
    RAMDISK_END = 18
    E820_MAX_ENTRIES = 2
    Bases = {0, 7, 13, 21}
    Regions = {0, 3, 10, 60}
    CmosBelow = {0, 7}
    CmosAbove = {0, 3, 12}
    CMOS_BLOCK = 1
    KERNEL_OFFSET = 1
    KERNEL_LBA_START = 3
    KERNEL_SECTORS = 3
    KERNEL_CHUNK_SECTORS = 2
    PARAGRAPH = 1
    PARAS = 2

    PROCESS_DEFAULT_PRIORITY = 1
    PROCESS_MAX_PRIORITY = 3
    Task = {1, 2, 3}
    Priorities = {0, 2, 5}
SPECIFICATION Spec
INVARIANTS
    TypeOK
    HeapSound
    ImageSound
    ArgsSound
    AccessExact
    ScreenShowsLine
    BootSound
PROPERTY
    StreamKept
CHECK_DEADLOCK FALSE
