CONSTANTS
    SECTOR_SIZE = 2
    DATA_START = 1
    TOTAL_SECTORS = 2
    MAX_FILES = 1
    MAX_OPEN_FILES = 2
    MAX_PROCESSES = 2
    PROCESS_MAX_FDS = 2
    Names = {"a", "b"}
    Buffers <- OneByte
    Counts = {1}
    Modes = {"r", "w"}
    Acts = {"open", "read", "write", "close", "fork", "exec", "exit"}
SPECIFICATION Spec
INVARIANTS
    HandlesExact
PROPERTIES
    FilesKept
