CONSTANTS
    SECTOR_SIZE = 2
    DATA_START = 1
    TOTAL_SECTORS = 4
    MAX_FILES = 2
    MAX_OPEN_FILES = 2
    MAX_PROCESSES = 1
    PROCESS_MAX_FDS = 2
    Names = {"a", "b"}
    Buffers <- TwoBytes
    Counts = {1}
    Modes = {"rw"}
    Acts = {"open", "read", "write", "close"}
SPECIFICATION Spec
INVARIANTS
    TypeOK
    DiskSound
PROPERTIES
    FilesKept
