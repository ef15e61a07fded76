CONSTANTS
    SLOTS = 2
    TEXT_PAGES = 0
    HEAP_PAGES = 1
    PAGE_SIZE = 1
    FRAMES = 11
    LOW_FRAMES = 10
    MAX_REFS = 3
    Contents = {0, 1}
    MaxBuilt = 2
    Acts = {"fork", "brk", "copy"}
SPECIFICATION Spec
INVARIANTS
    NoWritableAlias
PROPERTIES
    MemoryIsPrivate
