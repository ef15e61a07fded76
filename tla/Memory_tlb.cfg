CONSTANTS
    SLOTS = 4
    TEXT_PAGES = 1
    HEAP_PAGES = 0
    PAGE_SIZE = 1
    FRAMES = 14
    LOW_FRAMES = 13
    MAX_REFS = 3
    Contents = {0, 1}
    MaxBuilt = 3
    Acts = {"fork", "exec", "read", "store"}
SPECIFICATION Spec
INVARIANTS
    RetainSucceeds
PROPERTIES
    MemoryIsPrivate
