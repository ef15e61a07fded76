CONSTANTS
    SLOTS = 2
    TEXT_PAGES = 1
    HEAP_PAGES = 1
    PAGE_SIZE = 2
    FRAMES = 11
    LOW_FRAMES = 10
    MAX_REFS = 3
    Contents = {0}
    MaxBuilt = 2
    Acts = {"fork", "exec", "brk"}
SPECIFICATION Spec
INVARIANTS
    TypeOK
    RefsExact
    HeapBelowBreak
