CONSTANTS
    PROCESS_DEFAULT_PRIORITY = 1
    PROCESS_MAX_PRIORITY = 2
    MAX_PROCESSES = 3
    STACK_SLOTS = 3
    PROCESS_MAX_FDS = 0
    MAX_PIPES = 0
    PIPE_CAPACITY = 2
    PIPE_BUF = 1
    Preemption = TRUE
    Calls <- LifecycleCalls
    Faults <- VmExits
    ExitCodes <- TwoCodes
    Counts = {1}
    Signals = {9}
    MaxPid = 4
SPECIFICATION Spec
INVARIANTS
    TypeOK
    RunningIsCurrent
    QueueIsReady
    ResumableFrames
    ProcessResources
    OnLiveStack
    ParentsLive
    ZombiesWaitable
    WaitersHaveChild
    CollectedOnce
    HaltsWhenDone
