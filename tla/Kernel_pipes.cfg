CONSTANTS
    PROCESS_DEFAULT_PRIORITY = 1
    PROCESS_MAX_PRIORITY = 2
    MAX_PROCESSES = 3
    STACK_SLOTS = 3
    PROCESS_MAX_FDS = 2
    MAX_PIPES = 1
    PIPE_CAPACITY = 2
    PIPE_BUF = 2
    Preemption = TRUE
    Calls <- KillPipeCalls
    Faults <- NoFaults
    ExitCodes = {0}
    Counts = {1, 2}
    Signals = {9}
    MaxPid = 3
SPECIFICATION Spec
INVARIANTS
    PipeRefs
    ZombieHoldsNothing
PROPERTY
    NoLostPipeWakeup
