CONSTANTS
    PROCESS_DEFAULT_PRIORITY = 1
    PROCESS_MAX_PRIORITY = 2
    MAX_PROCESSES = 3
    STACK_SLOTS = 3
    PROCESS_MAX_FDS = 2
    MAX_PIPES = 1
    PIPE_CAPACITY = 2
    PIPE_BUF = 1
    Preemption = FALSE
    Calls <- EofCalls
    Faults <- NoFaults
    ExitCodes = {0}
    Counts = {1}
    Signals = {}
    MaxPid = 3
SPECIFICATION FairSpec
PROPERTIES
    EofDetected
