CONSTANTS
    NumQueues = 2
    simQuantum = 2
    LocalEvent = {"a", "b"}
    Home <- MCHome
    ExitEvent = {"x1"}
    StatEvent = {"s1"}
    Cycles = {3}
    MinDelay = 0
    MaxTick = 4
    MaxCalls = 2
    MaxRequests = 1
    NULL = NULL
SPECIFICATION Spec
INVARIANTS NoEventInPast WithinQuantum ProcessAlone
CHECK_DEADLOCK FALSE
