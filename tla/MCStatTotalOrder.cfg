CONSTANTS
    NumQueues = 2
    simQuantum = 2
    LocalEvent = {"a", "b"}
    Home <- MCHome
    ExitEvent = {"x1"}
    StatEvent = {"s1"}
    Cycles = {5}
    MinDelay = 1
    MaxTick = 4
    MaxCalls = 1
    MaxRequests = 1
    NULL = NULL
SPECIFICATION Spec
INVARIANT TotalOrder
CHECK_DEADLOCK FALSE
