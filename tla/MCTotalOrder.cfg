CONSTANTS
    NumQueues = 2
    simQuantum = 2
    LocalEvent = {"a", "b"}
    Home <- MCHome
    ExitEvent = {"x1", "x2"}
    StatEvent = {}
    Cycles = {4}
    MinDelay = 1
    MaxTick = 4
    MaxCalls = 1
    MaxRequests = 0
    NULL = NULL
SPECIFICATION Spec
INVARIANT TotalOrder
PROPERTY SimulateReturns
CHECK_DEADLOCK FALSE
