SPECIFICATION Spec
CONSTANTS
    e1 = e1
    e2 = e2
    e3 = e3
    Event = {e1, e2, e3}
    NULL = NULL
    Priority <- MCPriority
    AutoDelete = {e1}
    ExitEvent = {}
    MaxTick = 1
INVARIANTS
    ListIsScheduledSet
    Sorted
PROPERTY
    ImplementsEventOrder
