CONSTANTS
    NULL = NULL
    a1 = a1
    a2 = a2
    c1 = c1
    c2 = c2
    d1 = d1
    d2 = d2
    Addrs = {a1, a2}
    DmaAddrs = {}
    Caches = {c1, c2}
    Dirs = {d1, d2}
    Dmas = {}
    MemoryNodes = {}
    Home <- MCTwoHomes
    LocalIdx <- MCSameIdx
    MemNode <- MCMemNode
    MaxOps = 2
SPECIFICATION Spec
CHECK_DEADLOCK FALSE
INVARIANTS
    OwnerHasBlock
