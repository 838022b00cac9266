CONSTANTS
    NULL = NULL
    a1 = a1
    a2 = a2
    c1 = c1
    c2 = c2
    d1 = d1
    d2 = d2
    Addrs = {a1, a2}
    DmaAddrs = {a1}
    Caches = {c1, c2}
    Dirs = {d1, d2}
    Dmas = {p1}
    MemoryNodes = {}
    Home <- MCOneHome
    LocalIdx <- MCOwnIdx
    MemNode <- MCMemNode
    MaxOps = 4
SPECIFICATION Spec
CHECK_DEADLOCK FALSE
INVARIANTS
    OneWriter
    CurrentData
    IdleIsInMemory
    OwnerHasBlock
    InvalidOnlyForDma
PROPERTIES
    DmaReadsLatest
    EverythingServed
