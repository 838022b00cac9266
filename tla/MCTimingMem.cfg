CONSTANTS
    t1 = t1
    t2 = t2
    membus = membus
    cpubus = cpubus
    br = br
    near = near
    far = far
    None = None
    Testers = {t1, t2}
    Xbars = {cpubus, membus}
    Bridges = {br}
    Memories = {near, far}
    Links = {1, 2, 3, 4, 5, 6}
    Upper <- MCUpper
    Lower <- MCLower
    Addrs = {1, 2, 3}
    PortMap <- MCPortMap
    ReqLimit = 1
    RespLimit = 2
    ForwardLatency = 1
    ResponseLatency = 1
    Delay = 1
    Latency = 1
    LatencyVar = 1
    Duration = 2
    Interval = 1
    ProgressCheck = 40
    Data = {1}
    Initial = 0
    Workloads <- MCWorkloads
INIT Init
NEXT Next
CHECK_DEADLOCK FALSE
INVARIANTS
    ReadsAreExpected
    NoAssertFails
    RetryIsOwed
    RefusedStaysFirst
    SpaceIsReserved
    ResponsesKeepComing
