CONSTANTS
    r1 = r1
    r2 = r2
    NIs = {1, 2, 3}
    Routers = {r1, r2}
    Links = {1, 2, 3, 4, 5, 6, 7, 8, 9}
    Src <- MCSrc
    Dst <- MCDst
    RoutingTable <- MCRoutingTable
    Weight <- MCWeight
    Vnets = {0, 1}
    Ordered = {0}
    VcPerVnet = 2
    MaxCredit <- MCMaxCredit
    PipeStages = 1
    LinkLatency = 1
    Scripts <- MCScripts
    MaxCycle = 40
INIT Init
NEXT Next
CHECK_DEADLOCK FALSE
INVARIANTS
    DeliveredOnce
    InOrder
    AsleepIsEmpty
    PacketsDoNotMix
    FallsAsleep
PROPERTIES
    ChannelContract
