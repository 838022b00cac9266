SPECIFICATION Spec
CONSTANTS
    Thread = {t1, t2, t3, t4}
    MaxGeneration = 1
    MaxRound = 5
CHECK_DEADLOCK FALSE
INVARIANTS
    NoneEarly
    OneLeader
PROPERTY
    EveryoneReturns
