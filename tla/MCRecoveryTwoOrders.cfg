SPECIFICATION FairSpec
CONSTANTS
    k1 = k1
    k2 = k2
    Keys <- MCKeys
    InitStock = 2
    MaxId = 2
    MaxReplays = 0
    MaxDumps = 1
    MaxEra = 1
CHECK_DEADLOCK FALSE
INVARIANTS
    TypeOK
    NoFalseAlarm
    LossBounded
PROPERTIES
    EveryOrderNotified
