SPECIFICATION FairSpec
CONSTANTS
    k1 = k1
    k2 = k2
    Keys <- MCKeys
    InitStock = 1
    MaxId = 2
    MaxReplays = 1
    MaxDumps = 1
    MaxEra = 1
CHECK_DEADLOCK FALSE
INVARIANTS
    NoFalseAlarm
    LossBounded
    NothingForgotten
    NotifiedRightly
PROPERTIES
    EveryOrderNotified
