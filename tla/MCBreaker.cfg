SPECIFICATION FairSpec
CONSTANTS
    c1 = c1
    c2 = c2
    c3 = c3
    Callers <- MCCallers
    PoolSize = 3
    FailThreshold = 2
INVARIANTS
    OneProbe
    OneCallPastOpening
PROPERTIES
    CutsOff
    Recovers
