SPECIFICATION FairSpec
CONSTANTS
    c1 = c1
    c2 = c2
    Clients <- MCClients
    Rate = 1
    Burst = 2
    Second = 1
    Cost = 2
    MaxInflight = 1
    ReadBudget = 1
    WriteBudget = 1
    Limit = 1
    Interval = 1
    QueryTime = 0
    MaxFails = 1
    Grace = 1
    ShutdownTimeout = 2
    MaxStart = 1
    MaxLimbo = 1
CHECK_DEADLOCK FALSE
INVARIANTS
    WithinRate
    SlotsAreHeld
    BacklogBounded
    RefusalLeavesNothing
    DrainedBeforeClose
PROPERTIES
    BacklogReleases
