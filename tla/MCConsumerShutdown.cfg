SPECIFICATION FairSpec
CONSTANTS
    w1 = w1
    w2 = w2
    e1 = e1
    e2 = e2
    Poison = Poison
    Workers <- MCOneWorker
    Events <- MCEvents
    log <- MCLog
    MaxInflight = 2
    BatchSize = 2
    MaxCrashes = 0
    MaxShutdowns = 1
    MaxRebalances = 0
CHECK_DEADLOCK FALSE
INVARIANTS
    CommittedIsProcessed
