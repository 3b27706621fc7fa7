SPECIFICATION FairSpec
CONSTANTS
    r1 = r1
    c1 = c1
    c2 = c2
    NoCall = NoCall
    Readers <- MCReaders
    Calls <- MCCalls
    MaxVersion = 2
    TTL = 2
    NegTTL = 1
    Second = 2
    StaleTTL = 2
    FillTime = 1
    Slots = 1
    QueueSize = 1
    MaxAge = 3
INVARIANTS
    HitsBounded
    OneLoad
    SlotsAccounted
PROPERTIES
    WaitersAnswered
    HitsSettle
