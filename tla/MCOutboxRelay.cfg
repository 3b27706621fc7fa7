SPECIFICATION FairSpec
CONSTANTS
    a = a
    b = b
    Relays <- MCRelays
    Rows <- MCRows
    Undecodable <- MCUndecodable
    BatchSize = 2
    MaxAttempts = 2
    MaxFaults = 2
    MaxRequeues = 1
CHECK_DEADLOCK FALSE
INVARIANTS
    SentIsPublished
    DeadMeansExhausted
PROPERTIES
    ImplementsDelivery
    EveryRowSettled
