SPECIFICATION FairSpec
CONSTANTS
    r1 = r1
    r2 = r2
    r3 = r3
    k1 = k1
    k2 = k2
    book = book
    ghost = ghost
    Requests <- MCRequests
    Keys <- MCKeys
    Skus <- MCSkus
    Products <- MCProducts
    InitStock <- MCInitStock
    MaxRetries = 1
    MaxId = 6
CHECK_DEADLOCK FALSE
INVARIANTS
    TypeOK
    InventoryConserved
    OneOrderPerKey
    OneEventPerOrder
    AnswersAgree
    WaitsEnd
PROPERTIES
    ImplementsPlaceOrder
    EveryRequestEnds
