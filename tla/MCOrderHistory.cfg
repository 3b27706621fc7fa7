SPECIFICATION Spec
CONSTANTS
    MaxId = 5
    MaxTime = 3
    Limits = {0, 1, 2, 3}
    MaxLimit = 3
    DefaultLimit = 2
INVARIANTS
    WalkIsExact
