SPECIFICATION Spec
CONSTANTS
    h1 = h1
    h2 = h2
    Handler <- TwoHandlers
    MaxBlock = 1
    MaxCount = 1
    BalanceTTL = 2
    CountTTL = 2
    Faults = TRUE
CHECK_DEADLOCK FALSE
INVARIANTS
    TypeOK
    EndlessOnlyAfterFailure
PROPERTIES
    FiguresConverge
