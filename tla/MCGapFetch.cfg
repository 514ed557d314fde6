SPECIFICATION Spec
CONSTANTS
    t1 = t1
    t2 = t2
    t3 = t3
    t4 = t4
    t5 = t5
    t6 = t6
    LastBlock = 4
    Tx <- MCTx
    Chains <- MCChains
    Gap <- MCGap
    BatchSize = 3
    MaxIterations = 5
INVARIANTS
    TypeOK
    CoverageSound
    PagesAdvance
    FetchContract
