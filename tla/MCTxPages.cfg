SPECIFICATION Spec
CONSTANTS
    MaxHead = 9
    MaxTx = 3
    Head <- MCHead
    Faults = TRUE
    Tx <- MCTx
    Query <- MCQuery
    Limit = 2
    LastBlock = 2
    MaxEntries = 1
    MaxPage = 2
INVARIANTS
    TypeOK
    AnswerAsSpecified
    NothingMissed
PROPERTIES
    WalkEnds
    FlagsClear
