SPECIFICATION Spec
CONSTANTS
    LastBlock = 3
    MaxRows = 3
    Rows <- MCRows
    Requests <- MCRequests
INVARIANTS
    TypeOK
    GapsExact
    GapsDisjoint
    GapsAsSpecified
