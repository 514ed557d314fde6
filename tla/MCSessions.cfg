SPECIFICATION Spec
CONSTANTS
    Session = {s1, s2, s3}
    Proc = {p1, p2}
    none = none
    MaxSessions = 2
    AccessTTL = 1
    RefreshTTL = 2
    Faults = TRUE
SYMMETRY Symmetry
CHECK_DEADLOCK FALSE
INVARIANTS
    TypeOK
    RefusedUntilExpiry
    RevokedRunsOut
    DeniedAreRevoked
    CapUnlessRaced
