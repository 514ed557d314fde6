SPECIFICATION Spec
CONSTANTS
    User = {u1, u2}
    Email = {e1, e2}
    Name = {n1, n2}
    Password = {w1, w2}
    Session = {s1, s2}
    Proc = {p1, p2}
    none = none
    Faults = TRUE
SYMMETRY Symmetry
INVARIANTS
    TypeOK
    ErrorsOnlyWhenTaken
    OutlivedOnlyIfRaced
PROPERTIES
    ConflictsTruthful
