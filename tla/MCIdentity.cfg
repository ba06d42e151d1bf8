SPECIFICATION IdentitySpec
CONSTANTS
    s1 = s1
    Subjects = {s1, s2}
    Sessions = {n1, n2}
    Desks = {d1, d2}
    FirstStatus <- MCFirstStatus
    Polled = TRUE
    NoSubject = NoSubject
    NoSession = NoSession
    MaxResubmits = 1
SYMMETRY MCSymmetry
CHECK_DEADLOCK FALSE
INVARIANTS
    IdentityIsProved
PROPERTY
    DecisionIsFinal
