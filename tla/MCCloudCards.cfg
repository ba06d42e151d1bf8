SPECIFICATION CardSpec
CONSTANTS
    c1 = c1
    c2 = c2
    d1 = d1
    d2 = d2
    Cards = {c1, c2}
    Keys = {k1}
    Tokens = {t1}
    Desks = {d1, d2}
    NoCard = NoCard
    NoKey = NoKey
    Limit = 1
    Retries = 2
SYMMETRY MCSymmetry
CHECK_DEADLOCK FALSE
INVARIANTS
    CardOrderKept
    NothingStrays
    SessionsFollowPin
