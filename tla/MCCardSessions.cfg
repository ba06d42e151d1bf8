SPECIFICATION FairSessionsSpec
CONSTANTS
    Conns = {c1, c2}
    Kinds = {"sign"}
    NoConn = NoConn
    ReadOnly = {2}
    MaxSessions = 2
    MaxParts = 1
CHECK_DEADLOCK FALSE
INVARIANTS
    OneAnswerPerInit
    PartSignedOnce
PROPERTY
    EveryRequestReturns
