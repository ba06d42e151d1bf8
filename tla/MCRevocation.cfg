SPECIFICATION FairRevocationSpec
CONSTANTS
    k1 = k1
    Certs = {c1}
    Spelling <- MCSpelling
    Typing = {"lower", "zeros"}
    Protected = {}
    Configs = {k1, k2}
    Interval <- MCInterval
    Desks = {d1}
    Loops = {l1, l2}
    NoCert = NoCert
    NoLoop = NoLoop
    NoCRL = NoCRL
    MaxMishaps = 1
CHECK_DEADLOCK FALSE
INVARIANTS
    RevokedIsListed
    OneSchedulerRuns
    NeverVouchedFor
PROPERTY
    ListedIsPublished
