SPECIFICATION QuotaSpec
CONSTANTS
    Subs = {s1}
    CertOrders = {o1, o2}
    Apps = {a1, a2}
    Workers = {w1, w2}
    Reviewers = {r1, r2}
    Quota = 1
    RevokeReleases = TRUE
    Nobody = Nobody
    NoOrder = NoOrder
    NoSub = NoSub
    NoApp = NoApp
    MaxMishaps = 1
CHECK_DEADLOCK FALSE
INVARIANTS
    ReservedWithinQuota
