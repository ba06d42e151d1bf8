SPECIFICATION FairActivationSpec
CONSTANTS
    u1 = u1
    o1 = o1
    o2 = o2
    Orders = {o1, o2}
    Users = {u1}
    Channels = {}
    Numbered = {}
    Approving = {}
    References = {}
    Owner <- MCOwner
    Amount <- MCAmount
    Members = {}
    OpeningBalance <- MCBalance
    MaxPays = 1
    NoTxn = NoTxn
    SessionNo = SessionNo
    NoOrder = NoOrder
    Handlers = {h1, h2}
    MaxAttempts = 1
    Pages = {g1, g2}
CHECK_DEADLOCK FALSE
INVARIANTS
    SubscriptionsMatchOrders
PROPERTY
    KeptPlanIsActivated
