SPECIFICATION LifecycleSpec
CONSTANTS
    u1 = u1
    Price = 1
    Units = 1
    Orders = {o1}
    Users = {u1}
    Channels = {stripe}
    Numbered = {stripe}
    Approving = {}
    References = {ref}
    Owner <- MCOwner
    Amount <- MCAmount
    Members = {}
    OpeningBalance <- MCBalance
    Quantity <- MCQuantity
    MaxPays = 1
    NoTxn = NoTxn
    SessionNo = SessionNo
    NoOrder = NoOrder
    Handlers = {h1}
    Workers = {w1}
    Clerks = {c1, c2}
    MaxAttempts = 1
    MaxApps = 1
    MaxSigned = 1
    MaxRefunds = 2
CHECK_DEADLOCK FALSE
INVARIANTS
    OnlySoldIsIssued
    AccountExplained
    PaidRefundWasSent
PROPERTIES
    LifecycleImplementsOrderBook
    RefundIsDecidedOnce
