SPECIFICATION FairCheckoutSpec
CONSTANTS
    o1 = o1
    o3 = o3
    o2 = o2
    u1 = u1
    Orders = {o1}
    Users = {u1}
    Channels = {ali, paypal}
    Numbered = {paypal}
    Approving = {paypal}
    References = {ref}
    Owner <- MCOwner
    Amount <- MCAmount
    Members = {}
    OpeningBalance <- MCBalance
    MaxPays = 1
    NoTxn = NoTxn
    SessionNo = SessionNo
    NoOrder = NoOrder
    Handlers = {h1, h2}
    MaxAttempts = 2
CHECK_DEADLOCK FALSE
INVARIANTS
    TradeBookedOnce
    OnePendingAttempt
    PaidRowIsReported
    BalanceExplained
PROPERTIES
    PaidRowsAreFinal
    ImplementsOrderBook
    ReportedIsAccounted
