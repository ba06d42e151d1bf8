SPECIFICATION FulfilmentSpec
CONSTANTS
    u1 = u1
    Units = 2
    Orders = {o1}
    Users = {u1}
    Channels = {ali}
    Numbered = {}
    Approving = {}
    References = {}
    Owner <- MCOwner
    Amount <- MCAmount
    Members = {}
    OpeningBalance <- MCBalance
    Quantity <- MCQuantity
    MaxPays = 1
    NoTxn = NoTxn
    SessionNo = SessionNo
    NoOrder = NoOrder
    Workers = {w1, w2}
    MaxApps = 2
    MaxSigned = 1
CHECK_DEADLOCK FALSE
INVARIANTS
    CompletedIsFulfilled
    ApprovedHasCertificate
PROPERTIES
    ApprovalIsFinal
