SPECIFICATION WalletSpec
CONSTANTS
    u1 = u1
    Users = {u1, u2}
    Recharges = {r1, r2}
    Payer <- MCPayer
    Amount <- MCAmount
    Codes = {gift}
    CodeValue <- MCValue
    MaxUses <- MCUses
    Prices = {2}
    MaxReturned <- MCReturned
    MaxTickets = 2
    Desks = {d1, d2}
    NoDesk = NoDesk
SYMMETRY WalletSymmetry
CHECK_DEADLOCK FALSE
INVARIANTS
    BalanceAddsUp
    RechargeExplained
    RefundedIsTakenBack
PROPERTY
    RechargeIsDecidedOnce
