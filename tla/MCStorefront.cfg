SPECIFICATION ShopSpec
CONSTANTS
    u1 = u1
    u2 = u2
    o3 = o3
    Orders = {o1, o2, o3}
    Users = {u1, u2}
    Owner <- MCOwner
    Qty <- MCQty
    Fronts = {f1, f2}
    NoOrder = NoOrder
    NoFront = NoFront
    FirstStock = 2
    MaxSupply = 3
    TotalLimit = 2
    PerUserLimit = 1
CHECK_DEADLOCK FALSE
INVARIANTS
    NotOversold
    CouponLimitsKept
    DiscountIsRecorded
    NothingLeaks
