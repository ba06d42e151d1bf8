----------------------------- MODULE Storefront -----------------------------
(***************************************************************************)
(* Placing and cancelling orders: portal/service.go with the stock of a    *)
(* specification (storage/portal_repo.go) and a coupon (promo/service.go). *)
(* Stock and coupon are taken before the order exists and given back when  *)
(* something fails, in statements of their own; ConsumeCoupon holds a      *)
(* mutex, ReleaseCoupon does not.                                          *)
(*                                                                         *)
(* One specification of limited stock and one coupon: no statement touches *)
(* the rows of two of them.                                                *)
(***************************************************************************)
EXTENDS Integers, FiniteSets, Functions

CONSTANTS
    Orders,         \* order numbers
    Users,
    Owner,          \* [Orders -> Users]
    Qty,            \* [Orders -> Nat \ {0}], the quantity ordered
    Fronts,         \* concurrent executions of the operations below
    NoOrder,        \* no order: an idle front
    NoFront,        \* nobody holds the mutex of the promotion service
    FirstStock,     \* stock of the specification at the start
    MaxSupply,      \* bound: units an administrator puts on sale altogether
    TotalLimit,     \* promo_coupons.total_limit
    PerUserLimit    \* promo_coupons.per_user_limit

ASSUME StorefrontAssumption ==
    /\ Owner \in [Orders -> Users]
    /\ Qty \in [Orders -> Nat \ {0}]
    /\ NoOrder \notin Orders /\ NoFront \notin Fronts
    /\ {FirstStock, MaxSupply, TotalLimit, PerUserLimit} \subseteq Nat
    /\ IsFiniteSet(Orders) /\ IsFiniteSet(Fronts)

VARIABLES
    stock,      \* portal_product_skus.stock
    issued,     \* order numbers that have been generated
    status,     \* cert_orders.status, "none" before the INSERT
    discounted, \* orders with a coupon_code
    used,       \* promo_coupons.used_count
    usages,     \* order numbers in promo_coupon_usages
    mu,         \* the front that holds promo.Service.mu
    front,      \* the fronts
    supplied,   \* for the properties: units ever put on sale
    misread,    \* for the properties: orders admitted because the count of uses failed
    disturbed   \* for the properties: a front was cut off, or a failure was ignored

shopVars ==
    <<stock, issued, status, discounted, used, usages, mu, front, supplied, misread, disturbed>>

-----------------------------------------------------------------------------
FrontPCs == {"idle", "reserve", "lock", "preview", "countUsages", "consume", "insertUsage",
             "uncount", "giveBack", "insertOrder",
             "cancel", "returnStock", "findUsage", "deleteUsage", "decrement"}

Front == [pc : FrontPCs, order : Orders \cup {NoOrder}, coupon : BOOLEAN]

Free == [pc |-> "idle", order |-> NoOrder, coupon |-> FALSE]

At(f, pc, o) == front[f].pc = pc /\ front[f].order = o

Begin(f, pc, o, coupon) ==
    /\ front[f] = Free
    /\ front' = [front EXCEPT ![f] = [pc |-> pc, order |-> o, coupon |-> coupon]]

GoTo(f, pc) == front' = [front EXCEPT ![f].pc = pc]

Return(f) == front' = [front EXCEPT ![f] = Free]

Unlock == mu' = NoFront

UsagesOf(u) == {o \in usages : Owner[o] = u}

-----------------------------------------------------------------------------
(* CreateOrder *)

\* Quote: the stock is read, and a new order number will be used.
Quote(f, o, coupon) ==
    /\ o \notin issued
    /\ stock >= Qty[o]
    /\ Begin(f, "reserve", o, coupon)
    /\ issued' = issued \cup {o}
    /\ UNCHANGED <<stock, status, discounted, used, usages, mu, supplied, misread, disturbed>>

\* Mutant of ReserveStock: the stock that was quoted is trusted.
ReserveQuoted(f, o) ==
    /\ At(f, "reserve", o)
    /\ stock' = stock - Qty[o]
    /\ GoTo(f, IF front[f].coupon THEN "lock" ELSE "insertOrder")
    /\ UNCHANGED <<issued, status, discounted, used, usages, mu, supplied, misread, disturbed>>

\* ReserveStock: UPDATE ... WHERE stock >= ?.
ReserveStock(f, o) ==
    /\ At(f, "reserve", o)
    /\ IF stock >= Qty[o]
       THEN /\ stock' = stock - Qty[o]
            /\ GoTo(f, IF front[f].coupon THEN "lock" ELSE "insertOrder")
       ELSE Return(f) /\ UNCHANGED stock
    /\ UNCHANGED <<issued, status, discounted, used, usages, mu, supplied, misread, disturbed>>

\* Mutant of LockPromo: ConsumeCoupon without the mutex.
DoNotLock(f, o) ==
    /\ At(f, "lock", o)
    /\ GoTo(f, "preview")
    /\ UNCHANGED <<stock, issued, status, discounted, used, usages, mu, supplied, misread, disturbed>>

LockPromo(f, o) ==
    /\ At(f, "lock", o)
    /\ mu = NoFront
    /\ mu' = f
    /\ GoTo(f, "preview")
    /\ UNCHANGED <<stock, issued, status, discounted, used, usages, supplied, misread, disturbed>>

\* PreviewCoupon reads the coupon ...
Preview(f, o) ==
    /\ At(f, "preview", o)
    /\ IF used < TotalLimit
       THEN GoTo(f, "countUsages") /\ UNCHANGED mu
       ELSE GoTo(f, "giveBack") /\ Unlock
    /\ UNCHANGED <<stock, issued, status, discounted, used, usages, supplied, misread, disturbed>>

\* ... and counts what its user has used; a failure is ignored and counts as none.
CountUsages(f, o) ==
    /\ At(f, "countUsages", o)
    /\ \/ IF PerUserLimit = 0 \/ Cardinality(UsagesOf(Owner[o])) < PerUserLimit
          THEN GoTo(f, "consume") /\ UNCHANGED <<mu, misread>>
          ELSE GoTo(f, "giveBack") /\ Unlock /\ UNCHANGED misread
       \/ /\ PerUserLimit > 0 /\ misread' = misread \cup {o}
          /\ GoTo(f, "consume") /\ UNCHANGED mu
    /\ UNCHANGED <<stock, issued, status, discounted, used, usages, supplied, disturbed>>

Consume(f, o) ==
    /\ At(f, "consume", o)
    /\ IF used < TotalLimit
       THEN used' = used + 1 /\ GoTo(f, "insertUsage") /\ UNCHANGED mu
       ELSE GoTo(f, "giveBack") /\ Unlock /\ UNCHANGED used
    /\ UNCHANGED <<stock, issued, status, discounted, usages, supplied, misread, disturbed>>

InsertUsage(f, o) ==
    /\ At(f, "insertUsage", o)
    /\ \/ usages' = usages \cup {o} /\ GoTo(f, "insertOrder") /\ Unlock
       \/ GoTo(f, "uncount") /\ UNCHANGED <<usages, mu>>
    /\ UNCHANGED <<stock, issued, status, discounted, used, supplied, misread, disturbed>>

\* The error of the compensation is ignored.
Uncount(f, o) ==
    /\ At(f, "uncount", o)
    /\ \/ used' = used - 1 /\ UNCHANGED disturbed
       \/ disturbed' = TRUE /\ UNCHANGED used
    /\ GoTo(f, "giveBack")
    /\ Unlock
    /\ UNCHANGED <<stock, issued, status, discounted, usages, supplied, misread>>

\* ReleaseStock; its error is ignored.
ReleaseStock(o) ==
    \/ stock' = stock + Qty[o] /\ UNCHANGED disturbed
    \/ disturbed' = TRUE /\ UNCHANGED stock

\* Mutant of GiveBack: the order is refused and the stock stays reserved.
KeepStock(f, o) ==
    /\ At(f, "giveBack", o)
    /\ Return(f)
    /\ UNCHANGED <<stock, issued, status, discounted, used, usages, mu, supplied, misread, disturbed>>

GiveBack(f, o) ==
    /\ At(f, "giveBack", o)
    /\ ReleaseStock(o)
    /\ Return(f)
    /\ UNCHANGED <<issued, status, discounted, used, usages, mu, supplied, misread>>

\* workflow.CreateOrder inserts the order or fails.
InsertOrder(f, o) ==
    /\ At(f, "insertOrder", o)
    /\ \/ /\ status' = [status EXCEPT ![o] = "pending_payment"]
          /\ discounted' = IF front[f].coupon THEN discounted \cup {o} ELSE discounted
          /\ Return(f)
       \/ GoTo(f, "returnStock") /\ UNCHANGED <<status, discounted>>
    /\ UNCHANGED <<stock, issued, used, usages, mu, supplied, misread, disturbed>>

-----------------------------------------------------------------------------
(* CancelOrder, by the user, an administrator or CloseStaleOrders *)

LoadForCancel(f, o) ==
    /\ status[o] = "pending_payment"
    /\ Begin(f, "cancel", o, FALSE)
    /\ UNCHANGED <<stock, issued, status, discounted, used, usages, mu, supplied, misread, disturbed>>

\* Mutant of CancelStatus: that the UPDATE changed no row goes unnoticed.
CancelUnnoticed(f, o) ==
    /\ At(f, "cancel", o)
    /\ status' = [status EXCEPT ![o] = IF @ = "pending_payment" THEN "cancelled" ELSE @]
    /\ GoTo(f, "returnStock")
    /\ UNCHANGED <<stock, issued, discounted, used, usages, mu, supplied, misread, disturbed>>

CancelStatus(f, o) ==
    /\ At(f, "cancel", o)
    /\ IF status[o] = "pending_payment"
       THEN status' = [status EXCEPT ![o] = "cancelled"] /\ GoTo(f, "returnStock")
       ELSE Return(f) /\ UNCHANGED status
    /\ UNCHANGED <<stock, issued, discounted, used, usages, mu, supplied, misread, disturbed>>

\* What follows a cancellation and a failed INSERT: ReleaseStock, then ReleaseCoupon.
ReturnStock(f, o) ==
    /\ At(f, "returnStock", o)
    /\ ReleaseStock(o)
    /\ GoTo(f, "findUsage")
    /\ UNCHANGED <<issued, status, discounted, used, usages, mu, supplied, misread>>

FindUsage(f, o) ==
    /\ At(f, "findUsage", o)
    /\ IF o \in usages THEN GoTo(f, "deleteUsage") ELSE Return(f)
    /\ UNCHANGED <<stock, issued, status, discounted, used, usages, mu, supplied, misread, disturbed>>

DeleteUsage(f, o) ==
    /\ At(f, "deleteUsage", o)
    /\ IF o \in usages THEN GoTo(f, "decrement") ELSE Return(f)
    /\ usages' = usages \ {o}
    /\ UNCHANGED <<stock, issued, status, discounted, used, mu, supplied, misread, disturbed>>

\* UPDATE ... WHERE used_count > 0; its error is ignored.
Decrement(f, o) ==
    /\ At(f, "decrement", o)
    /\ \/ used' = (IF used > 0 THEN used - 1 ELSE used) /\ UNCHANGED disturbed
       \/ disturbed' = TRUE /\ UNCHANGED used
    /\ Return(f)
    /\ UNCHANGED <<stock, issued, status, discounted, usages, mu, supplied, misread>>

-----------------------------------------------------------------------------
(* The rest of the system *)

\* The cashier settles the order (Checkout).
Settle(o) ==
    /\ status[o] = "pending_payment"
    /\ status' = [status EXCEPT ![o] = "paid"]
    /\ UNCHANGED <<stock, issued, discounted, used, usages, mu, front, supplied, misread, disturbed>>

\* UpdateSKU: an administrator writes the stock, whatever it is.
UpdateSKU(n) ==
    /\ n # stock
    /\ supplied + n - stock \in 0..MaxSupply
    /\ stock' = n
    /\ supplied' = supplied + n - stock
    /\ UNCHANGED <<issued, status, discounted, used, usages, mu, front, misread, disturbed>>

\* The process dies, or the context of the request is cancelled; no compensation runs,
\* and the mutex is free again.
Abort(f) ==
    /\ front[f] # Free
    /\ Return(f)
    /\ mu' = IF mu = f THEN NoFront ELSE mu
    /\ disturbed' = TRUE
    /\ UNCHANGED <<stock, issued, status, discounted, used, usages, supplied, misread>>

-----------------------------------------------------------------------------
ShopInit ==
    /\ stock = FirstStock
    /\ issued = {}
    /\ status = [o \in Orders |-> "none"]
    /\ discounted = {}
    /\ used = 0
    /\ usages = {}
    /\ mu = NoFront
    /\ front = [f \in Fronts |-> Free]
    /\ supplied = FirstStock
    /\ misread = {}
    /\ disturbed = FALSE

Statement(f, o) ==
    \/ ReserveStock(f, o)
    \/ LockPromo(f, o)
    \/ Preview(f, o)
    \/ CountUsages(f, o)
    \/ Consume(f, o)
    \/ InsertUsage(f, o)
    \/ Uncount(f, o)
    \/ GiveBack(f, o)
    \/ InsertOrder(f, o)
    \/ CancelStatus(f, o)
    \/ ReturnStock(f, o)
    \/ FindUsage(f, o)
    \/ DeleteUsage(f, o)
    \/ Decrement(f, o)

ShopNext ==
    \/ \E f \in Fronts, o \in Orders :
          \/ \E coupon \in BOOLEAN : Quote(f, o, coupon)
          \/ LoadForCancel(f, o)
          \/ Statement(f, o)
    \/ \E f \in Fronts : Abort(f)
    \/ \E o \in Orders : Settle(o)
    \/ \E n \in 0..MaxSupply : UpdateSKU(n)

ShopSpec == ShopInit /\ [][ShopNext]_shopVars

-----------------------------------------------------------------------------
(* Properties *)

ShopTypeOK ==
    /\ stock \in Nat /\ used \in Nat /\ supplied \in Nat
    /\ issued \subseteq Orders /\ discounted \subseteq Orders /\ usages \subseteq Orders
    /\ misread \subseteq Orders
    /\ status \in [Orders -> {"none", "pending_payment", "paid", "cancelled"}]
    /\ mu \in Fronts \cup {NoFront}
    /\ front \in [Fronts -> Front]
    /\ disturbed \in BOOLEAN

Live == {o \in Orders : status[o] \in {"pending_payment", "paid"}}

\* A front between the reservation of stock and the order, or between a cancellation
\* and the return of its stock.
Holding(f) ==
    front[f].pc \in {"lock", "preview", "countUsages", "consume", "insertUsage", "uncount",
                     "giveBack", "insertOrder", "returnStock"}

Units(orders) == SumFunctionOnSet(Qty, orders)

Held == Live \cup {front[f].order : f \in {g \in Fronts : Holding(g)}}

\* Never more is sold than was put on sale, and no unit is returned twice: what is left
\* and what live orders and running requests hold is covered by the supply (ReserveStock,
\* ReleaseStock, the condition in CancelOrder).
NotOversold == stock >= 0 /\ stock + Units(Held) <= supplied

\* Times the coupon is counted without a row in promo_coupon_usages, on the way to it
\* or back.
OnTheWay == {f \in Fronts : front[f].pc \in {"insertUsage", "uncount", "decrement"}}

\* Uses of a user that a count admitted.
CountedUses(u) == UsagesOf(u) \ misread

\* The coupon is used neither more often than its limit nor more often than a user may:
\* uses are counted, recorded, deleted and uncounted in separate statements, only some of
\* them under the mutex, and between the count of a user's uses in PreviewCoupon and the
\* INSERT in ConsumeCoupon nobody inserts for the same user.  The limit of a user does not
\* hold for uses whose count failed, because the error of that query is ignored
\* (promo/service.go:191-197); the limit of the coupon holds for all.
CouponLimitsKept ==
    /\ used <= TotalLimit
    /\ Cardinality(usages) + Cardinality(OnTheWay) <= used
    /\ PerUserLimit > 0 => \A u \in Users : Cardinality(CountedUses(u)) <= PerUserLimit

\* A discount is paid for with a use of the coupon: as long as an order with a coupon
\* lives, nothing gives its use back (CancelOrder against the cashier).
DiscountIsRecorded == \A o \in Live \cap discounted : o \in usages

\* Nothing leaks: unless something was cut off, stock and coupon add up exactly when no
\* request is running.
NothingLeaks ==
    ~disturbed /\ (\A f \in Fronts : front[f] = Free) =>
        /\ stock + Units(Live) = supplied
        /\ used = Cardinality(usages)
        /\ usages = Live \cap discounted
=============================================================================
