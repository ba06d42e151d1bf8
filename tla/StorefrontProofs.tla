-------------------------- MODULE StorefrontProofs --------------------------
(* Theorems about coupons and orders of the storefront, for every number   *)
(* of orders, users and concurrent requests, whatever fails in between.    *)
EXTENDS Storefront, SumLemmas, FiniteSetTheorems, TLAPS

\* Where ConsumeCoupon holds the mutex.
Locked == {"preview", "countUsages", "consume", "insertUsage", "uncount"}

\* Before the order is inserted, and while a failed or cancelled one is taken back.
Creating == Locked \cup {"reserve", "lock", "giveBack", "insertOrder"}
Returning == {"returnStock", "findUsage", "deleteUsage", "decrement"}

\* No other front works on the order.
Alone(f, o) == \A g \in Fronts \ {f} : front[g].pc # "idle" => front[g].order # o

\* What front f has found out so far still holds.
Sound(f) ==
    LET o == front[f].order   pc == front[f].pc IN
    /\ pc # "idle" => o \in issued
    /\ pc \in Locked => mu = f
    /\ pc \in Creating => status[o] = "none" /\ Alone(f, o)
    /\ pc \in Returning => status[o] = "cancelled" \/ (status[o] = "none" /\ Alone(f, o))
    /\ pc = "cancel" => status[o] # "none"
    /\ pc = "insertOrder" /\ front[f].coupon => o \in usages
    /\ pc \in {"consume", "insertUsage"} /\ PerUserLimit > 0 /\ o \notin misread =>
           Cardinality(CountedUses(Owner[o])) < PerUserLimit

\* An order has its number before its row, and its row before its discount.
IssuedFirst ==
    \A o \in Orders : /\ status[o] # "none" => o \in issued
                      /\ o \in discounted => status[o] # "none"

SInv ==
    /\ ShopTypeOK /\ IssuedFirst /\ CouponLimitsKept /\ DiscountIsRecorded
    /\ \A f \in Fronts : Sound(f)

LEMMA FreeType == Free \in Front /\ Free.pc = "idle"
BY DEF Free, Front, FrontPCs

LEMMA Counts ==
    ASSUME ShopTypeOK
    PROVE  /\ IsFiniteSet(usages) /\ Cardinality(usages) \in Nat
           /\ IsFiniteSet(OnTheWay) /\ Cardinality(OnTheWay) \in Nat
           /\ \A u : /\ IsFiniteSet(UsagesOf(u)) /\ Cardinality(UsagesOf(u)) \in Nat
                    /\ IsFiniteSet(CountedUses(u)) /\ Cardinality(CountedUses(u)) \in Nat
                    /\ Cardinality(CountedUses(u)) <= Cardinality(UsagesOf(u))
<1>1. usages \subseteq Orders /\ OnTheWay \subseteq Fronts
      /\ \A u : UsagesOf(u) \subseteq usages /\ CountedUses(u) \subseteq UsagesOf(u)
  BY DEF ShopTypeOK, OnTheWay, UsagesOf, CountedUses
<1>2. IsFiniteSet(usages) /\ IsFiniteSet(OnTheWay)
  BY <1>1, StorefrontAssumption, FS_Subset
<1>3. \A u : IsFiniteSet(UsagesOf(u))
  BY <1>1, <1>2, FS_Subset
<1>4. \A u : IsFiniteSet(CountedUses(u)) /\ Cardinality(CountedUses(u)) <= Cardinality(UsagesOf(u))
  BY <1>1, <1>3, FS_Subset
<1> QED BY <1>2, <1>3, <1>4, FS_CardinalityType

LEMMA SInitially == ShopInit => SInv
<1> SUFFICES ASSUME ShopInit PROVE SInv
  OBVIOUS
<1> USE StorefrontAssumption DEF ShopInit
<1>1. ShopTypeOK
  BY FreeType DEF ShopTypeOK
<1>2. IssuedFirst /\ DiscountIsRecorded
  BY DEF IssuedFirst, DiscountIsRecorded, Live
<1>3. CouponLimitsKept
  <2>1. OnTheWay = {} /\ usages = {} /\ \A u : CountedUses(u) = {}
    BY FreeType DEF OnTheWay, UsagesOf, CountedUses
  <2>2. Cardinality({}) = 0
    BY FS_EmptySet
  <2>3. TotalLimit \in Nat /\ PerUserLimit \in Nat
    OBVIOUS
  <2>4. Cardinality(usages) = 0 /\ Cardinality(OnTheWay) = 0
        /\ \A u : Cardinality(CountedUses(u)) = 0
    BY <2>1, <2>2, Zenon
  <2>5. used = 0
    OBVIOUS
  <2> QED BY <2>3, <2>4, <2>5 DEF CouponLimitsKept
<1>4. \A f \in Fronts : Sound(f)
  BY FreeType DEF Sound, Locked, Creating, Returning
<1> QED BY <1>1, <1>2, <1>3, <1>4 DEF SInv

-----------------------------------------------------------------------------
(* Fronts that move *)

LEMMA Goes ==
    ASSUME ShopTypeOK, NEW f \in Fronts, NEW pc \in FrontPCs, GoTo(f, pc)
    PROVE  /\ front' \in [Fronts -> Front] /\ front'[f].pc = pc
           /\ front'[f].order = front[f].order /\ front'[f].coupon = front[f].coupon
           /\ \A g \in Fronts \ {f} : front'[g] = front[g]
<1>1. front \in [Fronts -> Front] /\ front[f] \in Front
  BY DEF ShopTypeOK
<1>2. [front[f] EXCEPT !.pc = pc] \in Front
  BY <1>1 DEF Front
<1> QED BY <1>1, <1>2 DEF GoTo, Front

LEMMA Returns ==
    ASSUME ShopTypeOK, NEW f \in Fronts, Return(f)
    PROVE  /\ front' \in [Fronts -> Front] /\ front'[f].pc = "idle"
           /\ \A g \in Fronts \ {f} : front'[g] = front[g]
BY FreeType DEF ShopTypeOK, Return

\* The other fronts keep what they have found out, when a front goes on with its order.
LEMMA OthersAreSound ==
    ASSUME SInv, NEW f \in Fronts,
           \A g \in Fronts \ {f} : front'[g] = front[g],
           front'[f].pc # "idle" => front[f].pc # "idle" /\ front'[f].order = front[f].order,
           issued \subseteq issued', misread \subseteq misread',
           mu' = mu \/ mu = f \/ mu = NoFront,
           \A o \in Orders : status'[o] = status[o]
                             \/ (status[o] # "none" /\ status'[o] # "none" /\ status[o] # "cancelled")
                             \/ (o = front[f].order /\ front[f].pc # "idle" /\ status[o] = "none"),
           NEW g \in Fronts \ {f},
           front[g].pc = "insertOrder" /\ front[g].order \in usages
               => front[g].order \in usages',
           front[g].pc \in {"consume", "insertUsage"} => usages' \subseteq usages
    PROVE  Sound(g)'
<1> USE StorefrontAssumption
<1>1. Sound(g) /\ Sound(f) /\ front[g] \in Front /\ front[f] \in Front
  BY DEF SInv, ShopTypeOK
<1>2. front'[g] = front[g]
  OBVIOUS
<1> DEFINE o == front[g].order   pc == front[g].pc
<1>3. CASE pc = "idle"
  BY <1>2, <1>3 DEF Sound, Locked, Creating, Returning
<1>4. CASE pc # "idle"
  <2>1. o \in Orders /\ o \in issued'
    BY <1>1, <1>4 DEF Sound, SInv, ShopTypeOK
  <2>2. Alone(g, o) => Alone(g, o)'
    BY <1>2 DEF Alone
  <2>3. Alone(g, o) /\ front[f].pc # "idle" => front[f].order # o
    BY DEF Alone
  <2>4. pc \in Creating => status'[o] = "none" /\ Alone(g, o)'
    BY <1>1, <2>1, <2>2, <2>3 DEF Sound
  <2>5. pc \in Returning => status'[o] = "cancelled" \/ (status'[o] = "none" /\ Alone(g, o)')
    BY <1>1, <2>1, <2>2, <2>3 DEF Sound, Alone
  <2>6. pc = "cancel" => status'[o] # "none"
    BY <1>1, <2>1 DEF Sound
  <2>7. pc \in Locked => mu' = g
    BY <1>1 DEF Sound
  <2>8. pc \in {"consume", "insertUsage"} /\ PerUserLimit > 0 /\ o \notin misread' =>
            Cardinality(CountedUses(Owner[o])') < PerUserLimit
    <3> SUFFICES ASSUME pc \in {"consume", "insertUsage"}, PerUserLimit > 0, o \notin misread'
                 PROVE  Cardinality(CountedUses(Owner[o])') < PerUserLimit
      OBVIOUS
    <3>1. CountedUses(Owner[o])' \subseteq CountedUses(Owner[o])
      BY DEF UsagesOf, CountedUses
    <3>2. /\ Cardinality(CountedUses(Owner[o])') <= Cardinality(CountedUses(Owner[o]))
          /\ Cardinality(CountedUses(Owner[o])') \in Nat
          /\ Cardinality(CountedUses(Owner[o])) \in Nat
      BY <3>1, Counts, FS_Subset, FS_CardinalityType DEF SInv
    <3>3. Cardinality(CountedUses(Owner[o])) < PerUserLimit
      BY <1>1 DEF Sound
    <3> QED BY <3>2, <3>3
  <2> QED BY <1>1, <1>2, <2>1, <2>4, <2>5, <2>6, <2>7, <2>8 DEF Sound
<1> QED BY <1>3, <1>4

\* A front goes on or returns, and of the tables at most the stock changes.
LEMMA FrontStep ==
    ASSUME SInv, NEW f \in Fronts, Sound(f)',
           front' \in [Fronts -> Front], \A g \in Fronts \ {f} : front'[g] = front[g],
           front'[f].pc # "idle" => front[f].pc # "idle" /\ front'[f].order = front[f].order,
           front'[f].pc \in {"insertUsage", "uncount", "decrement"} => f \in OnTheWay,
           UNCHANGED <<issued, status, discounted, used, usages, supplied>>,
           misread \subseteq misread', misread' \subseteq Orders,
           stock' \in Nat, disturbed' \in BOOLEAN,
           mu' = mu \/ (mu = NoFront /\ mu' = f) \/ (mu = f /\ mu' = NoFront)
    PROVE  SInv'
<1>1. ShopTypeOK'
  BY DEF SInv, ShopTypeOK
<1>2. IssuedFirst' /\ DiscountIsRecorded'
  BY DEF SInv, IssuedFirst, DiscountIsRecorded, Live
<1>3. CouponLimitsKept'
  <2>1. OnTheWay' \subseteq OnTheWay
    BY DEF OnTheWay
  <2>2. Cardinality(OnTheWay') <= Cardinality(OnTheWay) /\ Cardinality(OnTheWay') \in Nat
    BY <2>1, Counts, FS_Subset, FS_CardinalityType DEF SInv
  <2>3. ASSUME NEW u
        PROVE  /\ Cardinality(CountedUses(u)') <= Cardinality(CountedUses(u))
               /\ Cardinality(CountedUses(u)') \in Nat /\ Cardinality(CountedUses(u)) \in Nat
    <3>1. CountedUses(u)' \subseteq CountedUses(u)
      BY DEF CountedUses, UsagesOf
    <3> QED BY <3>1, Counts, FS_Subset, FS_CardinalityType DEF SInv
  <2> QED BY <2>2, <2>3, Counts, StorefrontAssumption DEF SInv, CouponLimitsKept, ShopTypeOK
<1>4. ASSUME NEW g \in Fronts \ {f} PROVE Sound(g)'
  BY OthersAreSound
<1> QED BY <1>1, <1>2, <1>3, <1>4 DEF SInv

\* What a front that goes on has to know when it gets there.
LEMMA GoStep ==
    ASSUME SInv, NEW f \in Fronts, NEW pc \in Creating \cup Returning, GoTo(f, pc),
           front[f].pc \in Creating \cup Returning,
           pc \in Creating => front[f].pc \in Creating,
           pc \in Locked => mu' = f,
           pc = "insertOrder" /\ front[f].coupon => front[f].order \in usages,
           pc \in {"insertUsage", "uncount", "decrement"} => f \in OnTheWay,
           pc \in {"consume", "insertUsage"} /\ PerUserLimit > 0
               /\ front[f].order \notin misread' =>
               Cardinality(CountedUses(Owner[front[f].order])) < PerUserLimit,
           misread' \in {misread, misread \cup {front[f].order}},
           UNCHANGED <<issued, status, discounted, used, usages, supplied>>,
           stock' \in Nat, disturbed' \in BOOLEAN,
           mu' = mu \/ (mu = NoFront /\ mu' = f) \/ (mu = f /\ mu' = NoFront)
    PROVE  SInv'
<1>1. pc \in FrontPCs /\ pc \notin {"idle", "cancel"} /\ front[f].pc # "idle"
  BY DEF Creating, Returning, Locked, FrontPCs
<1>2. /\ front' \in [Fronts -> Front] /\ front'[f].pc = pc
      /\ front'[f].order = front[f].order /\ front'[f].coupon = front[f].coupon
      /\ \A g \in Fronts \ {f} : front'[g] = front[g]
  BY <1>1, Goes DEF SInv
<1>3. \A o : Alone(f, o)' <=> Alone(f, o)
  BY <1>2 DEF Alone
<1>4. /\ \A u : CountedUses(u)' \subseteq CountedUses(u)
      /\ \A u : /\ Cardinality(CountedUses(u)') <= Cardinality(CountedUses(u))
               /\ Cardinality(CountedUses(u)') \in Nat
               /\ Cardinality(CountedUses(u)) \in Nat
  <2>1. \A u : CountedUses(u)' \subseteq CountedUses(u)
    BY DEF UsagesOf, CountedUses
  <2>2. \A u : IsFiniteSet(CountedUses(u)) /\ Cardinality(CountedUses(u)) \in Nat
    BY Counts DEF SInv
  <2> QED BY <2>1, <2>2, FS_Subset, FS_CardinalityType
<1>5. Sound(f)
  BY DEF SInv
<1>6. Sound(f)'
  <2>1. PICK u : u = Owner[front[f].order]
    OBVIOUS
  <2>2. pc \in {"consume", "insertUsage"} /\ PerUserLimit > 0
            /\ front[f].order \notin misread' =>
            Cardinality(CountedUses(u)') < PerUserLimit
    BY <1>4, <2>1, StorefrontAssumption
  <2>3. u = Owner[front'[f].order]
    BY <1>2, <2>1
  <2>4. /\ pc # "idle" => front[f].order \in issued'
        /\ pc \in Creating => status'[front[f].order] = "none" /\ Alone(f, front[f].order)'
        /\ pc \in Returning => \/ status'[front[f].order] = "cancelled"
                               \/ status'[front[f].order] = "none" /\ Alone(f, front[f].order)'
        /\ pc = "insertOrder" /\ front[f].coupon => front[f].order \in usages'
    BY <1>1, <1>2, <1>3, <1>5 DEF Sound
  <2> QED BY <1>1, <1>2, <2>2, <2>3, <2>4 DEF Sound
<1>7. misread \subseteq misread' /\ misread' \subseteq Orders
  BY <1>1, <1>5 DEF Sound, SInv, ShopTypeOK
<1> QED BY <1>1, <1>2, <1>6, <1>7, FrontStep

LEMMA ReturnStep ==
    ASSUME SInv, NEW f \in Fronts, Return(f),
           UNCHANGED <<issued, status, discounted, used, usages, supplied, misread>>,
           stock' \in Nat, disturbed' \in BOOLEAN,
           mu' = mu \/ (mu = f /\ mu' = NoFront)
    PROVE  SInv'
<1>1. /\ front' \in [Fronts -> Front] /\ front'[f].pc = "idle"
      /\ \A g \in Fronts \ {f} : front'[g] = front[g]
  BY Returns DEF SInv
<1>2. Sound(f)'
  BY <1>1 DEF Sound, Locked, Creating, Returning
<1>3. misread \subseteq misread' /\ misread' \subseteq Orders
  BY DEF SInv, ShopTypeOK
<1> QED BY <1>1, <1>2, <1>3, FrontStep

\* A front begins: with a new order, or with one that is there.
LEMMA BeginStep ==
    ASSUME SInv, NEW f \in Fronts, NEW o \in Orders, NEW coupon \in BOOLEAN,
           Quote(f, o, coupon) \/ LoadForCancel(f, o)
    PROVE  SInv'
<1> USE StorefrontAssumption
<1>1. PICK pc \in {"reserve", "cancel"} :
          /\ Begin(f, pc, o, IF pc = "reserve" THEN coupon ELSE FALSE)
          /\ pc = "reserve" => o \notin issued /\ issued' = issued \cup {o}
          /\ pc = "cancel" => status[o] = "pending_payment" /\ issued' = issued
          /\ UNCHANGED <<stock, status, discounted, used, usages, mu, supplied, misread, disturbed>>
  BY DEF Quote, LoadForCancel
<1> DEFINE k == [pc |-> pc, order |-> o, coupon |-> IF pc = "reserve" THEN coupon ELSE FALSE]
<1>2. k \in Front /\ k.pc = pc /\ k.order = o
  BY DEF Front, FrontPCs
<1>3. front[f].pc = "idle" /\ front' = [front EXCEPT ![f] = k]
  BY <1>1, FreeType DEF Begin
<1> HIDE DEF k
<1>4. /\ front' \in [Fronts -> Front] /\ front'[f] = k
      /\ \A g \in Fronts \ {f} : front'[g] = front[g]
  BY <1>2, <1>3 DEF SInv, ShopTypeOK
<1>5. ShopTypeOK'
  BY <1>1, <1>4 DEF SInv, ShopTypeOK
<1>6. IssuedFirst' /\ DiscountIsRecorded'
  BY <1>1 DEF SInv, IssuedFirst, DiscountIsRecorded, Live
<1>7. CouponLimitsKept'
  <2>1. OnTheWay' = OnTheWay
    BY <1>2, <1>3, <1>4 DEF OnTheWay
  <2>2. \A u : CountedUses(u)' = CountedUses(u)
    BY <1>1 DEF UsagesOf, CountedUses
  <2> QED BY <1>1, <2>1, <2>2 DEF SInv, CouponLimitsKept
<1>8. Sound(f)'
  <2>1. pc = "reserve" => status[o] = "none"
    BY <1>1 DEF SInv, IssuedFirst
  <2>2. pc = "reserve" => Alone(f, o)'
    BY <1>1, <1>4 DEF SInv, Sound, Alone
  <2>3. front'[f].pc = pc /\ front'[f].order = o /\ o \in issued'
    BY <1>1, <1>2, <1>4 DEF SInv, IssuedFirst
  <2> QED BY <1>1, <2>1, <2>2, <2>3 DEF Sound, Locked, Creating, Returning
<1>9. ASSUME NEW g \in Fronts \ {f} PROVE Sound(g)'
  <2>1. Sound(g) /\ front'[g] = front[g]
    BY <1>4 DEF SInv
  <2>2. front[g].pc # "idle" /\ front[g].order = o => pc = "cancel"
    BY <1>1, <2>1 DEF Sound
  <2>3. front[g].pc \in Creating \cup Returning /\ status[front[g].order] = "none"
            => front[g].order # o
    BY <1>1, <2>1, <2>2 DEF Sound, Creating, Returning, Locked
  <2>4. Alone(g, front[g].order) /\ front[g].order # o => Alone(g, front[g].order)'
    BY <1>2, <1>4 DEF Alone
  <2>5. \A u : CountedUses(u)' = CountedUses(u)
    BY <1>1 DEF UsagesOf, CountedUses
  <2> QED BY <1>1, <2>1, <2>3, <2>4, <2>5 DEF Sound
<1> QED BY <1>5, <1>6, <1>7, <1>8, <1>9 DEF SInv

-----------------------------------------------------------------------------
(* Actions that leave orders, uses and the counter alone *)

LEMMA StockReleased ==
    ASSUME SInv, NEW o \in Orders, ReleaseStock(o)
    PROVE  stock' \in Nat /\ disturbed' \in BOOLEAN
<1>1. stock \in Nat /\ Qty[o] \in Nat
  BY StorefrontAssumption DEF SInv, ShopTypeOK
<1>2. stock' \in Nat
  BY <1>1 DEF ReleaseStock
<1>3. disturbed' \in BOOLEAN
  BY Zenon DEF SInv, ShopTypeOK, ReleaseStock
<1> QED BY <1>2, <1>3

LEMMA QuietSteps ==
    ASSUME SInv, NEW f \in Fronts, NEW o \in Orders,
           \/ ReserveStock(f, o) \/ LockPromo(f, o) \/ Preview(f, o) \/ CountUsages(f, o)
           \/ GiveBack(f, o) \/ ReturnStock(f, o) \/ FindUsage(f, o)
    PROVE  SInv'
<1> USE StorefrontAssumption DEF At, Creating, Returning, Locked
<1>1. /\ stock \in Nat /\ disturbed \in BOOLEAN /\ Qty[o] \in Nat /\ Sound(f)
      /\ front[f] \in Front
  BY DEF SInv, ShopTypeOK
<1>2. CASE ReserveStock(f, o)
  <2>1. stock' \in Nat
    BY <1>1, <1>2 DEF ReserveStock
  <2>2. CASE GoTo(f, "lock")
    BY <1>1, <1>2, <2>1, <2>2, GoStep DEF ReserveStock
  <2>3. CASE GoTo(f, "insertOrder") /\ ~front[f].coupon
    BY <1>1, <1>2, <2>1, <2>3, GoStep DEF ReserveStock
  <2>4. CASE Return(f)
    BY <1>1, <1>2, <2>1, <2>4, ReturnStep DEF ReserveStock
  <2> QED BY <1>2, <2>2, <2>3, <2>4 DEF ReserveStock
<1>3. CASE LockPromo(f, o)
  BY <1>1, <1>3, GoStep DEF LockPromo
<1>4. CASE Preview(f, o)
  <2>1. mu = f
    BY <1>1, <1>4 DEF Preview, Sound
  <2>2. CASE GoTo(f, "countUsages") /\ UNCHANGED mu
    BY <1>1, <1>4, <2>1, <2>2, GoStep DEF Preview
  <2>3. CASE GoTo(f, "giveBack") /\ Unlock
    BY <1>1, <1>4, <2>1, <2>3, GoStep DEF Preview, Unlock
  <2> QED BY <1>4, <2>2, <2>3 DEF Preview
<1>5. CASE CountUsages(f, o)
  <2>1. mu = f
    BY <1>1, <1>5 DEF CountUsages, Sound
  <2>2. CASE GoTo(f, "consume") /\ UNCHANGED mu
             /\ (PerUserLimit = 0 \/ Cardinality(UsagesOf(Owner[o])) < PerUserLimit)
             /\ UNCHANGED misread
    <3>1. /\ Cardinality(CountedUses(Owner[o])) <= Cardinality(UsagesOf(Owner[o]))
          /\ Cardinality(CountedUses(Owner[o])) \in Nat /\ Cardinality(UsagesOf(Owner[o])) \in Nat
      BY Counts DEF SInv
    <3> QED BY <1>1, <1>5, <2>1, <2>2, <3>1, GoStep DEF CountUsages
  <2>3. CASE GoTo(f, "giveBack") /\ Unlock /\ UNCHANGED misread
    BY <1>1, <1>5, <2>1, <2>3, GoStep DEF CountUsages, Unlock
  <2>4. CASE GoTo(f, "consume") /\ UNCHANGED mu /\ misread' = misread \cup {o}
    BY <1>1, <1>5, <2>1, <2>4, GoStep DEF CountUsages
  <2> QED BY <1>5, <2>2, <2>3, <2>4 DEF CountUsages
<1>6. CASE GiveBack(f, o)
  <2>1. stock' \in Nat /\ disturbed' \in BOOLEAN
    BY <1>6, StockReleased DEF GiveBack
  <2> QED BY <1>6, <2>1, ReturnStep DEF GiveBack
<1>7. CASE ReturnStock(f, o)
  <2>1. stock' \in Nat /\ disturbed' \in BOOLEAN
    BY <1>7, StockReleased DEF ReturnStock
  <2> QED BY <1>7, <2>1, GoStep DEF ReturnStock
<1>8. CASE FindUsage(f, o)
  <2>1. CASE GoTo(f, "deleteUsage")
    BY <1>1, <1>8, <2>1, GoStep DEF FindUsage
  <2>2. CASE Return(f)
    BY <1>1, <1>8, <2>2, ReturnStep DEF FindUsage
  <2> QED BY <1>8, <2>1, <2>2 DEF FindUsage
<1> QED BY <1>2, <1>3, <1>4, <1>5, <1>6, <1>7, <1>8

LEMMA AbortStep ==
    ASSUME SInv, NEW f \in Fronts, Abort(f)
    PROVE  SInv'
<1>1. stock \in Nat
  BY DEF SInv, ShopTypeOK
<1> QED BY <1>1, ReturnStep DEF Abort

\* An administrator writes the stock.
LEMMA SupplyStep ==
    ASSUME SInv, NEW n \in 0 .. MaxSupply, UpdateSKU(n)
    PROVE  SInv'
<1> USE StorefrontAssumption DEF UpdateSKU
<1>1. ShopTypeOK'
  BY DEF SInv, ShopTypeOK
<1>2. IssuedFirst' /\ DiscountIsRecorded'
  BY DEF SInv, IssuedFirst, DiscountIsRecorded, Live
<1>3. OnTheWay' = OnTheWay /\ \A u : CountedUses(u)' = CountedUses(u)
  BY DEF OnTheWay, UsagesOf, CountedUses
<1>4. CouponLimitsKept'
  BY <1>3 DEF SInv, CouponLimitsKept
<1>5. ASSUME NEW f \in Fronts PROVE Sound(f)'
  <2>1. \A o : Alone(f, o)' <=> Alone(f, o)
    BY DEF Alone
  <2> QED BY <1>3, <2>1 DEF SInv, Sound
<1> QED BY <1>1, <1>2, <1>4, <1>5 DEF SInv

-----------------------------------------------------------------------------
(* Actions on orders *)

\* An order is written by the front that works on it, or settled by the cashier.
LEMMA OrderStep ==
    ASSUME SInv, NEW o \in Orders, NEW st \in {"pending_payment", "paid", "cancelled"},
           status' = [status EXCEPT ![o] = st],
           \/ status[o] = "pending_payment" /\ discounted' = discounted
           \/ /\ status[o] = "none" /\ discounted' \in {discounted, discounted \cup {o}}
              /\ o \in discounted' => o \in usages,
           UNCHANGED <<stock, issued, used, usages, mu, supplied, misread, disturbed>>,
           \/ UNCHANGED front /\ status[o] = "pending_payment"
           \/ \E f \in Fronts :
                 /\ front[f].order = o /\ front[f].pc \in {"insertOrder", "cancel"}
                 /\ \A g \in Fronts \ {f} : front'[g] = front[g]
                 /\ front' \in [Fronts -> Front]
                 /\ \/ front'[f].pc = "idle"
                    \/ /\ front'[f].pc = "returnStock" /\ front'[f].order = o
                       /\ st = "cancelled"
    PROVE  SInv'
<1> USE StorefrontAssumption
<1>1. /\ status \in [Orders -> {"none", "pending_payment", "paid", "cancelled"}]
      /\ front \in [Fronts -> Front]
      /\ \A q \in Orders : status'[q] = IF q = o THEN st ELSE status[q]
      /\ \A f \in Fronts : Sound(f)
  BY DEF SInv, ShopTypeOK
<1>2. ShopTypeOK'
  BY <1>1 DEF SInv, ShopTypeOK
<1>3. o \in issued
  BY <1>1 DEF SInv, IssuedFirst, Sound
<1>4. IssuedFirst'
  BY <1>1, <1>3 DEF SInv, IssuedFirst
<1>5. DiscountIsRecorded'
  BY <1>1 DEF SInv, IssuedFirst, DiscountIsRecorded, Live
<1>6. \A u : CountedUses(u)' = CountedUses(u)
  BY DEF UsagesOf, CountedUses
<1>7. OnTheWay' = OnTheWay
  BY DEF OnTheWay
<1>8. CouponLimitsKept'
  BY <1>6, <1>7 DEF SInv, CouponLimitsKept
<1>9. CASE UNCHANGED front /\ status[o] = "pending_payment"
  <2>1. ASSUME NEW f \in Fronts PROVE Sound(f)'
    <3>1. \A q : Alone(f, q)' <=> Alone(f, q)
      BY <1>9 DEF Alone
    <3>2. Sound(f) /\ (front[f].pc # "idle" => front[f].order \in Orders)
      BY <1>1 DEF SInv, ShopTypeOK, Sound
    <3> QED BY <1>1, <1>6, <1>9, <3>1, <3>2 DEF Sound, Creating, Returning, Locked
  <2> QED BY <1>2, <1>4, <1>5, <1>8, <2>1 DEF SInv
<1>10. ASSUME NEW f \in Fronts,
              front[f].order = o, front[f].pc \in {"insertOrder", "cancel"},
              \A g \in Fronts \ {f} : front'[g] = front[g],
              \/ front'[f].pc = "idle"
              \/ front'[f].pc = "returnStock" /\ front'[f].order = o /\ st = "cancelled"
       PROVE  SInv'
  <2>1. Sound(f)'
    BY <1>1, <1>3, <1>10 DEF Sound, Creating, Returning, Locked
  <2>2. ASSUME NEW g \in Fronts \ {f} PROVE Sound(g)'
    BY <1>1, <1>10, OthersAreSound
  <2> QED BY <1>2, <1>4, <1>5, <1>8, <2>1, <2>2 DEF SInv
<1> QED BY <1>9, <1>10

LEMMA OrderSteps ==
    ASSUME SInv, NEW o \in Orders,
           \/ Settle(o)
           \/ \E f \in Fronts : InsertOrder(f, o) \/ CancelStatus(f, o)
    PROVE  SInv'
<1>1. CASE Settle(o)
  BY <1>1, OrderStep DEF Settle
<1>2. ASSUME NEW f \in Fronts, InsertOrder(f, o) PROVE SInv'
  <2>1. status[o] = "none" /\ front[f].order = o /\ front[f].pc = "insertOrder"
        /\ (front[f].coupon => o \in usages) /\ stock \in Nat /\ disturbed \in BOOLEAN
    BY <1>2 DEF InsertOrder, At, SInv, Sound, Creating, ShopTypeOK
  <2>2. CASE GoTo(f, "returnStock") /\ UNCHANGED <<status, discounted>>
    BY <1>2, <2>1, <2>2, GoStep DEF InsertOrder, Creating, Returning, Locked
  <2>3. CASE /\ status' = [status EXCEPT ![o] = "pending_payment"]
             /\ discounted' = IF front[f].coupon THEN discounted \cup {o} ELSE discounted
             /\ Return(f)
    <3>1. o \notin discounted
      BY <2>1 DEF SInv, IssuedFirst
    <3>2. /\ front' \in [Fronts -> Front] /\ front'[f].pc = "idle"
          /\ \A g \in Fronts \ {f} : front'[g] = front[g]
      BY <2>3, Returns DEF SInv
    <3>3. UNCHANGED <<stock, issued, used, usages, mu, supplied, misread, disturbed>>
      BY <1>2 DEF InsertOrder
    <3> QED BY <2>1, <2>3, <3>1, <3>2, <3>3, OrderStep
  <2> QED BY <1>2, <2>2, <2>3 DEF InsertOrder
<1>3. ASSUME NEW f \in Fronts, CancelStatus(f, o) PROVE SInv'
  <2>1. front[f].order = o /\ front[f].pc = "cancel"
        /\ UNCHANGED <<stock, issued, discounted, used, usages, mu, supplied, misread, disturbed>>
    BY <1>3 DEF CancelStatus, At
  <2>2. CASE status[o] = "pending_payment"
    <3>1. status' = [status EXCEPT ![o] = "cancelled"] /\ GoTo(f, "returnStock")
      BY <1>3, <2>2 DEF CancelStatus
    <3>2. /\ front' \in [Fronts -> Front] /\ front'[f].pc = "returnStock"
          /\ front'[f].order = o /\ \A g \in Fronts \ {f} : front'[g] = front[g]
      BY <2>1, <3>1, Goes DEF SInv, FrontPCs
    <3> QED BY <2>1, <2>2, <3>1, <3>2, OrderStep
  <2>3. CASE status[o] # "pending_payment"
    BY <1>3, <2>1, <2>3, ReturnStep DEF CancelStatus, SInv, ShopTypeOK
  <2> QED BY <2>2, <2>3
<1> QED BY <1>1, <1>2, <1>3

-----------------------------------------------------------------------------
(* Actions on the uses of the coupon *)

\* A front counts, records or gives back a use of the coupon, and the counter covers the
\* uses that are recorded and those on the way.
LEMMA CouponStep ==
    ASSUME SInv, NEW f \in Fronts, Sound(f)',
           front' \in [Fronts -> Front], \A g \in Fronts \ {f} : front'[g] = front[g],
           front[f].pc # "idle", front'[f].pc # "idle" => front'[f].order = front[f].order,
           \/ usages' = usages
           \/ usages' = usages \cup {front[f].order} /\ front[f].pc = "insertUsage"
           \/ usages' = usages \ {front[f].order} /\ front[f].pc = "deleteUsage",
           used' \in 0 .. TotalLimit,
           Cardinality(usages') + Cardinality(OnTheWay') <= used',
           UNCHANGED <<stock, issued, status, discounted, supplied, misread>>, disturbed' \in BOOLEAN,
           mu' = mu \/ (mu = f /\ mu' = NoFront)
    PROVE  SInv'
<1> USE StorefrontAssumption DEF SInv
<1> DEFINE o == front[f].order
<1>1. Sound(f) /\ o \in Orders /\ TotalLimit \in Nat /\ usages \subseteq Orders
  BY DEF Sound, ShopTypeOK
<1>2. ShopTypeOK'
  BY <1>1 DEF ShopTypeOK
<1>3. IssuedFirst'
  BY DEF IssuedFirst
<1>4. DiscountIsRecorded'
  <2>1. front[f].pc = "deleteUsage" => o \notin Live
    BY <1>1 DEF Sound, Returning, Live
  <2>2. Live' = Live
    BY DEF Live
  <2> QED BY <2>1, <2>2 DEF DiscountIsRecorded
<1>5. CouponLimitsKept'
  <2> SUFFICES ASSUME PerUserLimit > 0, NEW u \in Users
               PROVE  Cardinality(CountedUses(u)') <= PerUserLimit
    BY <1>1 DEF CouponLimitsKept
  <2>1. Cardinality(CountedUses(u)) <= PerUserLimit /\ PerUserLimit \in Nat
        /\ IsFiniteSet(CountedUses(u)) /\ Cardinality(CountedUses(u)) \in Nat
    BY Counts DEF CouponLimitsKept
  <2>2. CASE CountedUses(u)' \subseteq CountedUses(u)
    <3>1. Cardinality(CountedUses(u)') <= Cardinality(CountedUses(u))
          /\ Cardinality(CountedUses(u)') \in Nat
      BY <2>1, <2>2, FS_Subset, FS_CardinalityType
    <3> QED BY <2>1, <3>1
  <2>3. CASE ~(CountedUses(u)' \subseteq CountedUses(u))
    <3>1. u = Owner[o] /\ front[f].pc = "insertUsage" /\ o \notin CountedUses(u)
          /\ o \notin misread /\ CountedUses(u)' = CountedUses(u) \cup {o}
      BY <2>3 DEF UsagesOf, CountedUses
    <3>2. Cardinality(CountedUses(u)') = Cardinality(CountedUses(u)) + 1
      BY <2>1, <3>1, FS_AddElement
    <3>3. Cardinality(CountedUses(u)) < PerUserLimit
      BY <1>1, <3>1 DEF Sound
    <3> QED BY <2>1, <3>2, <3>3
  <2> QED BY <2>2, <2>3
<1>6. ASSUME NEW g \in Fronts \ {f} PROVE Sound(g)'
  <2>1. Sound(g)
    OBVIOUS
  <2>2. front[g].pc = "insertOrder" => front[g].order # o
    BY <2>1 DEF Sound, Creating, Alone
  <2>3. front[g].pc \in {"consume", "insertUsage"} => front[f].pc # "insertUsage"
    BY <1>1, <2>1 DEF Sound, Locked
  <2> QED BY <2>2, <2>3, OthersAreSound
<1> QED BY <1>2, <1>3, <1>4, <1>5, <1>6

LEMMA CouponSteps ==
    ASSUME SInv, NEW f \in Fronts, NEW o \in Orders,
           Consume(f, o) \/ InsertUsage(f, o) \/ Uncount(f, o) \/ DeleteUsage(f, o) \/ Decrement(f, o)
    PROVE  SInv'
<1> USE StorefrontAssumption DEF At
<1>1. /\ ShopTypeOK /\ stock \in Nat /\ Sound(f) /\ used \in Nat /\ TotalLimit \in Nat
      /\ IsFiniteSet(usages) /\ Cardinality(usages) \in Nat
      /\ IsFiniteSet(OnTheWay) /\ Cardinality(OnTheWay) \in Nat
      /\ Cardinality(usages) + Cardinality(OnTheWay) <= used /\ used <= TotalLimit
  BY Counts DEF SInv, ShopTypeOK, CouponLimitsKept
<1>2. disturbed \in BOOLEAN
  BY DEF SInv, ShopTypeOK
\* A front leaves the way, or enters it.
<1>3. ASSUME f \in OnTheWay, \A g \in Fronts \ {f} : front'[g] = front[g],
             front'[f].pc \notin {"insertUsage", "uncount", "decrement"}
      PROVE  Cardinality(OnTheWay') = Cardinality(OnTheWay) - 1 /\ Cardinality(OnTheWay) >= 1
  <2>1. OnTheWay' = OnTheWay \ {f}
    BY <1>3 DEF OnTheWay
  <2>2. Cardinality(OnTheWay') = Cardinality(OnTheWay) - 1 /\ IsFiniteSet(OnTheWay')
    BY <1>1, <1>3, <2>1, FS_RemoveElement
  <2>3. Cardinality(OnTheWay') \in Nat
    BY <2>2, FS_CardinalityType
  <2> QED BY <1>1, <2>2, <2>3
<1>4. ASSUME f \notin OnTheWay, \A g \in Fronts \ {f} : front'[g] = front[g],
             front'[f].pc \in {"insertUsage", "uncount", "decrement"}
      PROVE  Cardinality(OnTheWay') = Cardinality(OnTheWay) + 1
  <2>1. OnTheWay' = OnTheWay \cup {f}
    BY <1>4 DEF OnTheWay
  <2> QED BY <1>1, <1>4, <2>1, FS_AddElement
<1>5. \A q : (\A g \in Fronts \ {f} : front'[g] = front[g]) => (Alone(f, q)' <=> Alone(f, q))
  BY DEF Alone
<1>6. \A u : usages' = usages /\ misread' = misread => CountedUses(u)' = CountedUses(u)
  BY DEF UsagesOf, CountedUses
<1>7. ASSUME Return(f)
      PROVE  /\ front' \in [Fronts -> Front] /\ front'[f].pc = "idle" /\ Sound(f)'
             /\ \A g \in Fronts \ {f} : front'[g] = front[g]
  BY <1>1, <1>7, Returns DEF Sound, Locked, Creating, Returning
<1>8. CASE Consume(f, o)
  <2>1. front[f].pc = "consume" /\ front[f].order = o /\ mu = f
    BY <1>1, <1>8 DEF Consume, Sound, Locked
  <2>2. CASE used < TotalLimit
    <3>1. GoTo(f, "insertUsage") /\ used' = used + 1 /\ usages' = usages
          /\ UNCHANGED <<stock, issued, status, discounted, supplied, misread, disturbed, mu>>
      BY <1>8, <2>2 DEF Consume
    <3>2. /\ front' \in [Fronts -> Front] /\ front'[f].pc = "insertUsage"
          /\ front'[f].order = o /\ \A g \in Fronts \ {f} : front'[g] = front[g]
      BY <1>1, <2>1, <3>1, Goes DEF FrontPCs
    <3>3. Cardinality(OnTheWay') = Cardinality(OnTheWay) + 1
      BY <1>4, <2>1, <3>2 DEF OnTheWay
    <3>4. Sound(f)'
      BY <1>1, <1>5, <1>6, <2>1, <3>1, <3>2 DEF Sound, Locked, Creating, Returning
    <3> QED BY <1>1, <1>2, <2>1, <2>2, <3>1, <3>2, <3>3, <3>4, CouponStep
  <2>3. CASE ~(used < TotalLimit)
    BY <1>1, <1>2, <1>8, <2>1, <2>3, GoStep
       DEF Consume, Unlock, Creating, Returning, Locked
  <2> QED BY <2>2, <2>3
<1>9. CASE InsertUsage(f, o)
  <2>1. front[f].pc = "insertUsage" /\ front[f].order = o /\ mu = f /\ f \in OnTheWay
    BY <1>1, <1>9 DEF InsertUsage, Sound, Locked, OnTheWay
  <2>2. CASE usages' = usages \cup {o} /\ GoTo(f, "insertOrder") /\ Unlock
    <3>1. /\ front' \in [Fronts -> Front] /\ front'[f].pc = "insertOrder"
          /\ front'[f].order = o /\ \A g \in Fronts \ {f} : front'[g] = front[g]
      BY <1>1, <2>1, <2>2, Goes DEF FrontPCs
    <3>2. Cardinality(OnTheWay') = Cardinality(OnTheWay) - 1
      BY <1>3, <2>1, <3>1
    <3>3. Cardinality(usages') \in {Cardinality(usages), Cardinality(usages) + 1}
      <4>1. CASE o \in usages
        <5>1. usages' = usages
          BY <2>2, <4>1
        <5> QED BY <5>1
      <4>2. CASE o \notin usages
        BY <1>1, <2>2, <4>2, FS_AddElement
      <4> QED BY <4>1, <4>2
    <3>4. UNCHANGED <<stock, issued, status, discounted, used, supplied, misread, disturbed>>
      BY <1>9 DEF InsertUsage
    <3>5. Sound(f)'
      BY <1>1, <1>5, <2>1, <2>2, <3>1, <3>4 DEF Sound, Locked, Creating, Returning
    <3>6. used' \in 0 .. TotalLimit /\ Cardinality(usages') + Cardinality(OnTheWay') <= used'
      BY <1>1, <3>2, <3>3, <3>4
    <3>7. disturbed' \in BOOLEAN
      BY <1>2, <3>4
    <3> QED BY <2>1, <2>2, <3>1, <3>4, <3>5, <3>6, <3>7, CouponStep DEF Unlock
  <2>3. CASE GoTo(f, "uncount") /\ UNCHANGED <<usages, mu>>
    BY <1>1, <1>2, <1>9, <2>1, <2>3, GoStep DEF InsertUsage, Creating, Returning, Locked
  <2> QED BY <1>9, <2>2, <2>3 DEF InsertUsage
<1>10. CASE Uncount(f, o)
  <2>1. front[f].pc = "uncount" /\ front[f].order = o /\ mu = f /\ f \in OnTheWay
        /\ GoTo(f, "giveBack") /\ mu' = NoFront
        /\ UNCHANGED <<stock, issued, status, discounted, usages, supplied, misread>>
    BY <1>1, <1>10 DEF Uncount, Sound, Locked, OnTheWay, Unlock
  <2>2. /\ front' \in [Fronts -> Front] /\ front'[f].pc = "giveBack"
        /\ front'[f].order = o /\ \A g \in Fronts \ {f} : front'[g] = front[g]
    BY <1>1, <2>1, Goes DEF FrontPCs
  <2>3. Cardinality(OnTheWay') = Cardinality(OnTheWay) - 1 /\ Cardinality(OnTheWay) >= 1
    BY <1>3, <2>1, <2>2
  <2>4. Sound(f)'
    BY <1>1, <1>5, <1>6, <2>1, <2>2 DEF Sound, Locked, Creating, Returning
  <2>5. used' \in {used - 1, used}
    BY <1>10 DEF Uncount
  <2>6. disturbed' \in BOOLEAN
    BY <1>2, <1>10, Zenon DEF Uncount
  <2>7. used' \in 0 .. TotalLimit /\ Cardinality(usages') + Cardinality(OnTheWay') <= used'
    BY <1>1, <2>1, <2>3, <2>5
  <2> QED BY <2>1, <2>2, <2>4, <2>6, <2>7, CouponStep
<1>11. CASE DeleteUsage(f, o)
  <2>1. front[f].pc = "deleteUsage" /\ front[f].order = o /\ f \notin OnTheWay
        /\ usages' = usages \ {o}
        /\ UNCHANGED <<stock, issued, status, discounted, used, mu, supplied, misread, disturbed>>
    BY <1>11 DEF DeleteUsage, OnTheWay
  <2>2. CASE o \in usages
    <3>1. /\ front' \in [Fronts -> Front] /\ front'[f].pc = "decrement"
          /\ front'[f].order = o /\ \A g \in Fronts \ {f} : front'[g] = front[g]
      BY <1>1, <1>11, <2>1, <2>2, Goes DEF DeleteUsage, FrontPCs
    <3>2. Cardinality(OnTheWay') = Cardinality(OnTheWay) + 1
      BY <1>4, <2>1, <3>1
    <3>3. Cardinality(usages') = Cardinality(usages) - 1
      BY <1>1, <2>1, <2>2, FS_RemoveElement
    <3>4. Sound(f)'
      BY <1>1, <1>5, <2>1, <3>1 DEF Sound, Locked, Creating, Returning
    <3>5. used' \in 0 .. TotalLimit /\ Cardinality(usages') + Cardinality(OnTheWay') <= used'
      BY <1>1, <2>1, <3>2, <3>3
    <3>6. disturbed' \in BOOLEAN
      BY <1>2, <2>1
    <3> QED BY <2>1, <3>1, <3>4, <3>5, <3>6, CouponStep
  <2>3. CASE o \notin usages
    <3>1. Return(f) /\ usages' = usages
      BY <1>11, <2>1, <2>3 DEF DeleteUsage
    <3> QED BY <1>1, <1>2, <2>1, <3>1, ReturnStep
  <2> QED BY <2>2, <2>3
<1>12. CASE Decrement(f, o)
  <2>1. front[f].pc = "decrement" /\ front[f].order = o /\ f \in OnTheWay /\ Return(f)
        /\ UNCHANGED <<stock, issued, status, discounted, usages, mu, supplied, misread>>
    BY <1>12 DEF Decrement, OnTheWay
  <2>2. Cardinality(OnTheWay') = Cardinality(OnTheWay) - 1 /\ Cardinality(OnTheWay) >= 1
    BY <1>3, <1>7, <2>1
  <2>3. used' \in {used - 1, used}
    BY <1>12 DEF Decrement
  <2>4. disturbed' \in BOOLEAN
    BY <1>2, <1>12, Zenon DEF Decrement
  <2>5. used' \in 0 .. TotalLimit /\ Cardinality(usages') + Cardinality(OnTheWay') <= used'
    BY <1>1, <2>1, <2>2, <2>3
  <2> QED BY <1>7, <2>1, <2>4, <2>5, CouponStep
<1> QED BY <1>8, <1>9, <1>10, <1>11, <1>12

-----------------------------------------------------------------------------
(* The specification *)

LEMMA SStep == SInv /\ [ShopNext]_shopVars => SInv'
<1> SUFFICES ASSUME SInv, [ShopNext]_shopVars PROVE SInv'
  OBVIOUS
<1>1. CASE UNCHANGED shopVars
  <2>1. ShopTypeOK' /\ IssuedFirst' /\ DiscountIsRecorded'
    BY <1>1 DEF shopVars, SInv, ShopTypeOK, IssuedFirst, DiscountIsRecorded, Live
  <2>2. CouponLimitsKept'
    BY <1>1 DEF shopVars, SInv, CouponLimitsKept, OnTheWay, UsagesOf, CountedUses
  <2>3. ASSUME NEW f \in Fronts PROVE Sound(f)'
    BY <1>1 DEF shopVars, SInv, Sound, Alone, UsagesOf, CountedUses
  <2> QED BY <2>1, <2>2, <2>3 DEF SInv
<1>2. ASSUME NEW f \in Fronts, NEW o \in Orders, NEW coupon \in BOOLEAN, Quote(f, o, coupon)
      PROVE  SInv'
  BY <1>2, BeginStep
<1>3. ASSUME NEW f \in Fronts, NEW o \in Orders, LoadForCancel(f, o) PROVE SInv'
  BY <1>3, BeginStep
<1>4. ASSUME NEW f \in Fronts, NEW o \in Orders, Statement(f, o) PROVE SInv'
  BY <1>4, QuietSteps, CouponSteps, OrderSteps DEF Statement
<1>5. ASSUME NEW f \in Fronts, Abort(f) PROVE SInv'
  BY <1>5, AbortStep
<1>6. ASSUME NEW o \in Orders, Settle(o) PROVE SInv'
  BY <1>6, OrderSteps
<1>7. ASSUME NEW n \in 0 .. MaxSupply, UpdateSKU(n) PROVE SInv'
  BY <1>7, SupplyStep
<1> QED BY <1>1, <1>2, <1>3, <1>4, <1>5, <1>6, <1>7 DEF ShopNext

LEMMA SAlways == ShopSpec => []SInv
BY SInitially, SStep, PTL DEF ShopSpec

\* The tables and the fronts of the storefront keep their types; in particular the
\* stock and the counter of the coupon never go below zero.
THEOREM ShopTypes == ShopSpec => []ShopTypeOK
<1>1. SInv => ShopTypeOK
  BY DEF SInv
<1> QED BY <1>1, SAlways, PTL

\* However many requests redeem and give back the coupon at once, and wherever they
\* stop, neither its limit nor that of a user is exceeded, the latter but for uses whose
\* count failed: ConsumeCoupon holds the mutex from the count of a user's uses to the
\* INSERT, and the counter covers the recorded uses and those of the fronts on the way.
THEOREM CouponLimitsHold == ShopSpec => []CouponLimitsKept
<1>1. SInv => CouponLimitsKept
  BY DEF SInv
<1> QED BY <1>1, SAlways, PTL

\* An order with a discount that is not cancelled keeps its use of the coupon: whoever
\* gives a use back has seen its order cancelled, or works on an order number that has
\* no order and no other front.
THEOREM DiscountsAreRecorded == ShopSpec => []DiscountIsRecorded
<1>1. SInv => DiscountIsRecorded
  BY DEF SInv
<1> QED BY <1>1, SAlways, PTL

-----------------------------------------------------------------------------
(* Whose stock and whose use of the coupon it is *)

\* What a running request holds belongs to nobody else: to no order that lives, and to
\* no other request.
HoldersApart ==
    \A f \in Fronts : Holding(f) =>
        /\ front[f].order \notin Live
        /\ \A g \in Fronts \ {f} : Holding(g) => front[g].order # front[f].order

\* The supply is on stock or held, except for what was lost when something was cut off.
StockCounted ==
    /\ stock + Units(Held) <= supplied
    /\ ~disturbed => stock + Units(Held) = supplied

\* Who redeems the coupon has one.
CouponCarried == \A f \in Fronts : front[f].pc \in Locked \cup {"lock"} => front[f].coupon

\* A front that has recorded a use, or will delete it.
Covers(f) ==
    \/ front[f].pc = "insertOrder" /\ front[f].coupon
    \/ front[f].pc \in {"returnStock", "findUsage", "deleteUsage"}

\* Recorded uses are those of live orders, but for the ones a front works on.
UsesOwned ==
    ~disturbed => \A o \in usages : \/ o \in Live \cap discounted
                                   \/ \E f \in Fronts : Covers(f) /\ front[f].order = o

UsesCounted == ~disturbed => used = Cardinality(usages) + Cardinality(OnTheWay)

HInv == SInv /\ HoldersApart /\ StockCounted /\ CouponCarried /\ UsesOwned /\ UsesCounted

LEMMA HeldUnits ==
    ASSUME SInv
    PROVE  /\ Held \subseteq Orders /\ IsFiniteSet(Held)
           /\ \A x \in Held : Qty[x] \in Nat
           /\ Units(Held) \in Nat
<1>1. \A f \in Fronts : Holding(f) => front[f].order \in Orders
  BY DEF SInv, ShopTypeOK, Sound, Holding
<1>2. Held \subseteq Orders
  BY <1>1 DEF Held, Live
<1>3. IsFiniteSet(Held) /\ \A x \in Held : Qty[x] \in Nat
  BY <1>2, StorefrontAssumption, FS_Subset
<1> QED BY <1>2, <1>3, SumType DEF Units

\* The books of the stock stay balanced when the supply changes with the stock, units
\* are reserved, or units are returned or lost.
LEMMA StockMoves ==
    ASSUME SInv, SInv', StockCounted, disturbed => disturbed', NEW o \in Orders,
           \/ Held' = Held /\ stock' - supplied' = stock - supplied
           \/ /\ Held' = Held \cup {o} /\ o \notin Held
              /\ stock' = stock - Qty[o] /\ supplied' = supplied
           \/ /\ Held' = Held \ {o} /\ o \in Held /\ supplied' = supplied
              /\ stock' = stock + Qty[o] \/ (stock' = stock /\ disturbed')
    PROVE  StockCounted'
<1>1. /\ IsFiniteSet(Held) /\ \A x \in Held : Qty[x] \in Int
      /\ Units(Held) \in Nat /\ Units(Held') \in Nat
      /\ stock \in Nat /\ stock' \in Nat /\ supplied \in Nat /\ supplied' \in Nat
      /\ Qty[o] \in Nat
  <2>1. Units(Held)' = Units(Held')
    BY DEF Units
  <2>2. Units(Held)' \in Nat
    <3>1. Held' \subseteq Orders
      <4>1. \A f \in Fronts : Holding(f)' => front'[f].order \in Orders
        BY DEF SInv, ShopTypeOK, Sound, Holding
      <4> QED BY <4>1 DEF Held, Live
    <3>2. IsFiniteSet(Held') /\ \A x \in Held' : Qty[x] \in Nat
      BY <3>1, StorefrontAssumption, FS_Subset
    <3>3. SumFunctionOnSet(Qty, Held') \in Nat
      BY <3>2, SumType
    <3> QED BY <3>3 DEF Units
  <2> QED BY <2>1, <2>2, HeldUnits, StorefrontAssumption DEF SInv, ShopTypeOK
<1>2. Held' = Held \cup {o} /\ o \notin Held => Units(Held') = Qty[o] + Units(Held)
  BY <1>1, SumWith DEF Units
<1>3. Held' = Held \ {o} /\ o \in Held => Units(Held) = Qty[o] + Units(Held')
  BY <1>1, SumWithout DEF Units
<1>4. Units(Held)' = Units(Held')
  BY DEF Units
<1> QED BY <1>1, <1>2, <1>3, <1>4 DEF StockCounted

\* A front goes on: either it holds what it held, or what it holds is held by no other.
LEMMA HeldMoves ==
    ASSUME SInv, HoldersApart, NEW f \in Fronts, NEW o \in Orders, front[f].order = o,
           \A g \in Fronts \ {f} : front'[g] = front[g],
           front'[f].pc = "idle" \/ front'[f].order = o,
           \/ Live' = Live /\ (Holding(f)' <=> Holding(f))
           \/ /\ \A g \in Fronts \ {f} : Holding(g) => front[g].order # o
              /\ Live' \ {o} = Live \ {o} /\ ~(Holding(f)' /\ o \in Live')
    PROVE  /\ HoldersApart'
           /\ Live' = Live /\ (Holding(f)' <=> Holding(f)) => Held' = Held
           /\ (\A g \in Fronts \ {f} : Holding(g) => front[g].order # o)
              /\ Live' \ {o} = Live \ {o} /\ ~(Holding(f)' /\ o \in Live') =>
                  Held' = IF Holding(f)' \/ o \in Live' THEN Held \cup {o} ELSE Held \ {o}
<1>1. \A g \in Fronts \ {f} : (Holding(g)' <=> Holding(g)) /\ front'[g].order = front[g].order
  BY DEF Holding
<1>2. Holding(f)' => front'[f].order = o
  BY DEF Holding
<1>3. HoldersApart'
  BY <1>1, <1>2 DEF HoldersApart
<1>4. ASSUME Live' = Live, Holding(f)' <=> Holding(f) PROVE Held' = Held
  <2>1. \A q : q \in Held' <=> q \in Held
    BY <1>1, <1>2, <1>4 DEF Held
  <2> QED BY <2>1
<1>5. ASSUME \A g \in Fronts \ {f} : Holding(g) => front[g].order # o,
             Live' \ {o} = Live \ {o}, ~(Holding(f)' /\ o \in Live')
      PROVE  Held' = IF Holding(f)' \/ o \in Live' THEN Held \cup {o} ELSE Held \ {o}
  <2>1. \A q : q # o => (q \in Held' <=> q \in Held)
    BY <1>1, <1>2, <1>5 DEF Held
  <2>2. o \in Held' <=> (Holding(f)' \/ o \in Live')
    BY <1>1, <1>2, <1>5 DEF Held
  <2> QED BY <2>1, <2>2
<1> QED BY <1>3, <1>4, <1>5

\* A front goes on: its use of the coupon stays covered, or is deleted.
LEMMA UsesMove ==
    ASSUME UsesOwned, disturbed => disturbed', NEW f \in Fronts, NEW o, front[f].order = o,
           \A g \in Fronts \ {f} : front'[g] = front[g],
           front'[f].pc = "idle" \/ front'[f].order = o,
           usages' \subseteq usages \cup {o},
           Live' \ {o} = Live \ {o}, discounted' \ {o} = discounted \ {o},
           \/ o \notin usages'
           \/ Covers(f)'
           \/ o \in Live' \cap discounted'
           \/ /\ ~Covers(f) /\ usages' \subseteq usages
              /\ Live \subseteq Live' /\ discounted \subseteq discounted'
    PROVE  UsesOwned'
<1> SUFFICES ASSUME ~disturbed', NEW q \in usages'
             PROVE  \/ q \in Live' \cap discounted'
                    \/ \E g \in Fronts : Covers(g)' /\ front'[g].order = q
  BY DEF UsesOwned
<1>1. \A g \in Fronts \ {f} : (Covers(g)' <=> Covers(g)) /\ front'[g].order = front[g].order
  BY DEF Covers
<1>2. Covers(f)' => front'[f].order = o
  BY DEF Covers
<1>3. q \in usages => \/ q \in Live \cap discounted
                      \/ \E g \in Fronts : Covers(g) /\ front[g].order = q
  BY DEF UsesOwned
<1>4. CASE q # o
  BY <1>1, <1>3, <1>4
<1>5. CASE q = o
  BY <1>1, <1>2, <1>3, <1>5
<1> QED BY <1>4, <1>5

\* The counter of the coupon moves with the recorded uses and those on the way.
LEMMA UsesCount ==
    ASSUME SInv, UsesCounted, disturbed => disturbed', NEW f \in Fronts, NEW o,
           \A g \in Fronts \ {f} : front'[g] = front[g],
           \/ disturbed'
           \/ /\ used' = used /\ usages' = usages
              /\ f \in OnTheWay' <=> f \in OnTheWay
           \/ /\ used' = used + 1 /\ usages' = usages
              /\ f \in OnTheWay' /\ f \notin OnTheWay
           \/ /\ used' = used - 1 /\ usages' = usages
              /\ f \notin OnTheWay' /\ f \in OnTheWay
           \/ /\ used' = used /\ usages' = usages \cup {o} /\ o \notin usages
              /\ f \notin OnTheWay' /\ f \in OnTheWay
           \/ /\ used' = used /\ usages' = usages \ {o} /\ o \in usages
              /\ f \in OnTheWay' /\ f \notin OnTheWay
    PROVE  UsesCounted'
<1>1. /\ IsFiniteSet(usages) /\ Cardinality(usages) \in Nat
      /\ IsFiniteSet(OnTheWay) /\ Cardinality(OnTheWay) \in Nat /\ used \in Nat
  BY Counts DEF SInv, ShopTypeOK
<1>2. \A g \in Fronts \ {f} : g \in OnTheWay' <=> g \in OnTheWay
  BY DEF OnTheWay
<1>3. OnTheWay \subseteq Fronts /\ OnTheWay' \subseteq Fronts
  BY DEF OnTheWay
<1>4. (f \in OnTheWay' <=> f \in OnTheWay) => OnTheWay' = OnTheWay
  BY <1>2, <1>3
<1>5. f \in OnTheWay' /\ f \notin OnTheWay => Cardinality(OnTheWay') = Cardinality(OnTheWay) + 1
  <2>1. f \in OnTheWay' /\ f \notin OnTheWay => OnTheWay' = OnTheWay \cup {f}
    BY <1>2, <1>3
  <2> QED BY <1>1, <2>1, FS_AddElement
<1>6. f \notin OnTheWay' /\ f \in OnTheWay => Cardinality(OnTheWay') = Cardinality(OnTheWay) - 1
  <2>1. f \notin OnTheWay' /\ f \in OnTheWay => OnTheWay' = OnTheWay \ {f}
    BY <1>2, <1>3
  <2> QED BY <1>1, <2>1, FS_RemoveElement
<1>7. usages' = usages \cup {o} /\ o \notin usages => Cardinality(usages') = Cardinality(usages) + 1
  BY <1>1, FS_AddElement
<1>8. usages' = usages \ {o} /\ o \in usages => Cardinality(usages') = Cardinality(usages) - 1
  BY <1>1, FS_RemoveElement
<1>9. CASE disturbed'
  BY <1>9 DEF UsesCounted
<1>10. CASE used' = used /\ usages' = usages /\ (f \in OnTheWay' <=> f \in OnTheWay)
  BY <1>4, <1>10 DEF UsesCounted
<1>11. CASE used' = used + 1 /\ usages' = usages /\ f \in OnTheWay' /\ f \notin OnTheWay
  BY <1>1, <1>5, <1>11 DEF UsesCounted
<1>12. CASE used' = used - 1 /\ usages' = usages /\ f \notin OnTheWay' /\ f \in OnTheWay
  BY <1>1, <1>6, <1>12 DEF UsesCounted
<1>13. CASE /\ used' = used /\ usages' = usages \cup {o} /\ o \notin usages
            /\ f \notin OnTheWay' /\ f \in OnTheWay
  BY <1>1, <1>6, <1>7, <1>13 DEF UsesCounted
<1>14. CASE /\ used' = used /\ usages' = usages \ {o} /\ o \in usages
            /\ f \in OnTheWay' /\ f \notin OnTheWay
  BY <1>1, <1>5, <1>8, <1>14 DEF UsesCounted
<1> QED BY <1>9, <1>10, <1>11, <1>12, <1>13, <1>14

\* A front goes on with its order.
LEMMA HolderStep ==
    ASSUME HInv, SInv', disturbed => disturbed', NEW f \in Fronts, NEW o \in Orders,
           front[f].order = o,
           \A g \in Fronts \ {f} : front'[g] = front[g],
           \/ front'[f].pc = "idle"
           \/ front'[f].order = o /\ front'[f].coupon = front[f].coupon,
           front'[f].pc \in Locked \cup {"lock"} => front[f].coupon,
           \* what it holds, and the stock
           supplied' = supplied,
           \/ Live' = Live /\ (Holding(f)' <=> Holding(f)) /\ stock' = stock
           \/ /\ \A g \in Fronts \ {f} : Holding(g) => front[g].order # o
              /\ Live' \ {o} = Live \ {o} /\ ~(Holding(f)' /\ o \in Live')
              /\ \/ (Holding(f)' \/ o \in Live') /\ o \in Held /\ stock' = stock
                 \/ (Holding(f)' \/ o \in Live') /\ o \notin Held /\ stock' = stock - Qty[o]
                 \/ /\ ~(Holding(f)' \/ o \in Live') /\ o \in Held
                    /\ stock' = stock + Qty[o] \/ (stock' = stock /\ disturbed'),
           \* whose use it is
           usages' \subseteq usages \cup {o}, discounted' \ {o} = discounted \ {o},
           \/ o \notin usages'
           \/ Covers(f)'
           \/ o \in Live' \cap discounted'
           \/ /\ ~Covers(f) /\ usages' \subseteq usages
              /\ Live \subseteq Live' /\ discounted \subseteq discounted',
           UsesCounted'
    PROVE  HInv'
<1>1. /\ SInv /\ HoldersApart /\ StockCounted /\ CouponCarried /\ UsesOwned
      /\ stock \in Nat /\ supplied \in Nat /\ Qty[o] \in Nat
  BY StorefrontAssumption DEF HInv, SInv, ShopTypeOK
<1>2. /\ HoldersApart'
      /\ Live' = Live /\ (Holding(f)' <=> Holding(f)) => Held' = Held
      /\ (\A g \in Fronts \ {f} : Holding(g) => front[g].order # o)
         /\ Live' \ {o} = Live \ {o} /\ ~(Holding(f)' /\ o \in Live') =>
             Held' = IF Holding(f)' \/ o \in Live' THEN Held \cup {o} ELSE Held \ {o}
  BY <1>1, HeldMoves
<1>3. StockCounted'
  <2>1. CASE Held' = Held /\ stock' = stock
    BY <1>1, <2>1, StockMoves
  <2>2. CASE Held' = Held \cup {o} /\ o \notin Held /\ stock' = stock - Qty[o]
    BY <1>1, <2>2, StockMoves
  <2>3. CASE /\ Held' = Held \ {o} /\ o \in Held
             /\ stock' = stock + Qty[o] \/ (stock' = stock /\ disturbed')
    BY <1>1, <2>3, StockMoves
  <2>4. o \in Held => Held \cup {o} = Held
    OBVIOUS
  <2> QED BY <1>2, <2>1, <2>2, <2>3, <2>4
<1>4. CouponCarried'
  BY <1>1 DEF CouponCarried, Locked
<1>5. UsesOwned'
  <2>1. Live' \ {o} = Live \ {o}
    OBVIOUS
  <2> QED BY <1>1, <2>1, UsesMove
<1> QED BY <1>2, <1>3, <1>4, <1>5 DEF HInv

\* A front goes on and changes nothing but the mutex.
LEMMA QuietHolder ==
    ASSUME HInv, SInv', NEW f \in Fronts, NEW o \in Orders, front[f].order = o,
           NEW pc \in FrontPCs, GoTo(f, pc) \/ (pc = "idle" /\ Return(f)),
           UNCHANGED <<stock, issued, status, discounted, used, usages, supplied, disturbed>>,
           pc \in Locked \cup {"lock"} => front[f].coupon,
           Holding(f)' <=> Holding(f),
           f \in OnTheWay' <=> f \in OnTheWay,
           Covers(f) => Covers(f)' \/ o \notin usages
    PROVE  HInv'
<1>1. SInv /\ ShopTypeOK /\ UsesCounted
  BY DEF HInv, SInv
<1>2. /\ \A g \in Fronts \ {f} : front'[g] = front[g]
      /\ front'[f].pc = pc
      /\ front'[f].pc = "idle" \/ (front'[f].order = o /\ front'[f].coupon = front[f].coupon)
  BY <1>1, Goes, Returns
<1>3. Live' = Live
  BY DEF Live
<1>4. UsesCounted'
  BY <1>1, <1>2, UsesCount
<1> QED BY <1>1, <1>2, <1>3, <1>4, HolderStep

\* A front that holds an order is the only one; so is one that has drawn its number.
LEMMA OnlyHolder ==
    ASSUME HInv, NEW f \in Fronts, Holding(f) \/ front[f].pc \in Creating
    PROVE  \A g \in Fronts \ {f} : Holding(g) => front[g].order # front[f].order
<1>1. CASE Holding(f)
  BY <1>1 DEF HInv, HoldersApart
<1>2. CASE front[f].pc \in Creating
  BY <1>2 DEF HInv, SInv, Sound, Alone, Holding
<1> QED BY <1>1, <1>2

LEMMA HolderQuietSteps ==
    ASSUME HInv, SInv', NEW f \in Fronts, NEW o \in Orders,
           LockPromo(f, o) \/ Preview(f, o) \/ CountUsages(f, o) \/ FindUsage(f, o)
    PROVE  HInv'
<1> USE DEF At, FrontPCs, Holding, OnTheWay, Covers, Locked
<1>1. ShopTypeOK /\ CouponCarried
  BY DEF HInv, SInv
<1>2. \A pc \in FrontPCs : GoTo(f, pc) => front'[f].pc = pc /\ front'[f].coupon = front[f].coupon
  BY <1>1, Goes
<1>3. Return(f) => front'[f].pc = "idle"
  BY <1>1, Returns
<1>4. CASE LockPromo(f, o)
  BY <1>1, <1>2, <1>4, QuietHolder DEF LockPromo, CouponCarried
<1>5. CASE Preview(f, o)
  <2>1. CASE GoTo(f, "countUsages")
    BY <1>1, <1>2, <1>5, <2>1, QuietHolder DEF Preview, CouponCarried
  <2>2. CASE GoTo(f, "giveBack")
    BY <1>1, <1>2, <1>5, <2>2, QuietHolder DEF Preview
  <2> QED BY <1>5, <2>1, <2>2 DEF Preview
<1>6. CASE CountUsages(f, o)
  <2>1. CASE GoTo(f, "consume")
    BY <1>1, <1>2, <1>6, <2>1, QuietHolder DEF CountUsages, CouponCarried
  <2>2. CASE GoTo(f, "giveBack")
    BY <1>1, <1>2, <1>6, <2>2, QuietHolder DEF CountUsages
  <2> QED BY <1>6, <2>1, <2>2 DEF CountUsages
<1>7. CASE FindUsage(f, o)
  <2>1. CASE o \in usages
    BY <1>1, <1>2, <1>7, <2>1, QuietHolder DEF FindUsage
  <2>2. CASE o \notin usages
    BY <1>1, <1>3, <1>7, <2>2, QuietHolder DEF FindUsage
  <2> QED BY <2>1, <2>2
<1> QED BY <1>4, <1>5, <1>6, <1>7

\* Stock is reserved and returned.
LEMMA HolderStockSteps ==
    ASSUME HInv, SInv', NEW f \in Fronts, NEW o \in Orders,
           ReserveStock(f, o) \/ GiveBack(f, o) \/ ReturnStock(f, o)
    PROVE  HInv'
<1> USE DEF At, FrontPCs
<1>1. SInv /\ ShopTypeOK /\ Sound(f) /\ UsesCounted /\ HoldersApart
  BY DEF HInv, SInv
<1>2. \A pc \in FrontPCs : GoTo(f, pc) =>
          /\ front'[f].pc = pc /\ front'[f].order = front[f].order
          /\ front'[f].coupon = front[f].coupon
          /\ \A g \in Fronts \ {f} : front'[g] = front[g]
  BY <1>1, Goes
<1>3. Return(f) => front'[f].pc = "idle" /\ \A g \in Fronts \ {f} : front'[g] = front[g]
  BY <1>1, Returns
<1>4. UNCHANGED <<issued, status, discounted, used, usages, supplied, misread>> /\ Live' = Live
  BY DEF ReserveStock, GiveBack, ReturnStock, Live
<1>5. front[f].order = o /\ front[f].pc \in {"reserve", "giveBack", "returnStock"}
  BY DEF ReserveStock, GiveBack, ReturnStock
<1>6. \A g \in Fronts \ {f} : Holding(g) => front[g].order # o
  BY <1>5, OnlyHolder DEF Holding, Creating
<1>7. Holding(f) <=> front[f].pc # "reserve"
  BY <1>5 DEF Holding
<1>8. o \notin Live
  BY <1>1, <1>5, <1>7 DEF Sound, Creating, Live, HoldersApart
<1>9. o \in Held <=> Holding(f)
  BY <1>5, <1>6, <1>8 DEF Held
<1>10. \A g \in Fronts \ {f} : front'[g] = front[g]
  BY <1>2, <1>3 DEF ReserveStock, GiveBack, ReturnStock
<1>11. (f \in OnTheWay' <=> f \in OnTheWay) => UsesCounted'
  <2>1. disturbed => disturbed'
    BY DEF ReserveStock, GiveBack, ReturnStock, ReleaseStock
  <2> QED BY <1>1, <1>4, <1>10, <2>1, UsesCount
<1>12. CASE ReserveStock(f, o)
  <2>1. CASE stock >= Qty[o]
    <3>1. PICK pc \in {"lock", "insertOrder"} : GoTo(f, pc) /\ (pc = "lock" => front[f].coupon)
      BY <1>12, <2>1 DEF ReserveStock
    <3>2. /\ Holding(f)' /\ ~Covers(f) /\ (f \in OnTheWay' <=> f \in OnTheWay)
          /\ front'[f].order = o /\ front'[f].coupon = front[f].coupon
          /\ front'[f].pc \in Locked \cup {"lock"} => front[f].coupon
      BY <1>2, <1>12, <3>1 DEF ReserveStock, Holding, Covers, OnTheWay, Locked
    <3>3. stock' = stock - Qty[o] /\ disturbed' = disturbed
      BY <1>12, <2>1 DEF ReserveStock
    <3> QED BY <1>4, <1>5, <1>6, <1>8, <1>9, <1>10, <1>11, <1>12, <3>2, <3>3, HolderStep, <1>7
            DEF ReserveStock
  <2>2. CASE ~(stock >= Qty[o])
    <3>1. Return(f) /\ UNCHANGED <<stock, disturbed>>
      BY <1>12, <2>2 DEF ReserveStock
    <3>2. /\ ~Holding(f)' /\ ~Covers(f) /\ (f \in OnTheWay' <=> f \in OnTheWay)
          /\ front'[f].pc \notin Locked \cup {"lock"}
      BY <1>3, <1>12, <3>1 DEF ReserveStock, Holding, Covers, OnTheWay, Locked
    <3>3. ~Holding(f)
      BY <1>7, <1>12 DEF ReserveStock
    <3> QED BY <1>3, <1>4, <1>5, <3>3, <1>10, <1>11, <3>1, <3>2, HolderStep
  <2> QED BY <2>1, <2>2
<1>13. ASSUME ReleaseStock(o)
       PROVE  (stock' = stock + Qty[o] \/ (stock' = stock /\ disturbed')) /\ (disturbed => disturbed')
  BY <1>13 DEF ReleaseStock
<1>14. CASE GiveBack(f, o)
  <2>1. Return(f) /\ ReleaseStock(o) /\ Holding(f)
    BY <1>7, <1>14 DEF GiveBack
  <2>2. /\ ~Holding(f)' /\ ~Covers(f) /\ (f \in OnTheWay' <=> f \in OnTheWay)
        /\ front'[f].pc \notin Locked \cup {"lock"}
    BY <1>3, <1>14, <2>1 DEF GiveBack, Holding, Covers, OnTheWay, Locked
  <2> QED BY <1>3, <1>4, <1>5, <1>6, <1>8, <1>9, <1>10, <1>11, <1>13, <2>1, <2>2, HolderStep
<1>15. CASE ReturnStock(f, o)
  <2>1. GoTo(f, "findUsage") /\ ReleaseStock(o) /\ Holding(f)
    BY <1>7, <1>15 DEF ReturnStock
  <2>2. /\ ~Holding(f)' /\ Covers(f)' /\ (f \in OnTheWay' <=> f \in OnTheWay)
        /\ front'[f].order = o /\ front'[f].coupon = front[f].coupon
        /\ front'[f].pc \notin Locked \cup {"lock"}
    BY <1>2, <1>5, <1>15, <2>1 DEF ReturnStock, Holding, Covers, OnTheWay, Locked
  <2> QED BY <1>4, <1>5, <1>6, <1>8, <1>9, <1>10, <1>11, <1>13, <2>1, <2>2, HolderStep
<1> QED BY <1>12, <1>14, <1>15

\* Uses are counted, recorded and given back.
LEMMA HolderCouponSteps ==
    ASSUME HInv, SInv', NEW f \in Fronts, NEW o \in Orders,
           Consume(f, o) \/ InsertUsage(f, o) \/ Uncount(f, o) \/ DeleteUsage(f, o) \/ Decrement(f, o)
    PROVE  HInv'
<1> USE DEF At, FrontPCs
<1>1. /\ SInv /\ ShopTypeOK /\ Sound(f) /\ UsesCounted /\ HoldersApart /\ CouponCarried /\ UsesOwned
      /\ used \in Nat
  BY DEF HInv, SInv, ShopTypeOK
<1>2. \A pc \in FrontPCs : GoTo(f, pc) =>
          /\ front'[f].pc = pc /\ front'[f].order = front[f].order
          /\ front'[f].coupon = front[f].coupon
          /\ \A g \in Fronts \ {f} : front'[g] = front[g]
  BY <1>1, Goes
<1>3. Return(f) => front'[f].pc = "idle" /\ \A g \in Fronts \ {f} : front'[g] = front[g]
  BY <1>1, Returns
<1>4. /\ UNCHANGED <<stock, issued, status, discounted, supplied, misread>> /\ Live' = Live
      /\ usages' \subseteq usages \cup {o} /\ (disturbed => disturbed')
  BY DEF Consume, InsertUsage, Uncount, DeleteUsage, Decrement, Live
<1>5. front[f].order = o
  BY DEF Consume, InsertUsage, Uncount, DeleteUsage, Decrement
<1>6. \A g \in Fronts \ {f} : front'[g] = front[g]
  BY <1>2, <1>3 DEF Consume, InsertUsage, Uncount, DeleteUsage, Decrement
\* What is left to show for a step.
<1>7. ASSUME front'[f].pc = "idle" \/ (front'[f].order = o /\ front'[f].coupon = front[f].coupon),
             front'[f].pc \in Locked \cup {"lock"} => front[f].coupon,
             Holding(f)' <=> Holding(f),
             o \notin usages' \/ Covers(f)' \/ (~Covers(f) /\ usages' \subseteq usages),
             UsesCounted'
      PROVE  HInv'
  <2>1. stock' = stock /\ supplied' = supplied /\ discounted' = discounted
    BY <1>4
  <2> QED BY <1>4, <1>5, <1>6, <1>7, <2>1, HolderStep
<1>8. CASE Consume(f, o)
  <2>1. CASE used < TotalLimit
    <3>1. GoTo(f, "insertUsage") /\ used' = used + 1 /\ usages' = usages /\ front[f].pc = "consume"
      BY <1>8, <2>1 DEF Consume
    <3>2. /\ front'[f].order = o /\ front'[f].coupon = front[f].coupon /\ front[f].coupon
          /\ (Holding(f)' <=> Holding(f)) /\ ~Covers(f) /\ f \in OnTheWay' /\ f \notin OnTheWay
      BY <1>1, <1>2, <1>5, <3>1 DEF Holding, Covers, OnTheWay, CouponCarried, Locked
    <3>3. UsesCounted'
      BY <1>1, <1>4, <1>6, <3>1, <3>2, UsesCount
    <3> QED BY <1>7, <3>1, <3>2, <3>3
  <2>2. CASE ~(used < TotalLimit)
    <3>1. GoTo(f, "giveBack") /\ UNCHANGED <<used, usages, disturbed>> /\ front[f].pc = "consume"
      BY <1>8, <2>2 DEF Consume
    <3>2. /\ front'[f].pc \notin Locked \cup {"lock"} /\ (Holding(f)' <=> Holding(f)) /\ ~Covers(f)
          /\ f \notin OnTheWay' /\ f \notin OnTheWay
          /\ front'[f].order = o /\ front'[f].coupon = front[f].coupon
      BY <1>2, <1>5, <3>1 DEF Holding, Covers, OnTheWay, Locked
    <3>3. UsesCounted'
      BY <1>1, <1>4, <1>6, <3>1, <3>2, UsesCount
    <3> QED BY <1>7, <3>1, <3>2, <3>3
  <2> QED BY <2>1, <2>2
<1>9. CASE InsertUsage(f, o)
  <2>1. front[f].pc = "insertUsage" /\ front[f].coupon /\ used' = used
    BY <1>1, <1>9 DEF InsertUsage, CouponCarried, Locked
  <2>2. CASE usages' = usages \cup {o} /\ GoTo(f, "insertOrder")
    <3>1. /\ front'[f].order = o /\ front'[f].coupon = front[f].coupon
          /\ (Holding(f)' <=> Holding(f)) /\ Covers(f)' /\ f \notin OnTheWay' /\ f \in OnTheWay
      BY <1>2, <1>5, <2>1, <2>2 DEF Holding, Covers, OnTheWay
    <3>2. ~disturbed => o \notin usages
      <4>1. o \notin Live
        BY <1>1, <1>5, <2>1 DEF HoldersApart, Holding
      <4>2. \A g \in Fronts : Covers(g) => front[g].order # o
        BY <1>1, <1>5, <2>1 DEF Sound, Creating, Locked, Alone, Covers
      <4> QED BY <1>1, <4>1, <4>2 DEF UsesOwned
    <3>3. UsesCounted'
      <4>1. CASE disturbed
        BY <1>4, <4>1 DEF UsesCounted
      <4>2. CASE ~disturbed
        BY <1>1, <1>4, <1>6, <2>1, <2>2, <3>1, <3>2, <4>2, UsesCount
      <4> QED BY <4>1, <4>2
    <3> QED BY <1>7, <2>1, <3>1, <3>3
  <2>3. CASE GoTo(f, "uncount") /\ UNCHANGED <<usages, mu>>
    <3>1. /\ (Holding(f)' <=> Holding(f)) /\ ~Covers(f) /\ f \in OnTheWay' /\ f \in OnTheWay
      BY <1>2, <2>1, <2>3 DEF Holding, Covers, OnTheWay
    <3>2. disturbed' = disturbed
      BY <1>9 DEF InsertUsage
    <3> QED BY <1>4, <1>5, <2>1, <2>3, <3>1, <3>2, QuietHolder
  <2> QED BY <1>9, <2>2, <2>3 DEF InsertUsage
<1>10. CASE Uncount(f, o)
  <2>1. /\ GoTo(f, "giveBack") /\ usages' = usages /\ front[f].pc = "uncount"
        /\ used' = used - 1 \/ disturbed'
    BY <1>10 DEF Uncount
  <2>2. /\ front'[f].order = o /\ front'[f].coupon = front[f].coupon
        /\ front'[f].pc \notin Locked \cup {"lock"}
        /\ (Holding(f)' <=> Holding(f)) /\ ~Covers(f) /\ f \notin OnTheWay' /\ f \in OnTheWay
    BY <1>2, <1>5, <2>1 DEF Holding, Covers, OnTheWay, Locked
  <2>3. UsesCounted'
    BY <1>1, <1>4, <1>6, <2>1, <2>2, UsesCount
  <2> QED BY <1>7, <2>1, <2>2, <2>3
<1>11. CASE DeleteUsage(f, o)
  <2>1. usages' = usages \ {o} /\ used' = used /\ front[f].pc = "deleteUsage" /\ f \notin OnTheWay
    BY <1>11 DEF DeleteUsage, OnTheWay
  <2>2. CASE o \in usages
    <3>1. GoTo(f, "decrement")
      BY <1>11, <2>2 DEF DeleteUsage
    <3>2. /\ front'[f].order = o /\ front'[f].coupon = front[f].coupon
          /\ front'[f].pc \notin Locked \cup {"lock"}
          /\ (Holding(f)' <=> Holding(f)) /\ f \in OnTheWay'
      BY <1>2, <1>5, <2>1, <3>1 DEF Holding, OnTheWay, Locked
    <3>3. UsesCounted'
      BY <1>1, <1>4, <1>6, <2>1, <2>2, <3>2, UsesCount
    <3> QED BY <1>7, <2>1, <3>2, <3>3
  <2>3. CASE o \notin usages
    <3>1. Return(f) /\ usages' = usages
      BY <1>11, <2>1, <2>3 DEF DeleteUsage
    <3>2. /\ front'[f].pc = "idle" /\ front'[f].pc \notin Locked \cup {"lock"}
          /\ (Holding(f)' <=> Holding(f)) /\ f \notin OnTheWay'
      BY <1>3, <2>1, <3>1 DEF Holding, OnTheWay, Locked
    <3>3. UsesCounted'
      BY <1>1, <1>4, <1>6, <2>1, <3>1, <3>2, UsesCount
    <3> QED BY <1>7, <2>1, <3>2, <3>3
  <2> QED BY <2>2, <2>3
<1>12. CASE Decrement(f, o)
  <2>1. Return(f) /\ usages' = usages /\ front[f].pc = "decrement" /\ f \in OnTheWay
    BY <1>12 DEF Decrement, OnTheWay
  <2>2. /\ front'[f].pc = "idle" /\ front'[f].pc \notin Locked \cup {"lock"}
        /\ (Holding(f)' <=> Holding(f)) /\ ~Covers(f) /\ f \notin OnTheWay'
    BY <1>3, <2>1 DEF Holding, Covers, OnTheWay, Locked
  <2>3. used > 0
    <3>1. Cardinality(usages) \in Nat /\ Cardinality(OnTheWay) \in Nat /\ IsFiniteSet(OnTheWay)
          /\ Cardinality(usages) + Cardinality(OnTheWay) <= used
      BY <1>1, Counts DEF SInv, CouponLimitsKept
    <3>2. Cardinality(OnTheWay) # 0
      BY <2>1, <3>1, FS_EmptySet
    <3> QED BY <1>1, <3>1, <3>2
  <2>4. used' = used - 1 \/ disturbed'
    BY <1>12, <2>3 DEF Decrement
  <2>5. UsesCounted'
    BY <1>1, <1>4, <1>6, <2>1, <2>2, <2>4, UsesCount
  <2> QED BY <1>7, <2>1, <2>2, <2>5
<1> QED BY <1>8, <1>9, <1>10, <1>11, <1>12

\* Orders are inserted and cancelled.
LEMMA HolderOrderSteps ==
    ASSUME HInv, SInv', NEW f \in Fronts, NEW o \in Orders, InsertOrder(f, o) \/ CancelStatus(f, o)
    PROVE  HInv'
<1> USE DEF At, FrontPCs
<1>1. /\ SInv /\ ShopTypeOK /\ Sound(f) /\ UsesCounted /\ HoldersApart
      /\ status \in [Orders -> {"none", "pending_payment", "paid", "cancelled"}]
  BY DEF HInv, SInv, ShopTypeOK
<1>2. \A pc \in FrontPCs : GoTo(f, pc) =>
          /\ front'[f].pc = pc /\ front'[f].order = front[f].order
          /\ front'[f].coupon = front[f].coupon
          /\ \A g \in Fronts \ {f} : front'[g] = front[g]
  BY <1>1, Goes
<1>3. Return(f) => front'[f].pc = "idle" /\ \A g \in Fronts \ {f} : front'[g] = front[g]
  BY <1>1, Returns
<1>4. /\ UNCHANGED <<stock, issued, used, usages, supplied, misread, disturbed>>
      /\ front[f].order = o
  BY DEF InsertOrder, CancelStatus
<1>5. /\ \A g \in Fronts \ {f} : front'[g] = front[g]
      /\ f \notin OnTheWay /\ f \notin OnTheWay' /\ front'[f].pc \notin Locked \cup {"lock"}
  BY <1>2, <1>3 DEF InsertOrder, CancelStatus, OnTheWay, Locked
<1>6. UsesCounted'
  BY <1>1, <1>4, <1>5, UsesCount
<1>7. CASE InsertOrder(f, o)
  <2>1. Holding(f) /\ o \in Held /\ front[f].pc = "insertOrder"
    BY <1>4, <1>7 DEF InsertOrder, Holding, Held
  <2>2. /\ \A g \in Fronts \ {f} : Holding(g) => front[g].order # o
        /\ o \notin Live
    BY <1>1, <1>4, <2>1 DEF HoldersApart
  <2>3. CASE /\ status' = [status EXCEPT ![o] = "pending_payment"]
             /\ discounted' = IF front[f].coupon THEN discounted \cup {o} ELSE discounted
             /\ Return(f)
    <3>1. Live' = Live \cup {o}
      BY <1>1, <2>3 DEF Live
    <3>2. ~Holding(f)' /\ front'[f].pc = "idle" /\ (~front[f].coupon => ~Covers(f))
      BY <1>3, <2>1, <2>3 DEF Holding, Covers
    <3>3. o \in Live' \cap discounted' \/ (~Covers(f) /\ Live \subseteq Live' /\ discounted \subseteq discounted')
      BY <2>3, <3>1, <3>2
    <3>4. discounted' \ {o} = discounted \ {o}
      BY <2>3
    <3> HIDE DEF At, FrontPCs
    <3> QED BY <1>4, <1>5, <1>6, <2>1, <2>2, <3>1, <3>2, <3>3, <3>4, HolderStep
  <2>4. CASE GoTo(f, "returnStock") /\ UNCHANGED <<status, discounted>>
    <3>1. Holding(f)' /\ Covers(f)' /\ Live' = Live
          /\ front'[f].order = o /\ front'[f].coupon = front[f].coupon
      BY <1>2, <1>4, <2>4 DEF Holding, Covers, Live
    <3> QED BY <1>4, <1>5, <1>6, <2>1, <2>4, <3>1, HolderStep
  <2> QED BY <1>7, <2>3, <2>4 DEF InsertOrder
<1>8. CASE CancelStatus(f, o)
  <2>1. ~Holding(f) /\ ~Covers(f) /\ discounted' = discounted
    BY <1>8 DEF CancelStatus, Holding, Covers
  <2>2. CASE status[o] = "pending_payment"
    <3>1. status' = [status EXCEPT ![o] = "cancelled"] /\ GoTo(f, "returnStock")
      BY <1>8, <2>2 DEF CancelStatus
    <3>2. Live' = Live \ {o} /\ o \in Live /\ o \in Held
      BY <1>1, <2>2, <3>1 DEF Live, Held
    <3>3. Holding(f)' /\ Covers(f)' /\ front'[f].order = o /\ front'[f].coupon = front[f].coupon
      BY <1>2, <1>4, <3>1 DEF Holding, Covers
    <3>4. \A g \in Fronts \ {f} : Holding(g) => front[g].order # o
      BY <1>1, <3>2 DEF HoldersApart
    <3> QED BY <1>4, <1>5, <1>6, <2>1, <3>2, <3>3, <3>4, HolderStep
  <2>3. CASE status[o] # "pending_payment"
    <3>1. Return(f) /\ status' = status
      BY <1>8, <2>3 DEF CancelStatus
    <3>2. ~Holding(f)'
      BY <1>3, <3>1 DEF Holding
    <3> QED BY <1>4, <1>5, <2>1, <3>1, <3>2, <1>3, QuietHolder
  <2> QED BY <2>2, <2>3
<1> QED BY <1>7, <1>8

\* A front begins with an order.
LEMMA HolderBegins ==
    ASSUME HInv, SInv', NEW f \in Fronts, NEW o \in Orders, NEW coupon \in BOOLEAN,
           Quote(f, o, coupon) \/ LoadForCancel(f, o)
    PROVE  HInv'
<1>1. PICK pc \in {"reserve", "cancel"}, c \in BOOLEAN :
          /\ Begin(f, pc, o, c)
          /\ UNCHANGED <<stock, status, discounted, used, usages, supplied, misread, disturbed>>
  BY DEF Quote, LoadForCancel
<1>2. /\ front \in [Fronts -> Front] /\ front[f].pc = "idle"
      /\ front'[f].pc = pc /\ \A g \in Fronts \ {f} : front'[g] = front[g]
  BY <1>1, FreeType DEF HInv, SInv, ShopTypeOK, Begin
<1>3. \A g \in Fronts : /\ (Holding(g)' <=> Holding(g)) /\ (Holding(g) => g # f)
                        /\ (Covers(g)' <=> Covers(g)) /\ (Covers(g) => g # f)
                        /\ (g \in OnTheWay' <=> g \in OnTheWay)
  BY <1>2 DEF Holding, Covers, OnTheWay
<1>4. Live' = Live
  BY <1>1 DEF Live
<1>5. HoldersApart'
  BY <1>2, <1>3, <1>4 DEF HInv, HoldersApart
<1>6. StockCounted'
  <2>1. Held' = Held
    <3>1. \A q : q \in Held' <=> q \in Held
      BY <1>2, <1>3, <1>4 DEF Held
    <3> QED BY <3>1
  <2> QED BY <1>1, <2>1, StockMoves DEF HInv, SInv, ShopTypeOK
<1>7. CouponCarried'
  BY <1>2 DEF HInv, CouponCarried, Locked
<1>8. UsesOwned'
  <2>1. \A q : (\E g \in Fronts : Covers(g)' /\ front'[g].order = q)
               <=> (\E g \in Fronts : Covers(g) /\ front[g].order = q)
    BY <1>2, <1>3
  <2> QED BY <1>1, <1>4, <2>1 DEF HInv, UsesOwned
<1>9. UsesCounted'
  <2>1. OnTheWay' = OnTheWay
    BY <1>3 DEF OnTheWay
  <2> QED BY <1>1, <2>1 DEF HInv, UsesCounted
<1> QED BY <1>5, <1>6, <1>7, <1>8, <1>9 DEF HInv

\* A front is cut off: what it held is lost.
LEMMA HolderAborts ==
    ASSUME HInv, SInv', NEW f \in Fronts, Abort(f)
    PROVE  HInv'
<1>1. /\ ShopTypeOK /\ Sound(f) /\ SInv /\ HoldersApart /\ UsesCounted
  BY DEF HInv, SInv
<1>2. /\ front'[f].pc = "idle" /\ \A g \in Fronts \ {f} : front'[g] = front[g]
      /\ disturbed' = TRUE /\ UNCHANGED <<stock, issued, status, discounted, used, usages, supplied, misread>>
  BY <1>1, Returns DEF Abort
<1>3. \A g \in Fronts \ {f} : (Holding(g)' <=> Holding(g)) /\ front'[g].order = front[g].order
  BY <1>2 DEF Holding
<1>4. Live' = Live /\ ~Holding(f)'
  BY <1>2 DEF Live, Holding
<1>5. HoldersApart'
  BY <1>3, <1>4 DEF HInv, HoldersApart
<1>6. StockCounted'
  <2>1. CASE ~Holding(f)
    <3>1. \A q : q \in Held' <=> q \in Held
      BY <1>3, <1>4, <2>1 DEF Held
    <3>2. Held' = Held
      BY <3>1
    <3>3. Units(Held)' = Units(Held)
      BY <3>2 DEF Units
    <3> QED BY <1>2, <3>3 DEF HInv, StockCounted
  <2>2. CASE Holding(f)
    <3>1. front[f].order \in Orders
      BY <1>1, <2>2 DEF Sound, Holding, SInv, ShopTypeOK
    <3>2. \A q : q \in Held' <=> q \in Held \ {front[f].order}
      BY <1>1, <1>3, <1>4, <2>2 DEF Held, HoldersApart
    <3>3. Held' = Held \ {front[f].order} /\ front[f].order \in Held
      BY <2>2, <3>2 DEF Held
    <3> QED BY <1>1, <1>2, <3>1, <3>3, StockMoves DEF HInv
  <2> QED BY <2>1, <2>2
<1>7. CouponCarried'
  BY <1>2 DEF HInv, CouponCarried, Locked
<1>8. UsesOwned' /\ UsesCounted'
  BY <1>2 DEF UsesOwned, UsesCounted
<1> QED BY <1>1, <1>5, <1>6, <1>7, <1>8 DEF HInv

\* The rest of the system: the cashier settles orders, an administrator writes the stock.
LEMMA HolderEnvironment ==
    ASSUME HInv, SInv', UNCHANGED <<front, discounted, used, usages, disturbed>>, Live' = Live,
           stock' - supplied' = stock - supplied
    PROVE  HInv'
<1>1. /\ \A f \in Fronts : (Holding(f)' <=> Holding(f)) /\ (Covers(f)' <=> Covers(f))
      /\ OnTheWay' = OnTheWay
  BY DEF Holding, Covers, OnTheWay
<1>2. HoldersApart' /\ CouponCarried'
  BY <1>1 DEF HInv, HoldersApart, CouponCarried
<1>3. UsesOwned' /\ UsesCounted'
  BY <1>1 DEF HInv, UsesOwned, UsesCounted
<1>4. Held' = Held
  BY <1>1 DEF Held
<1>5. StockCounted'
  <2>1. Units(Held)' = Units(Held)
    BY <1>4 DEF Units
  <2>2. /\ Units(Held) \in Nat /\ stock \in Nat /\ stock' \in Nat
        /\ supplied \in Nat /\ supplied' \in Nat
    BY HeldUnits DEF HInv, SInv, ShopTypeOK
  <2>3. PICK u \in Nat, s \in Nat, t \in Nat, r \in Nat, q \in Nat :
            u = Units(Held) /\ s = stock /\ t = stock' /\ r = supplied /\ q = supplied'
    BY <2>2
  <2>4. t - q = s - r
    BY <2>3
  <2>5. (t + u <= q <=> s + u <= r) /\ (t + u = q <=> s + u = r)
    BY <2>4
  <2> QED BY <2>1, <2>3, <2>5 DEF HInv, StockCounted
<1> QED BY <1>2, <1>3, <1>5 DEF HInv

LEMMA HInitially == ShopInit => HInv
<1> SUFFICES ASSUME ShopInit PROVE HInv
  OBVIOUS
<1>1. /\ SInv /\ \A f \in Fronts : front[f].pc = "idle"
      /\ stock = FirstStock /\ supplied = FirstStock /\ FirstStock \in Nat
      /\ used = 0 /\ usages = {}
  BY SInitially, FreeType, StorefrontAssumption DEF ShopInit
<1>2. HoldersApart /\ CouponCarried /\ UsesOwned
  BY <1>1 DEF HoldersApart, CouponCarried, UsesOwned, Holding, Locked
<1>3. StockCounted
  <2>1. Held = {}
    BY <1>1 DEF Held, Live, Holding, ShopInit
  <2>2. Units({}) = 0
    BY SumOfNone DEF Units
  <2> QED BY <1>1, <2>1, <2>2 DEF StockCounted
<1>4. UsesCounted
  <2>1. OnTheWay = {}
    BY <1>1 DEF OnTheWay
  <2> QED BY <1>1, <2>1, FS_EmptySet DEF UsesCounted
<1> QED BY <1>1, <1>2, <1>3, <1>4 DEF HInv

LEMMA HStep == HInv /\ [ShopNext]_shopVars => HInv'
<1> SUFFICES ASSUME HInv, [ShopNext]_shopVars PROVE HInv'
  OBVIOUS
<1>1. SInv' /\ stock \in Nat /\ supplied \in Nat
  BY SStep DEF HInv, SInv, ShopTypeOK
<1>2. CASE UNCHANGED shopVars
  <2>1. Live' = Live
    BY <1>2 DEF shopVars, Live
  <2> QED BY <1>1, <1>2, <2>1, HolderEnvironment DEF shopVars
<1>3. ASSUME NEW f \in Fronts, NEW o \in Orders, NEW coupon \in BOOLEAN, Quote(f, o, coupon)
      PROVE  HInv'
  BY <1>1, <1>3, HolderBegins
<1>4. ASSUME NEW f \in Fronts, NEW o \in Orders, LoadForCancel(f, o) PROVE HInv'
  BY <1>1, <1>4, HolderBegins
<1>5. ASSUME NEW f \in Fronts, NEW o \in Orders, Statement(f, o) PROVE HInv'
  BY <1>1, <1>5, HolderQuietSteps, HolderStockSteps, HolderCouponSteps, HolderOrderSteps DEF Statement
<1>6. ASSUME NEW f \in Fronts, Abort(f) PROVE HInv'
  BY <1>1, <1>6, HolderAborts
<1>7. ASSUME NEW o \in Orders, Settle(o) PROVE HInv'
  <2>1. Live' = Live
    BY <1>7 DEF Settle, HInv, SInv, ShopTypeOK, Live
  <2> QED BY <1>1, <1>7, <2>1, HolderEnvironment DEF Settle
<1>8. ASSUME NEW n \in 0 .. MaxSupply, UpdateSKU(n) PROVE HInv'
  <2>1. Live' = Live /\ stock' - supplied' = stock - supplied
    <3>1. n \in Int /\ stock' = n /\ supplied' = supplied + n - stock
      BY <1>8, StorefrontAssumption DEF UpdateSKU
    <3> QED BY <1>1, <1>8, <3>1 DEF UpdateSKU, Live
  <2> QED BY <1>1, <1>8, <2>1, HolderEnvironment DEF UpdateSKU
<1> QED BY <1>2, <1>3, <1>4, <1>5, <1>6, <1>7, <1>8 DEF ShopNext

LEMMA HAlways == ShopSpec => []HInv
BY HInitially, HStep, PTL DEF ShopSpec

\* However many requests place and cancel orders at once, and wherever they fail or are
\* cut off, never more is sold than was put on sale: a reserved unit has one holder, a
\* request or an order, until it is returned once.
THEOREM NeverOversold == ShopSpec => []NotOversold
<1>1. HInv => NotOversold
  BY DEF HInv, SInv, ShopTypeOK, StockCounted, NotOversold
<1> QED BY <1>1, HAlways, PTL

\* Between requests, if nothing was cut off and no compensation failed, what is not on
\* stock is in live orders, and the coupon counts exactly the live orders with a discount.
THEOREM NothingEverLeaks == ShopSpec => []NothingLeaks
<1>1. HInv => NothingLeaks
  <2> SUFFICES ASSUME HInv, ~disturbed, \A f \in Fronts : front[f] = Free
               PROVE  /\ stock + Units(Live) = supplied
                      /\ used = Cardinality(usages)
                      /\ usages = Live \cap discounted
    BY DEF NothingLeaks
  <2>1. \A f \in Fronts : front[f].pc = "idle"
    BY FreeType
  <2>2. Held = Live /\ OnTheWay = {} /\ \A f \in Fronts : ~Covers(f)
    BY <2>1 DEF Held, OnTheWay, Covers, Holding
  <2>3. stock + Units(Live) = supplied
    BY <2>2 DEF HInv, StockCounted
  <2>4. used = Cardinality(usages)
    <3>1. Cardinality(OnTheWay) = 0 /\ Cardinality(usages) \in Nat
      BY <2>2, Counts, FS_EmptySet DEF HInv, SInv
    <3> QED BY <3>1 DEF HInv, UsesCounted
  <2>5. usages \subseteq Live \cap discounted
    BY <2>2 DEF HInv, UsesOwned
  <2>6. Live \cap discounted \subseteq usages
    BY DEF HInv, SInv, DiscountIsRecorded
  <2> QED BY <2>3, <2>4, <2>5, <2>6
<1> QED BY <1>1, HAlways, PTL
=============================================================================
