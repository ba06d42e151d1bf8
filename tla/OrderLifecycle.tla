--------------------------- MODULE OrderLifecycle ---------------------------
(***************************************************************************)
(* The life of an order: the cashier, the issuing desk and the refund desk *)
(* working at the same time on the same rows of cert_orders,               *)
(* payment_attempts, consume_records and user_balances.  No lock spans two *)
(* statements of different services; what holds between them holds because *)
(* of the conditions in their UPDATE statements.                           *)
(***************************************************************************)
EXTENDS Checkout, Fulfilment

CONSTANTS
    Clerks,         \* concurrent executions of the refund desk
    MaxRefunds      \* bound: refund requests per order

ASSUME ClerksAssumption == IsFiniteSet(Clerks) /\ MaxRefunds \in Nat
\* The channel of an order without a paid attempt is no channel.
ASSUME NoneAssumption == "none" \notin Channels

VARIABLES refunds, returned, clerk, sentBack    \* of Refund

Refunding == INSTANCE Refund WITH
                 claims   <- [o \in Orders |-> Used(o)],
                 captured <- [oc \in Orders \X Channels |-> Cardinality(Captured(oc[1], oc[2]))]

lifecycleVars == <<storeVars, req, channelVars, apps, work, misread, refunds, returned, clerk, sentBack>>

-----------------------------------------------------------------------------
LifecycleInit ==
    /\ CheckoutInit
    /\ WorkInit
    /\ Refunding!RefundInit

LifecycleNext ==
    \/ CheckoutNext /\ UNCHANGED <<apps, work, misread, refunds, returned, clerk, sentBack>>
    \/ FulfilmentNext
          /\ UNCHANGED <<req, channelVars, refunds, returned, clerk, sentBack>>
    \/ Refunding!RefundNext /\ UNCHANGED <<req, channelVars, apps, work, misread>>

LifecycleSpec == LifecycleInit /\ [][LifecycleNext]_lifecycleVars

-----------------------------------------------------------------------------
LifecycleTypeOK ==
    /\ CheckoutTypeOK
    /\ FulfilmentTypeOK
    /\ Refunding!RefundTypeOK

\* Through applications, approvals, rejections and refunds an order that was sold
\* stays sold, and one that was cancelled stays cancelled: no step of the two desks
\* lets it be paid for again (the WHERE clauses of all updates of cert_orders.status).
LifecycleImplementsOrderBook == ImplementsOrderBook

\* The CA never signs for an order that was not sold, and entered in the books when it
\* has a price: no interleaving takes a worker around validateApplication.
OnlySoldIsIssued ==
    \A o \in Orders : \A i \in DOMAIN apps[o] :
        /\ Phase(o) = "sold"
        /\ Amount[o] > 0 => booked[o] = 1

PaidRefunds(o, channels) ==
    {i \in Refunding!RefundsIn(o, {"paid"}) : refunds[o][i].channel \in channels}

\* Refunds that reached the balance: those made before the user had an account did not.
Credited(o) == {i \in PaidRefunds(o, {"balance", "none"}) : <<o, i>> \notin adrift}

\* What the balance of its owner gained or lost by each order, and the purchases that were
\* booked for it, on an account that was there, and not returned.
BalanceMoves ==
    [o \in Orders |-> Amount[o] * (Cardinality(Credited(o)) - Cardinality(BalanceRows(o)))]

KeptPurchases ==
    [o \in Orders |-> Amount[o] * ((IF <<o, 0>> \in adrift THEN 0 ELSE booked[o]) - returned[o])]

\* The balance is explained by payments and refunds, and by nothing else: it fell by
\* every balance payment and rose by every refund that reached it. total_consume never
\* understates what a user bought since the account was opened, less all refunds,
\* whichever desk changed it last.  A purchase or a refund before the account was opened is
\* in neither: its UPDATE of user_balances found no row (checkout.go:415, refund.go:319).
AccountExplained ==
    \A u \in Users :
        /\ available[u] = Opened(u) + SumFunctionOnSet(BalanceMoves, OrdersOf(u))
        /\ consumed[u] >= SumFunctionOnSet(KeptPurchases, OrdersOf(u))

\* A refund is shown as paid only after the channel has executed or accepted it
\* (ApproveRefund), also when two approvals of it, or of two requests for the order, run
\* side by side.
PaidRefundWasSent ==
    \A o \in Orders, ch \in Channels :
        Cardinality(PaidRefunds(o, {ch})) <= sentBack[<<o, ch>>]

\* A refund request that is decided stays decided, and a paid one has its record in
\* consume_records: late approvals and failures change pending requests only.
RefundIsDecidedOnce ==
    [][\A o \in Orders :
          /\ \A i \in Refunding!RefundsIn(o, {"paid", "failed"}) :
                refunds'[o][i] = refunds[o][i]
          /\ returned'[o] - returned[o] =
                Cardinality({i \in DOMAIN refunds'[o] : refunds'[o][i].state = "paid"})
                  - Cardinality(Refunding!RefundsIn(o, {"paid"}))]_lifecycleVars

-----------------------------------------------------------------------------
(* What the documents say, and the code does not keep *)

\* roadmap/18-PORTAL-COMMERCE-DELIVERY-PLAN.md:307: the price of an order is never
\* returned twice.
ReturnedOnce == \A o \in Orders : returned[o] <= 1

\* payment/refund.go:298: the money of an order goes back to the balance of its user.
RefundReachesBalance ==
    \A o \in Orders : PaidRefunds(o, {"balance", "none"}) \subseteq Credited(o)
=============================================================================
