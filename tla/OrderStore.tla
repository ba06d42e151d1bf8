----------------------------- MODULE OrderStore -----------------------------
(***************************************************************************)
(* The commerce tables of the server (SQLite, servers/internal/storage)    *)
(* and the statements that payment/checkout.go, payment/refund.go and      *)
(* workflow/service.go run against them.  A statement outside a            *)
(* transaction is atomic, and so is a whole BeginTx ... Commit: the        *)
(* modules that EXTEND this one interleave at exactly that grain.          *)
(*                                                                         *)
(* A row keeps what the properties tell apart.  All payment attempts of an *)
(* order carry the amount of the order, and consume_records are counted    *)
(* per order and kind because each carries that same amount.               *)
(***************************************************************************)
EXTENDS Integers, Sequences, FiniteSets

CONSTANTS
    Orders,         \* cert_orders.uuid
    Users,          \* users.uuid
    Channels,       \* third-party payment channels (alipay, wechat, stripe, ...)
    Numbered,       \* channels that number a session when it is created (stripe, paypal)
    Approving,      \* those whose callback reports an approval, before any money moves (paypal)
    References,     \* vouchers an administrator types when confirming offline money
    Owner,          \* [Orders -> Users]
    Amount,         \* [Orders -> Nat], amount_cents, never updated after INSERT
    Members,        \* users that had an account before they ordered
    OpeningBalance, \* [Users -> Nat], what the first recharge or redeemed code brings
    MaxPays,        \* bound: payments of a channel for one order number
    NoTxn,          \* the empty transaction_id
    SessionNo,      \* a stripe session: no two have one number, none is a trade number
    NoOrder         \* no order: what an idle process is about

ASSUME OrdersAssumption == IsFiniteSet(Orders) /\ NoOrder \notin Orders
ASSUME OwnerAssumption == Owner \in [Orders -> Users]
ASSUME AmountAssumption == Amount \in [Orders -> Nat]
ASSUME OpeningBalanceAssumption == OpeningBalance \in [Users -> Nat] /\ Members \subseteq Users
ASSUME MaxPaysAssumption == MaxPays \in Nat
ASSUME NumberedAssumption == Approving \subseteq Numbered /\ Numbered \subseteq Channels
\* The built-in channels are not names of third-party plugins.
ASSUME ChannelAssumption == Channels \cap {"free", "balance", "offline"} = {}

VARIABLES
    status,     \* cert_orders.status
    attempts,   \* payment_attempts of each order, oldest first
    booked,     \* number of consume_records of kind cert_purchase, per order
    available,  \* user_balances.available_cents
    consumed,   \* user_balances.total_consume
    accounts,   \* users that have a row in user_balances
    adrift      \* for the properties: updates of user_balances that found no row, that of
                \* the purchase of an order (number 0) and of its refunds to the balance

storeVars == <<status, attempts, booked, available, consumed, accounts, adrift>>

-----------------------------------------------------------------------------
OrderStatus == {"pending_payment", "paid", "applying", "reviewing", "issuing",
                "completed", "rejected", "cancelled", "refunded"}

AttemptState == {"pending", "paid", "failed", "closed"}

\* A payment that a channel reports: the order number, the channel, and which of the
\* payments for that order number it is.  A channel of Approving reports the approval of
\* its session with that number.
Payment == Orders \X Channels \X (1..MaxPays)

\* The number of session n of an order and a channel.  An approval is reported under the
\* number of its session (PayPal's order id), a payment under a number of its own.
SessionNumber(o, ch, n) == IF ch \in Approving THEN <<o, ch, n>> ELSE SessionNo

\* What transaction_id holds: nothing, a session number until the payment is booked,
\* a voucher, or the trade number of a payment.
TxnNo == {NoTxn, SessionNo} \cup References \cup (Orders \X Channels \X Nat)

AllChannels == Channels \cup {"free", "balance", "offline"}

\* One payment_attempts row.  "disputed" is raw_callback stored on a row that is
\* not paid: money arrived for an attempt that had already been closed.
Attempt == [channel  : AllChannels,
            state    : AttemptState,
            txn      : TxnNo,
            disputed : BOOLEAN]

NewAttempt(ch, st, txn) ==
    [channel |-> ch, state |-> st, txn |-> txn, disputed |-> FALSE]

-----------------------------------------------------------------------------
(* Statements on payment_attempts *)

\* Mutant of ClosePending: without the condition on the status.
CloseAll(rows) == [i \in DOMAIN rows |-> [rows[i] EXCEPT !.state = "closed"]]

\* closePendingAttempts: UPDATE ... SET status = 'closed' WHERE status = 'pending'.
ClosePending(rows) ==
    [i \in DOMAIN rows |->
        IF rows[i].state = "pending" THEN [rows[i] EXCEPT !.state = "closed"] ELSE rows[i]]

\* closeAttempt: the same for the one row the handler inserted.
CloseRow(rows, i) ==
    IF rows[i].state = "pending" THEN [rows EXCEPT ![i] = [@ EXCEPT !.state = "closed"]] ELSE rows

\* markAttemptPaid: conditional on the row still being pending.
MarkPaid(rows, i, txn) ==
    IF rows[i].state = "pending"
    THEN [rows EXCEPT ![i] = [@ EXCEPT !.state = "paid", !.txn = txn]]
    ELSE rows

\* The session number a channel returned, written whatever the row has become.
SetSessionNo(rows, i, no) == [rows EXCEPT ![i] = [@ EXCEPT !.txn = no]]

\* Mutants: the two unique indices are missing.
NoPendingIndex(o) == o \in Orders
NoTxnIndex(o, i, ch, txn) == ch \in AllChannels

\* idx_payment_attempts_pending: one pending attempt per order.
PendingFree(o) == \A i \in DOMAIN attempts[o] : attempts[o][i].state # "pending"

\* idx_payment_attempts_txn: (channel, transaction_id) is unique unless empty, so row i
\* of order o may have this one.
TxnFree(o, i, ch, txn) ==
    \/ txn = NoTxn
    \/ \A o2 \in Orders : \A j \in DOMAIN attempts[o2] :
           attempts[o2][j].channel = ch /\ attempts[o2][j].txn = txn => o2 = o /\ j = i

\* Mutant of IsLatest: the channel is left out of the query.
IsNewest(o, ch, i) == i \in DOMAIN attempts[o] /\ \A j \in DOMAIN attempts[o] : j <= i

\* ORDER BY created_at DESC LIMIT 1 over the attempts of (order_no, channel).
IsLatest(o, ch, i) ==
    /\ i \in DOMAIN attempts[o]
    /\ attempts[o][i].channel = ch
    /\ \A j \in DOMAIN attempts[o] : j > i => attempts[o][j].channel # ch

-----------------------------------------------------------------------------
(* settleCertOrderPaidTx: the order moves from pending_payment to paid and *)
(* the purchase is booked, or nothing happens because the order was        *)
(* settled before.  A balance payment has counted its consumption already  *)
(* (balanceDeducted), so it uses the first two parts only.                 *)

Settleable(o) == status[o] = "pending_payment"

SettleStatus(o) == status' = IF Settleable(o) THEN [status EXCEPT ![o] = "paid"] ELSE status

\* Mutant of SettleBooking: the purchase is booked although the order was settled.
BookAgain(o) == booked' = IF Amount[o] > 0 THEN [booked EXCEPT ![o] = @ + 1] ELSE booked

SettleBooking(o) ==
    booked' = IF Settleable(o) /\ Amount[o] > 0 THEN [booked EXCEPT ![o] = @ + 1] ELSE booked

\* UPDATE user_balances ... WHERE user_uuid = ?: no row, no effect.
CountConsumed(o) ==
    IF Owner[o] \in accounts
    THEN consumed' = [consumed EXCEPT ![Owner[o]] = @ + Amount[o]] /\ UNCHANGED adrift
    ELSE adrift' = adrift \cup {<<o, 0>>} /\ UNCHANGED consumed

SettleCertOrderPaidTx(o) ==
    /\ SettleStatus(o)
    /\ SettleBooking(o)
    /\ IF Settleable(o) THEN CountConsumed(o) ELSE UNCHANGED <<consumed, adrift>>

-----------------------------------------------------------------------------
StoreTypeOK ==
    /\ status \in [Orders -> OrderStatus]
    /\ attempts \in [Orders -> Seq(Attempt)]
    /\ booked \in [Orders -> Nat]
    /\ available \in [Users -> Nat]
    /\ consumed \in [Users -> Int]
    /\ accounts \subseteq Users /\ adrift \subseteq Orders \X Nat

\* Fresh orders, as workflow.CreateOrder inserts them.
StoreInit ==
    /\ status = [o \in Orders |-> "pending_payment"]
    /\ attempts = [o \in Orders |-> <<>>]
    /\ booked = [o \in Orders |-> 0]
    /\ available = [u \in Users |-> IF u \in Members THEN OpeningBalance[u] ELSE 0]
    /\ consumed = [u \in Users |-> 0]
    /\ accounts = Members /\ adrift = {}
=============================================================================
