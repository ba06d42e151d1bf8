------------------------------ MODULE Checkout ------------------------------
(***************************************************************************)
(* The cashier of the server: payment/checkout.go and the cancellation of  *)
(* unpaid orders in workflow/service.go, run by concurrent HTTP handlers   *)
(* and by the five-minute job, against third-party channels that report a  *)
(* payment at least once, in any order and at any later time.              *)
(*                                                                         *)
(* A handler is a record: pc names the statement it runs next, the other   *)
(* fields are the local variables it carries from earlier statements.      *)
(***************************************************************************)
EXTENDS OrderStore, Functions

CONSTANTS
    Handlers,       \* concurrent executions of the handlers below
    MaxAttempts     \* bound: third-party checkouts begin while an order has fewer attempts

ASSUME MaxAttemptsAssumption == MaxAttempts \in Nat

VARIABLES
    req,        \* the handlers
    links,      \* sessions of a channel for an order number that the user has been handed
    reported,   \* payments whose callback a channel sends
    acked,      \* payments whose callback the server has answered with success
    unbooked    \* for the properties: those whose attempt was closed before it was marked

channelVars == <<links, reported, acked, unbooked>>
checkoutVars == <<storeVars, req, channelVars>>

-----------------------------------------------------------------------------
PCs == {"idle", "settleFree", "payBalance",
        "closeOld", "insert", "createLink", "recordLink", "closeFailed",
        "closeForOffline", "settleOffline",
        "cancel", "closeCancelled",
        "settleCallback"}

Request == [pc      : PCs,
            order   : Orders \cup {NoOrder},
            channel : AllChannels,
            row     : Nat,
            txn     : TxnNo]

Idle == [pc |-> "idle", order |-> NoOrder, channel |-> "free", row |-> 0, txn |-> NoTxn]

\* Handler h is about to run the statement named pc on order o.
At(h, pc, o) == req[h].pc = pc /\ req[h].order = o

Begin(h, pc, o, ch, i, txn) ==
    /\ req[h] = Idle
    /\ req' = [req EXCEPT ![h] = [pc |-> pc, order |-> o, channel |-> ch, row |-> i, txn |-> txn]]

GoTo(h, pc) == req' = [req EXCEPT ![h].pc = pc]

Return(h) == req' = [req EXCEPT ![h] = Idle]

-----------------------------------------------------------------------------
(* CreateCertOrderPayment *)

\* Load the order, refuse unless it awaits payment, choose the branch.
LoadForPayment(h, o, ch) ==
    /\ Settleable(o)
    /\ ch \in Channels => Len(attempts[o]) < MaxAttempts
    /\ Begin(h,
             IF Amount[o] = 0 THEN "settleFree"
             ELSE IF ch = "balance" THEN "payBalance" ELSE "closeOld",
             o, ch, 0, NoTxn)
    /\ UNCHANGED <<storeVars, channelVars>>

\* settleCertOrderPaid: settle and record where the money came from, in one
\* transaction that does nothing when the order was settled meanwhile and fails
\* when the voucher was used before on that channel.
SettleCertOrderPaid(h, o, ch, txn) ==
    /\ IF Settleable(o) /\ TxnFree(o, Len(attempts[o]) + 1, ch, txn)
       THEN /\ SettleCertOrderPaidTx(o)
            /\ attempts' = [attempts EXCEPT ![o] = Append(@, NewAttempt(ch, "paid", txn))]
       ELSE UNCHANGED <<status, booked, consumed, adrift, attempts>>
    /\ Return(h)
    /\ UNCHANGED <<available, accounts, channelVars>>

SettleFree(h, o) ==
    /\ At(h, "settleFree", o)
    /\ SettleCertOrderPaid(h, o, "free", NoTxn)

\* Mutant of PayCertOrderWithBalance: when the order was settled, the attempt is left out
\* and the deduction is not.
PayUnrecorded(h, o) ==
    /\ At(h, "payBalance", o)
    /\ Owner[o] \in accounts /\ available[Owner[o]] >= Amount[o]
    /\ available' = [available EXCEPT ![Owner[o]] = @ - Amount[o]]
    /\ CountConsumed(o)
    /\ SettleStatus(o)
    /\ SettleBooking(o)
    /\ attempts' = IF Settleable(o)
                   THEN [attempts EXCEPT ![o] = Append(@, NewAttempt("balance", "paid", NoTxn))]
                   ELSE attempts
    /\ Return(h)
    /\ UNCHANGED <<accounts, channelVars>>

\* payCertOrderWithBalance, one transaction: deduct, settle, record the attempt.
\* The result of the settlement is not looked at.
PayCertOrderWithBalance(h, o) ==
    /\ At(h, "payBalance", o)
    /\ IF Owner[o] \in accounts /\ available[Owner[o]] >= Amount[o]
       THEN /\ available' = [available EXCEPT ![Owner[o]] = @ - Amount[o]]
            /\ CountConsumed(o)
            /\ SettleStatus(o)
            /\ SettleBooking(o)
            /\ attempts' = [attempts EXCEPT ![o] = Append(@, NewAttempt("balance", "paid", NoTxn))]
       ELSE UNCHANGED <<status, attempts, booked, available, consumed, adrift>>
    /\ Return(h)
    /\ UNCHANGED <<accounts, channelVars>>

OpenSession(o, ch) == links' = [links EXCEPT ![<<o, ch>>] = @ + 1]

CloseOld(h, o) ==
    /\ At(h, "closeOld", o)
    /\ attempts' = [attempts EXCEPT ![o] = ClosePending(@)]
    /\ GoTo(h, "insert")
    /\ UNCHANGED <<status, booked, available, consumed, accounts, adrift, channelVars>>

\* The insertion fails on idx_payment_attempts_pending when another handler
\* inserted its attempt since CloseOld.
InsertAttempt(h, o) ==
    /\ At(h, "insert", o)
    /\ IF PendingFree(o)
       THEN /\ attempts' = [attempts EXCEPT ![o] = Append(@, NewAttempt(req[h].channel, "pending", NoTxn))]
            /\ req' = [req EXCEPT ![h].pc = "createLink", ![h].row = Len(attempts[o]) + 1]
       ELSE /\ Return(h)
            /\ UNCHANGED attempts
    /\ UNCHANGED <<status, booked, available, consumed, accounts, adrift, channelVars>>

\* provider.CreateOrder succeeds.  The user is handed the session at once, unless its
\* number is to be recorded first.
CreateLink(h, o) ==
    /\ At(h, "createLink", o)
    /\ IF req[h].channel \in Numbered
       THEN GoTo(h, "recordLink") /\ UNCHANGED links
       ELSE Return(h) /\ OpenSession(o, req[h].channel)
    /\ UNCHANGED <<storeVars, reported, acked, unbooked>>

\* An UPDATE by the uuid of the row alone; its error is not looked at.
RecordLink(h, o) ==
    /\ At(h, "recordLink", o)
    /\ LET ch == req[h].channel
           no == SessionNumber(o, ch, links[<<o, ch>>] + 1)
       IN  /\ attempts' \in {attempts, [attempts EXCEPT ![o] = SetSessionNo(@, req[h].row, no)]}
           /\ OpenSession(o, ch)
    /\ Return(h)
    /\ UNCHANGED <<status, booked, available, consumed, accounts, adrift, reported, acked,
                   unbooked>>

CreateLinkFails(h, o) ==
    /\ At(h, "createLink", o)
    /\ GoTo(h, "closeFailed")
    /\ UNCHANGED <<storeVars, channelVars>>

CloseFailed(h, o) ==
    /\ At(h, "closeFailed", o)
    /\ attempts' = [attempts EXCEPT ![o] = CloseRow(@, req[h].row)]
    /\ Return(h)
    /\ UNCHANGED <<status, booked, available, consumed, accounts, adrift, channelVars>>

-----------------------------------------------------------------------------
(* ConfirmOfflinePayment *)

LoadForOffline(h, o, ref) ==
    /\ Settleable(o)
    /\ Begin(h, "closeForOffline", o, IF Amount[o] = 0 THEN "free" ELSE "offline", 0, ref)
    /\ UNCHANGED <<storeVars, channelVars>>

CloseForOffline(h, o) ==
    /\ At(h, "closeForOffline", o)
    /\ attempts' = [attempts EXCEPT ![o] = ClosePending(@)]
    /\ GoTo(h, "settleOffline")
    /\ UNCHANGED <<status, booked, available, consumed, accounts, adrift, channelVars>>

SettleOffline(h, o) ==
    /\ At(h, "settleOffline", o)
    /\ SettleCertOrderPaid(h, o, req[h].channel, req[h].txn)

-----------------------------------------------------------------------------
(* workflow.CancelOrder: by the user, an administrator or CloseStaleOrders *)

LoadForCancel(h, o) ==
    /\ Settleable(o)
    /\ Begin(h, "cancel", o, "free", 0, NoTxn)
    /\ UNCHANGED <<storeVars, channelVars>>

CancelStatus(h, o) ==
    /\ At(h, "cancel", o)
    /\ IF Settleable(o)
       THEN /\ status' = [status EXCEPT ![o] = "cancelled"]
            /\ GoTo(h, "closeCancelled")
       ELSE /\ Return(h)
            /\ UNCHANGED status
    /\ UNCHANGED <<attempts, booked, available, consumed, accounts, adrift, channelVars>>

CloseCancelled(h, o) ==
    /\ At(h, "closeCancelled", o)
    /\ attempts' = [attempts EXCEPT ![o] = ClosePending(@)]
    /\ Return(h)
    /\ UNCHANGED <<status, booked, available, consumed, accounts, adrift, channelVars>>

-----------------------------------------------------------------------------
(* handleCertOrderCallback *)

\* Mutant of LoadForCallback: a callback for a closed attempt is dropped.
DropLateCallback(h, p) ==
    LET o == p[1]
        ch == p[2]
    IN  /\ p \in reported
        /\ \E i \in DOMAIN attempts[o] :
              /\ IsLatest(o, ch, i)
              /\ attempts[o][i].state \in {"pending", "paid"}
              /\ IF attempts[o][i].state = "pending"
                 THEN Begin(h, "settleCallback", o, ch, i, p) /\ UNCHANGED acked
                 ELSE acked' = acked \cup {p} /\ UNCHANGED req
        /\ UNCHANGED <<storeVars, links, reported, unbooked>>

\* The channel reports payment p (again).  The handler reads the latest attempt of
\* that order and channel: a paid one is acknowledged, a closed one keeps the raw
\* callback for reconciliation, a pending one goes on to be settled.
LoadForCallback(h, p) ==
    LET o == p[1]
        ch == p[2]
    IN  /\ p \in reported
        /\ \E i \in DOMAIN attempts[o] :
              /\ IsLatest(o, ch, i)
              /\ CASE attempts[o][i].state = "pending" ->
                        /\ Begin(h, "settleCallback", o, ch, i, p)
                        /\ UNCHANGED <<attempts, acked>>
                   [] attempts[o][i].state = "paid" ->
                        /\ req[h] = Idle
                        /\ acked' = acked \cup {p}
                        /\ UNCHANGED <<req, attempts>>
                   [] OTHER ->
                        /\ req[h] = Idle
                        /\ attempts' = [attempts EXCEPT ![o][i].disputed = TRUE]
                        /\ UNCHANGED <<req, acked>>
        /\ UNCHANGED <<status, booked, available, consumed, accounts, adrift, links, reported,
                       unbooked>>

\* One transaction: markAttemptPaid and settleCertOrderPaidTx, neither result looked
\* at.  It fails as a whole when the trade number was booked before.
SettleCallback(h, o) ==
    /\ At(h, "settleCallback", o)
    /\ LET r == req[h]
           pending == attempts[o][r.row].state = "pending"
       IN  IF pending /\ ~TxnFree(o, r.row, r.channel, r.txn)
           THEN UNCHANGED <<status, booked, consumed, adrift, attempts, acked, unbooked>>
           ELSE /\ attempts' = [attempts EXCEPT ![o] = MarkPaid(@, r.row, r.txn)]
                /\ SettleCertOrderPaidTx(o)
                /\ acked' = acked \cup {r.txn}
                /\ unbooked' = IF attempts[o][r.row].state = "closed"
                               THEN unbooked \cup {r.txn} ELSE unbooked
    /\ Return(h)
    /\ UNCHANGED <<available, accounts, links, reported>>

-----------------------------------------------------------------------------
(* The environment *)

\* The request's context is cancelled, or the process dies, between two statements.
Abort(h) ==
    /\ req[h] # Idle
    /\ Return(h)
    /\ UNCHANGED <<storeVars, channelVars>>

\* The user pays a session, or approves it, at the channel; the channel does not know
\* whether the server still wants the money.
UserPays(p) ==
    /\ p \notin reported
    /\ p[3] <= links[<<p[1], p[2]>>]
    /\ reported' = reported \cup {p}
    /\ UNCHANGED <<storeVars, req, links, acked, unbooked>>

\* The first recharge of a user, or the first code redeemed, makes the row of the account
\* (module Wallet); nothing that the user bought before is counted in it.
OpenAccount(u) ==
    /\ u \notin accounts
    /\ accounts' = accounts \cup {u}
    /\ available' = [available EXCEPT ![u] = @ + OpeningBalance[u]]
    /\ UNCHANGED <<status, attempts, booked, consumed, adrift, req, channelVars>>

-----------------------------------------------------------------------------
CheckoutInit ==
    /\ StoreInit
    /\ req = [h \in Handlers |-> Idle]
    /\ links = [oc \in Orders \X Channels |-> 0]
    /\ reported = {} /\ acked = {} /\ unbooked = {}

\* settleCertOrderPaid has two callers.
Settle(h, o) == IF At(h, "settleFree", o) THEN SettleFree(h, o) ELSE SettleOffline(h, o)

\* The next statement of handler h on order o.
Statement(h, o) ==
    \/ Settle(h, o)
    \/ PayCertOrderWithBalance(h, o)
    \/ CloseOld(h, o)
    \/ InsertAttempt(h, o)
    \/ CreateLink(h, o)
    \/ RecordLink(h, o)
    \/ CreateLinkFails(h, o)
    \/ CloseFailed(h, o)
    \/ CloseForOffline(h, o)
    \/ CancelStatus(h, o)
    \/ CloseCancelled(h, o)
    \/ SettleCallback(h, o)

CheckoutNext ==
    \/ \E h \in Handlers, o \in Orders :
          \/ \E ch \in Channels \cup {"balance"} : LoadForPayment(h, o, ch)
          \/ \E ref \in References : LoadForOffline(h, o, ref)
          \/ LoadForCancel(h, o)
          \/ Statement(h, o)
    \/ \E h \in Handlers, p \in Payment : LoadForCallback(h, p)
    \/ \E h \in Handlers : Abort(h)
    \/ \E p \in Payment : UserPays(p)
    \/ \E u \in Users : OpenAccount(u)

CheckoutSpec == CheckoutInit /\ [][CheckoutNext]_checkoutVars
-----------------------------------------------------------------------------
(* Fairness.  A handler goes on as long as it is not cut off, it is not cut off   *)
(* for ever at the transaction that books a payment, and a channel repeats a      *)
(* callback until it has been answered with success.                              *)
Unanswered(p) == p \notin acked /\ \E h \in Handlers : LoadForCallback(h, p)

Booking(p) == \E h \in Handlers : req[h].txn = p /\ SettleCallback(h, p[1])

FairCheckoutSpec ==
    /\ CheckoutSpec
    /\ \A h \in Handlers : WF_checkoutVars(\E o \in Orders : Statement(h, o))
    /\ \A p \in Payment : SF_checkoutVars(Booking(p))
    /\ \A p \in Payment : SF_checkoutVars(Unanswered(p))

-----------------------------------------------------------------------------
(* Properties *)

CheckoutTypeOK ==
    /\ StoreTypeOK
    /\ req \in [Handlers -> Request]
    /\ links \in [Orders \X Channels -> Nat]
    /\ reported \subseteq Payment /\ acked \subseteq Payment /\ unbooked \subseteq Payment

PaidRows(o) == {i \in DOMAIN attempts[o] : attempts[o][i].state = "paid"}

BalanceRows(o) == {i \in PaidRows(o) : attempts[o][i].channel = "balance"}

OrdersOf(u) == {o \in Orders : Owner[o] = u}

\* What the account was opened with.
Opened(u) == IF u \in accounts THEN OpeningBalance[u] ELSE 0

\* What was taken out of the balance of its owner for each order.
BalanceCharges == [o \in Orders |-> Amount[o] * Cardinality(BalanceRows(o))]

\* Payments that channel ch has reported for the order, and those of them that moved money:
\* an approval moves none, and nothing in the code captures one.
ReportedBy(o, ch) == {p \in reported : p[1] = o /\ p[2] = ch}

Captured(o, ch) == IF ch \in Approving THEN {} ELSE ReportedBy(o, ch)

\* The order has been paid for: out of the balance, by money that an administrator
\* confirmed, or as a channel reports.
Funded(o) ==
    \/ \E i \in PaidRows(o) : attempts[o][i].channel \in {"balance", "offline"}
    \/ \E p \in reported : p[1] = o

\* The cashier implements OrderBook: of all the handlers and callbacks that race for
\* an order one sells it or one cancels it, in one step that also enters the purchase
\* in consume_records, and never without a payment (settleCertOrderPaidTx, CancelOrder).
Phase(o) ==
    CASE status[o] = "pending_payment" -> "open"
      [] status[o] = "cancelled"       -> "cancelled"
      [] OTHER                         -> "sold"

Book == INSTANCE OrderBook WITH
            phase <- [o \in Orders |-> Phase(o)],
            funded <- [o \in Orders |-> Funded(o)],
            entries <- booked

ImplementsOrderBook == Book!BookSpec

\* idx_payment_attempts_txn does its work: one trade number pays one attempt, even
\* when the channel repeats a callback after the user has started a new attempt.
TradeBookedOnce ==
    \A o1, o2 \in Orders : \A i \in DOMAIN attempts[o1], j \in DOMAIN attempts[o2] :
        /\ attempts[o1][i].txn \notin {NoTxn, SessionNo}
        /\ attempts[o1][i].txn = attempts[o2][j].txn
        /\ attempts[o1][i].channel = attempts[o2][j].channel
        => o1 = o2 /\ i = j

\* At most one attempt of an order is open, so a callback knows which one it pays,
\* although closing the old attempts and inserting the new one are two statements.
OnePendingAttempt ==
    \A o \in Orders : \A i, j \in DOMAIN attempts[o] :
        attempts[o][i].state = "pending" /\ attempts[o][j].state = "pending" => i = j

\* A paid attempt of a channel is a payment the channel has reported for this order and no
\* other: the transaction of a callback writes the payment it loaded the attempt for, and
\* only the number of a session, recorded late (checkout.go:189), may take its place.
PaidRowIsReported ==
    \A o \in Orders : \A i \in PaidRows(o) :
        LET row == attempts[o][i]
            ch  == row.channel
        IN  ch \in Channels =>
                \/ row.txn \in ReportedBy(o, ch)
                \/ /\ ch \in Numbered /\ ReportedBy(o, ch) # {}
                   /\ \E n \in 1..links[<<o, ch>>] : row.txn = SessionNumber(o, ch, n)

\* The balance is explained by the payment records: what a user spent is the price of
\* every order times its balance payments, and no race overdraws the account.
BalanceExplained ==
    \A u \in Users :
        /\ available[u] >= 0
        /\ available[u] = Opened(u) - SumFunctionOnSet(BalanceCharges, OrdersOf(u))

\* What is kept of a paid row: all of it but, with channels that number their sessions,
\* the transaction_id.
Kept(row) == IF row.channel \in Numbered THEN [row EXCEPT !.txn = NoTxn] ELSE row

\* A recorded payment is never altered or lost: no close, retry or late callback
\* touches a row once it is paid.
PaidRowsAreFinal ==
    [][\A o \in Orders : \A i \in PaidRows(o) :
          i \in DOMAIN attempts'[o] /\ Kept(attempts'[o][i]) = Kept(attempts[o][i])]_checkoutVars

\* The callback of payment p fails on idx_payment_attempts_txn: its number stands on the
\* closed attempt of its session, and a later attempt is pending.
Refused(p) ==
    \E i, j \in DOMAIN attempts[p[1]] :
        /\ attempts[p[1]][i].channel = p[2] /\ attempts[p[1]][i].txn = p
        /\ attempts[p[1]][i].state = "closed" /\ p[2] \in Approving
        /\ i < j /\ attempts[p[1]][j].channel = p[2] /\ attempts[p[1]][j].state = "pending"

\* A payment is accounted for when it is answered with success and an attempt of its channel
\* is paid, or it is kept on a closed attempt for reconciliation by hand.  Two are excepted: one
\* whose attempt was closed between the lookup and the transaction of its callback
\* (checkout.go:523), and an approval that the unique index refuses.
Accounted(p) ==
    \/ p \in acked /\ \E i \in PaidRows(p[1]) : attempts[p[1]][i].channel = p[2]
    \/ \E i \in DOMAIN attempts[p[1]] :
          attempts[p[1]][i].channel = p[2] /\ attempts[p[1]][i].disputed
    \/ p \in unbooked
    \/ Refused(p)

\* Whatever is cut off or raced on the way, the server catches up with the channels again and
\* again: all that they have reported is accounted for (checkout.go:469-540).
ReportedIsAccounted == []<>(\A p \in reported : Accounted(p))

-----------------------------------------------------------------------------
(* What the comments of the code say, and the code does not keep *)

\* checkout.go:6-7: repeated clicks and a change of channel never charge twice.
ChargedOnce == \A o \in Orders : Cardinality(PaidRows(o)) <= 1

\* storage/db.go:1105: the index on trade numbers keeps one payment of a channel from
\* being booked twice.
BookedOncePerCapture ==
    \A o \in Orders, ch \in Channels :
        Cardinality({i \in PaidRows(o) : attempts[o][i].channel = ch})
            <= Cardinality(ReportedBy(o, ch))

\* roadmap/18-PORTAL-COMMERCE-DELIVERY-PLAN.md:293: an order is paid when a channel has
\* taken the money.  PayPal's approval counts as payment (paypal.go:260-262), and nothing
\* in the code captures it.
PaidRowIsCaptured ==
    \A o \in Orders : \A i \in PaidRows(o) :
        attempts[o][i].channel \in Channels => Captured(o, attempts[o][i].channel) # {}

\* checkout.go:493: money that did arrive is never ignored in silence.  A payment
\* answered with success is booked on an attempt, kept in dispute, or its order paid.
NoSilentMoney ==
    \A p \in acked :
        \/ status[p[1]] = "paid"
        \/ \E i \in DOMAIN attempts[p[1]] :
              \/ attempts[p[1]][i].txn = p
              \/ attempts[p[1]][i].channel = p[2] /\ attempts[p[1]][i].disputed
=============================================================================
