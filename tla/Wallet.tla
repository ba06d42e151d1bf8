------------------------------- MODULE Wallet -------------------------------
(***************************************************************************)
(* How money gets into a balance and out of it again: recharge orders      *)
(* (payment/service.go, handleRechargeCallback in payment/checkout.go),    *)
(* their refunds (approveRechargeRefund in payment/refund.go) and redeem   *)
(* codes (Redeem in promo/service.go).  Callbacks and approvals are        *)
(* transactions; refund requests and redemptions are not.                  *)
(***************************************************************************)
EXTENDS Integers, Sequences, FiniteSets, Functions

CONSTANTS
    Users,
    Recharges,      \* recharge_orders.order_no
    Payer,          \* [Recharges -> Users]
    Amount,         \* [Recharges -> Nat \ {0}], amount_cents
    Codes,          \* redeem codes of grant type "balance"
    CodeValue,      \* [Codes -> Nat \ {0}], balance_cents
    MaxUses,        \* [Codes -> Nat \ {0}], max_uses
    Prices,         \* amounts of purchases out of the balance and of refunds into it
    MaxReturned,    \* bound: what such refunds pay to each user
    MaxTickets,     \* bound: refund requests per recharge order
    Desks,          \* concurrent executions of the operations below
    NoDesk          \* nobody holds the mutex of the promotion service

ASSUME WalletAssumption ==
    /\ Payer \in [Recharges -> Users] /\ Amount \in [Recharges -> Nat \ {0}]
    /\ CodeValue \in [Codes -> Nat \ {0}] /\ MaxUses \in [Codes -> Nat \ {0}]
    /\ Prices \subseteq Nat \ {0} /\ MaxReturned \in [Users -> Nat] /\ MaxTickets \in Nat
    /\ NoDesk \notin Desks
    /\ IsFiniteSet(Users) /\ IsFiniteSet(Recharges) /\ IsFiniteSet(Codes)

VARIABLES
    recharge,       \* recharge_orders.status, "none" before the INSERT
    overdue,        \* recharge orders whose expires_at has passed
    sessions,       \* recharge orders for which the user has a payment page
    captured,       \* recharge orders whose payment the channel reports
    tickets,        \* refund_requests.status of each recharge order, oldest first
    accounts,       \* users with a row in user_balances
    available,      \* user_balances.available_cents
    totalRecharge,  \* user_balances.total_recharge
    spent,          \* what purchases have taken out of the balance
    returned,       \* what refunds of purchases have put into it
    used,           \* promo_redeem_codes.used_count
    usages,         \* promo_redeem_usages: pairs of code and user
    mu,             \* the desk that holds promo.Service.mu
    desk,           \* the desks
    disturbed       \* for the properties: a redemption was cut off, or a failure was ignored

orderVars == <<recharge, overdue, sessions, captured, tickets>>
balanceVars == <<accounts, available, totalRecharge, spent, returned>>
codeVars == <<used, usages, mu>>
walletVars == <<orderVars, balanceVars, codeVars, desk, disturbed>>

-----------------------------------------------------------------------------
RechargeStatus == {"none", "pending", "paid", "closed", "refunded"}

TicketState == {"pending", "paid", "failed"}

\* What a desk works on: a recharge order and one of its tickets, or a code and a user.
Free == [pc |-> "idle"]
OnRecharge == [pc : {"openSession", "countTickets", "insertTicket"}, recharge : Recharges]
OnTicket == [pc : {"approve"}, recharge : Recharges, ticket : Nat]
OnCode == [pc : {"count", "insertUsage", "uncount", "credit"}, code : Codes, user : Users]

Begin(d, work) == desk[d] = Free /\ desk' = [desk EXCEPT ![d] = work]

GoTo(d, pc) == desk' = [desk EXCEPT ![d].pc = pc]

Return(d) == desk' = [desk EXCEPT ![d] = Free]

TicketsIn(r, states) == {i \in DOMAIN tickets[r] : tickets[r][i] \in states}

\* INSERT INTO user_balances ... ON CONFLICT DO UPDATE: the first credit opens the account.
Credit(u, cents) ==
    /\ accounts' = accounts \cup {u}
    /\ available' = [available EXCEPT ![u] = @ + cents]
    /\ totalRecharge' = [totalRecharge EXCEPT ![u] = @ + cents]

-----------------------------------------------------------------------------
(* Recharge orders *)

\* CreateRechargeOrder inserts the order and then calls the channel, ...
InsertRecharge(d, r) ==
    /\ recharge[r] = "none"
    /\ Begin(d, [pc |-> "openSession", recharge |-> r])
    /\ recharge' = [recharge EXCEPT ![r] = "pending"]
    /\ UNCHANGED <<overdue, sessions, captured, tickets, balanceVars, codeVars, disturbed>>

\* ... which may fail; the order is left as it is.
OpenSession(d) ==
    /\ desk[d].pc = "openSession"
    /\ sessions' \in {sessions, sessions \cup {desk[d].recharge}}
    /\ Return(d)
    /\ UNCHANGED <<recharge, overdue, captured, tickets, balanceVars, codeVars, disturbed>>

\* Half an hour passes.
Expire(r) ==
    /\ recharge[r] = "pending"
    /\ overdue' = overdue \cup {r}
    /\ UNCHANGED <<recharge, sessions, captured, tickets, balanceVars, codeVars, desk, disturbed>>

\* Mutant of CloseExpiredOrders: without the condition on the status.
CloseAllExpired ==
    /\ recharge' = [r \in Recharges |-> IF r \in overdue THEN "closed" ELSE recharge[r]]
    /\ UNCHANGED <<overdue, sessions, captured, tickets, balanceVars, codeVars, desk, disturbed>>

\* The job closes what is pending and overdue.
CloseExpiredOrders ==
    /\ recharge' = [r \in Recharges |->
                       IF recharge[r] = "pending" /\ r \in overdue THEN "closed" ELSE recharge[r]]
    /\ UNCHANGED <<overdue, sessions, captured, tickets, balanceVars, codeVars, desk, disturbed>>

\* The user pays at the channel, at any time.
UserPays(r) ==
    /\ r \in sessions
    /\ captured' = captured \cup {r}
    /\ UNCHANGED <<recharge, overdue, sessions, tickets, balanceVars, codeVars, desk, disturbed>>

\* Mutant of HandleRechargeCallback: a repeated callback is booked again unless the
\* order is closed.
CreditAgain(r) ==
    /\ r \in captured
    /\ recharge[r] \in {"pending", "paid", "refunded"}
    /\ recharge' = [recharge EXCEPT ![r] = "paid"]
    /\ Credit(Payer[r], Amount[r])
    /\ UNCHANGED <<overdue, sessions, captured, tickets, spent, returned, codeVars, desk,
                   disturbed>>

\* handleRechargeCallback, one transaction: a pending order is credited, any other is
\* skipped.  The channel reports a payment once or more often.
HandleRechargeCallback(r) ==
    /\ r \in captured
    /\ recharge[r] = "pending"
    /\ recharge' = [recharge EXCEPT ![r] = "paid"]
    /\ Credit(Payer[r], Amount[r])
    /\ UNCHANGED <<overdue, sessions, captured, tickets, spent, returned, codeVars, desk,
                   disturbed>>

-----------------------------------------------------------------------------
(* Refunds of recharge orders *)

\* CreateRefund loads the order, counts its requests and inserts one.
LoadForRefund(d, r) ==
    /\ recharge[r] = "paid"
    /\ Len(tickets[r]) < MaxTickets
    /\ Begin(d, [pc |-> "countTickets", recharge |-> r])
    /\ UNCHANGED <<orderVars, balanceVars, codeVars, disturbed>>

CountTickets(d) ==
    /\ desk[d].pc = "countTickets"
    /\ IF TicketsIn(desk[d].recharge, {"pending", "paid"}) = {}
       THEN GoTo(d, "insertTicket") ELSE Return(d)
    /\ UNCHANGED <<orderVars, balanceVars, codeVars, disturbed>>

InsertTicket(d) ==
    /\ desk[d].pc = "insertTicket"
    /\ tickets' = [tickets EXCEPT ![desk[d].recharge] = Append(@, "pending")]
    /\ Return(d)
    /\ UNCHANGED <<recharge, overdue, sessions, captured, balanceVars, codeVars, disturbed>>

LoadForApprove(d, r, i) ==
    /\ i \in TicketsIn(r, {"pending"})
    /\ Begin(d, [pc |-> "approve", recharge |-> r, ticket |-> i])
    /\ UNCHANGED <<orderVars, balanceVars, codeVars, disturbed>>

\* Mutants of ApproveRechargeRefund: without the change of total_recharge, or without the
\* UPDATE of the order.
ApproveUncounted(d) ==
    /\ desk[d].pc = "approve"
    /\ LET r == desk[d].recharge
           i == desk[d].ticket
       IN  IF i \in TicketsIn(r, {"pending"}) /\ available[Payer[r]] >= Amount[r]
           THEN /\ tickets' = [tickets EXCEPT ![r][i] = "paid"]
                /\ recharge' = [recharge EXCEPT ![r] = "refunded"]
                /\ available' = [available EXCEPT ![Payer[r]] = @ - Amount[r]]
           ELSE UNCHANGED <<tickets, recharge, available>>
    /\ Return(d)
    /\ UNCHANGED <<overdue, sessions, captured, accounts, totalRecharge, spent, returned, codeVars,
                   disturbed>>

ApproveWithoutOrder(d) ==
    /\ desk[d].pc = "approve"
    /\ LET r == desk[d].recharge
           i == desk[d].ticket
       IN  IF i \in TicketsIn(r, {"pending"}) /\ available[Payer[r]] >= Amount[r]
           THEN /\ tickets' = [tickets EXCEPT ![r][i] = "paid"]
                /\ available' = [available EXCEPT ![Payer[r]] = @ - Amount[r]]
                /\ totalRecharge' = [totalRecharge EXCEPT ![Payer[r]] = @ - Amount[r]]
           ELSE UNCHANGED <<tickets, available, totalRecharge>>
    /\ Return(d)
    /\ UNCHANGED <<recharge, overdue, sessions, captured, accounts, spent, returned, codeVars,
                   disturbed>>

\* approveRechargeRefund, one transaction: all of it or nothing.
ApproveRechargeRefund(d) ==
    /\ desk[d].pc = "approve"
    /\ LET r == desk[d].recharge
           i == desk[d].ticket
           u == Payer[r]
       IN  IF i \in TicketsIn(r, {"pending"}) /\ u \in accounts /\ available[u] >= Amount[r]
           THEN /\ tickets' = [tickets EXCEPT ![r][i] = "paid"]
                /\ recharge' = [recharge EXCEPT ![r] = "refunded"]
                /\ available' = [available EXCEPT ![u] = @ - Amount[r]]
                /\ totalRecharge' = [totalRecharge EXCEPT ![u] = @ - Amount[r]]
           ELSE UNCHANGED <<tickets, recharge, available, totalRecharge>>
    /\ Return(d)
    /\ UNCHANGED <<overdue, sessions, captured, accounts, spent, returned, codeVars,
                   disturbed>>

\* RejectRefund, one conditional statement.
RejectRefund(r, i) ==
    /\ i \in TicketsIn(r, {"pending"})
    /\ tickets' = [tickets EXCEPT ![r][i] = "failed"]
    /\ UNCHANGED <<recharge, overdue, sessions, captured, balanceVars, codeVars, desk, disturbed>>

-----------------------------------------------------------------------------
(* Redeem, under the mutex of the promotion service *)

LoadCode(d, c, u) ==
    /\ mu = NoDesk
    /\ Begin(d, [pc |-> "count", code |-> c, user |-> u])
    /\ mu' = d
    /\ UNCHANGED <<orderVars, balanceVars, used, usages, disturbed>>

CountUse(d) ==
    /\ desk[d].pc = "count"
    /\ IF used[desk[d].code] < MaxUses[desk[d].code]
       THEN used' = [used EXCEPT ![desk[d].code] = @ + 1] /\ GoTo(d, "insertUsage") /\ UNCHANGED mu
       ELSE Return(d) /\ mu' = NoDesk /\ UNCHANGED used
    /\ UNCHANGED <<orderVars, balanceVars, usages, disturbed>>

\* idx_redeem_usages_user: one row per code and user; the INSERT may also fail otherwise.
InsertUsage(d) ==
    /\ desk[d].pc = "insertUsage"
    /\ LET usage == <<desk[d].code, desk[d].user>>
       IN  \/ usage \notin usages /\ usages' = usages \cup {usage} /\ GoTo(d, "credit")
           \/ GoTo(d, "uncount") /\ UNCHANGED usages
    /\ UNCHANGED <<orderVars, balanceVars, used, mu, disturbed>>

\* The error of the compensation is ignored.
Uncount(d) ==
    /\ desk[d].pc = "uncount"
    /\ \/ used' = [used EXCEPT ![desk[d].code] = @ - 1] /\ UNCHANGED disturbed
       \/ disturbed' = TRUE /\ UNCHANGED used
    /\ Return(d)
    /\ mu' = NoDesk
    /\ UNCHANGED <<orderVars, balanceVars, usages>>

\* The credit; when it fails nothing is taken back.
CreditCode(d) ==
    /\ desk[d].pc = "credit"
    /\ Credit(desk[d].user, CodeValue[desk[d].code])
    /\ Return(d)
    /\ mu' = NoDesk
    /\ UNCHANGED <<orderVars, spent, returned, used, usages, disturbed>>

-----------------------------------------------------------------------------
(* The rest of the system *)

\* The cashier takes a purchase out of the balance (payCertOrderWithBalance) ...
Buy(u, cents) ==
    /\ u \in accounts /\ available[u] >= cents
    /\ available' = [available EXCEPT ![u] = @ - cents]
    /\ spent' = [spent EXCEPT ![u] = @ + cents]
    /\ UNCHANGED <<orderVars, accounts, totalRecharge, returned, codeVars, desk, disturbed>>

\* ... and the refund desk puts one into it, which does not ask how it was paid, or whether it
\* was refunded before (refundToBalance).
GiveBack(u, cents) ==
    /\ u \in accounts /\ returned[u] + cents <= MaxReturned[u]
    /\ available' = [available EXCEPT ![u] = @ + cents]
    /\ returned' = [returned EXCEPT ![u] = @ + cents]
    /\ UNCHANGED <<orderVars, accounts, totalRecharge, spent, codeVars, desk, disturbed>>

\* The process dies, a statement fails, or the context of the request is cancelled.
Abort(d) ==
    /\ desk[d] # Free
    /\ Return(d)
    /\ mu' = IF mu = d THEN NoDesk ELSE mu
    /\ disturbed' = (disturbed \/ mu = d)
    /\ UNCHANGED <<orderVars, balanceVars, used, usages>>

-----------------------------------------------------------------------------
WalletInit ==
    /\ recharge = [r \in Recharges |-> "none"]
    /\ overdue = {} /\ sessions = {} /\ captured = {}
    /\ tickets = [r \in Recharges |-> <<>>]
    /\ accounts = {}
    /\ available = [u \in Users |-> 0]
    /\ totalRecharge = [u \in Users |-> 0]
    /\ spent = [u \in Users |-> 0] /\ returned = [u \in Users |-> 0]
    /\ used = [c \in Codes |-> 0]
    /\ usages = {}
    /\ mu = NoDesk
    /\ desk = [d \in Desks |-> Free]
    /\ disturbed = FALSE

WalletNext ==
    \/ \E d \in Desks :
          \/ \E r \in Recharges : InsertRecharge(d, r) \/ LoadForRefund(d, r)
          \/ \E r \in Recharges : \E i \in DOMAIN tickets[r] : LoadForApprove(d, r, i)
          \/ \E c \in Codes, u \in Users : LoadCode(d, c, u)
          \/ OpenSession(d)
          \/ CountTickets(d)
          \/ InsertTicket(d)
          \/ ApproveRechargeRefund(d)
          \/ CountUse(d)
          \/ InsertUsage(d)
          \/ Uncount(d)
          \/ CreditCode(d)
          \/ Abort(d)
    \/ \E r \in Recharges :
          \/ Expire(r)
          \/ UserPays(r)
          \/ HandleRechargeCallback(r)
          \/ \E i \in DOMAIN tickets[r] : RejectRefund(r, i)
    \/ CloseExpiredOrders
    \/ \E u \in Users, cents \in Prices : Buy(u, cents) \/ GiveBack(u, cents)

WalletSpec == WalletInit /\ [][WalletNext]_walletVars

-----------------------------------------------------------------------------
(* Properties *)

WalletTypeOK ==
    /\ recharge \in [Recharges -> RechargeStatus]
    /\ overdue \subseteq Recharges /\ sessions \subseteq Recharges /\ captured \subseteq Recharges
    /\ tickets \in [Recharges -> Seq(TicketState)]
    /\ accounts \subseteq Users
    /\ available \in [Users -> Nat]
    /\ totalRecharge \in [Users -> Int]
    /\ spent \in [Users -> Nat] /\ returned \in [Users -> Nat]
    /\ used \in [Codes -> Nat]
    /\ usages \subseteq Codes \X Users
    /\ mu \in Desks \cup {NoDesk}
    /\ desk \in [Desks -> {Free} \cup OnRecharge \cup OnTicket \cup OnCode]
    /\ disturbed \in BOOLEAN

\* The balance adds up: what is available is what came in less what was spent and what was
\* returned, whatever credits, refunds and purchases run side by side, and it is never
\* overdrawn: a recharge is refunded only as far as it was not spent (payment/refund.go:449-461).
BalanceAddsUp ==
    \A u \in Users :
        /\ available[u] = totalRecharge[u] - spent[u] + returned[u]
        /\ available[u] >= 0

\* What the recharges of a user brought in: what was credited, less what was refunded.
Brought ==
    [r \in Recharges |-> (IF recharge[r] \in {"paid", "refunded"} THEN Amount[r] ELSE 0)
                          - Amount[r] * Cardinality(TicketsIn(r, {"paid"}))]

Recharged(u) == SumFunctionOnSet(Brought, {r \in Recharges : Payer[r] = u})

Redeemed(u) == SumFunctionOnSet(CodeValue, {c \in Codes : <<c, u>> \in usages})

Redeemers(c) == {u \in Users : <<c, u>> \in usages}

\* total_recharge is explained by the orders, the refunds and the codes: no order is
\* credited twice however often its callback comes, no refund is deducted twice, no code
\* pays a user twice; and a code pays what it promises unless its redemption is cut off.
\* A code is redeemed no more often than it may be, although its use is counted before it
\* is recorded and uncounted when the user has redeemed it before.
RechargeExplained ==
    /\ \A u \in Users :
          /\ totalRecharge[u] >= Recharged(u)
          /\ totalRecharge[u] <= Recharged(u) + Redeemed(u)
          /\ ~disturbed /\ mu = NoDesk => totalRecharge[u] = Recharged(u) + Redeemed(u)
    /\ \A c \in Codes :
          /\ used[c] <= MaxUses[c]
          /\ Cardinality(Redeemers(c)) <= used[c]

\* An order is refunded if and only if a refund of it was paid: no callback or closing
\* job that comes late changes the one without the other.
RefundedIsTakenBack ==
    \A r \in Recharges : recharge[r] = "refunded" <=> TicketsIn(r, {"paid"}) # {}

\* A recharge order that the job has closed is never credited, and one that was credited
\* is never closed or credited again: callback and job decide it once.
RechargeIsDecidedOnce ==
    [][\A r \in Recharges :
          /\ recharge[r] \in {"closed", "refunded"} => recharge'[r] = recharge[r]
          /\ recharge[r] = "paid" => recharge'[r] \in {"paid", "refunded"}]_walletVars
=============================================================================
