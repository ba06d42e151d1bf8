------------------------------- MODULE Refund -------------------------------
(***************************************************************************)
(* Refunds of orders, as in payment/refund.go: a user requests, an         *)
(* administrator approves or rejects, and the money goes back to the       *)
(* balance, through the channel, or by hand.  The request is a chain of    *)
(* separate statements; an approval through a channel moves the money      *)
(* first and records it in a transaction that may fail afterwards.         *)
(***************************************************************************)
EXTENDS OrderStore

CONSTANTS
    Clerks,         \* concurrent executions of the operations below
    MaxRefunds      \* bound: refund requests per order

VARIABLES
    refunds,    \* refund_requests of each order, oldest first
    returned,   \* number of consume_records of kind refund, per order
    clerk,      \* the clerks
    sentBack,   \* refunds a channel has executed for an order number
    claims,     \* applications of each order that are not rejected (Fulfilment)
    captured    \* how often a channel took money for an order number (Checkout)

deskVars == <<refunds, returned, clerk, sentBack>>

-----------------------------------------------------------------------------
RefundState == {"pending", "paid", "failed"}

\* The channel is "none" when the order has no paid attempt.
RefundRequest == [channel : AllChannels \cup {"none"}, state : RefundState]

ClerkPCs == {"idle", "countClaims", "countRefunds", "readChannel", "insert",
             "finish", "toBalance", "callChannel", "markFailed"}

Clerk == [pc      : ClerkPCs,
          order   : Orders \cup {NoOrder},
          channel : AllChannels \cup {"none"},
          refund  : Nat]

Free == [pc |-> "idle", order |-> NoOrder, channel |-> "none", refund |-> 0]

At(c, pc, o) == clerk[c].pc = pc /\ clerk[c].order = o

Begin(c, pc, o, ch, i) ==
    /\ clerk[c] = Free
    /\ clerk' = [clerk EXCEPT ![c] = [pc |-> pc, order |-> o, channel |-> ch, refund |-> i]]

GoTo(c, pc) == clerk' = [clerk EXCEPT ![c].pc = pc]

Return(c) == clerk' = [clerk EXCEPT ![c] = Free]

RefundsIn(o, states) == {i \in DOMAIN refunds[o] : refunds[o][i].state \in states}

-----------------------------------------------------------------------------
(* RequestCertOrderRefund *)

LoadForRefund(c, o) ==
    /\ status[o] = "paid"
    /\ Len(refunds[o]) < MaxRefunds
    /\ Begin(c, "countClaims", o, "none", 0)
    /\ UNCHANGED <<storeVars, refunds, returned, sentBack>>

\* An order with a live application cannot be refunded by its user.
CountClaims(c, o) ==
    /\ At(c, "countClaims", o)
    /\ IF claims[o] = 0 THEN GoTo(c, "countRefunds") ELSE Return(c)
    /\ UNCHANGED <<storeVars, refunds, returned, sentBack>>

CountRefunds(c, o) ==
    /\ At(c, "countRefunds", o)
    /\ IF RefundsIn(o, {"pending", "paid"}) = {} THEN GoTo(c, "readChannel") ELSE Return(c)
    /\ UNCHANGED <<storeVars, refunds, returned, sentBack>>

\* The channel of a paid attempt: of the last one paid, which the rows do not tell
\* when there is more than one.
ReadChannel(c, o) ==
    /\ At(c, "readChannel", o)
    /\ LET paid == {i \in DOMAIN attempts[o] : attempts[o][i].state = "paid"}
       IN  \E ch \in IF paid = {} THEN {"none"} ELSE {attempts[o][i].channel : i \in paid} :
              clerk' = [clerk EXCEPT ![c].pc = "insert", ![c].channel = ch]
    /\ UNCHANGED <<storeVars, refunds, returned, sentBack>>

InsertRefund(c, o) ==
    /\ At(c, "insert", o)
    /\ refunds' = [refunds EXCEPT ![o] =
                      Append(@, [channel |-> clerk[c].channel, state |-> "pending"])]
    /\ Return(c)
    /\ UNCHANGED <<storeVars, returned, sentBack>>

-----------------------------------------------------------------------------
(* ApproveRefund and RejectRefund *)

ApproveBranch(ch) ==
    IF ch \in {"free", "offline"} THEN "finish"
    ELSE IF ch \in {"balance", "none"} THEN "toBalance" ELSE "callChannel"

LoadForApprove(c, o, i) ==
    /\ i \in RefundsIn(o, {"pending"})
    /\ Begin(c, ApproveBranch(refunds[o][i].channel), o, refunds[o][i].channel, i)
    /\ UNCHANGED <<storeVars, refunds, returned, sentBack>>

\* The transaction that ends an approval commits only if the request is still pending
\* and the order has not gone on to be reviewed or completed.
CanFinish(o, i) == i \in RefundsIn(o, {"pending"}) /\ status[o] \in {"paid", "applying"}

RecordRefund(c, o, i) ==
    /\ refunds' = [refunds EXCEPT ![o][i].state = "paid"]
    /\ returned' = [returned EXCEPT ![o] = @ + 1]
    /\ status' = [status EXCEPT ![o] = "refunded"]

Uncount(o) ==
    consumed' = IF Owner[o] \in accounts
                THEN [consumed EXCEPT ![Owner[o]] = @ - Amount[o]]
                ELSE consumed

\* Mutant of RefundToBalance: the balance is written before the transaction has looked at
\* the request and the order, and stays written.
CreditFirst(c, o) ==
    /\ At(c, "toBalance", o)
    /\ available' = [available EXCEPT ![Owner[o]] = @ + Amount[o]]
    /\ IF CanFinish(o, clerk[c].refund)
       THEN RecordRefund(c, o, clerk[c].refund) /\ Uncount(o)
       ELSE UNCHANGED <<refunds, returned, status, consumed>>
    /\ Return(c)
    /\ UNCHANGED <<attempts, booked, accounts, adrift, sentBack>>

\* Without a row in user_balances nothing is credited, and the refund is recorded as paid.
RefundToBalance(c, o) ==
    /\ At(c, "toBalance", o)
    /\ IF CanFinish(o, clerk[c].refund)
       THEN /\ RecordRefund(c, o, clerk[c].refund)
            /\ Uncount(o)
            /\ IF Owner[o] \in accounts
               THEN available' = [available EXCEPT ![Owner[o]] = @ + Amount[o]] /\ UNCHANGED adrift
               ELSE adrift' = adrift \cup {<<o, clerk[c].refund>>} /\ UNCHANGED available
       ELSE UNCHANGED <<refunds, returned, status, consumed, available, adrift>>
    /\ Return(c)
    /\ UNCHANGED <<attempts, booked, accounts, sentBack>>

\* provider.Refund: the channel executes the refund, or accepts it ("pending"), which the
\* code does not distinguish.  A channel never pays back more than it captured; an error
\* may also be a lost answer to a refund that went through.
ChannelRefunds(o, ch) ==
    /\ sentBack[<<o, ch>>] < captured[<<o, ch>>]
    /\ sentBack' = [sentBack EXCEPT ![<<o, ch>>] = @ + 1]

CallChannelSucceeds(c, o) ==
    /\ At(c, "callChannel", o)
    /\ ChannelRefunds(o, clerk[c].channel)
    /\ GoTo(c, "finish")
    /\ UNCHANGED <<storeVars, refunds, returned>>

\* Mutant of CallChannelFails: the error of the channel is ignored.
IgnoreChannelError(c, o) ==
    /\ At(c, "callChannel", o)
    /\ ChannelRefunds(o, clerk[c].channel) \/ UNCHANGED sentBack
    /\ GoTo(c, "finish")
    /\ UNCHANGED <<storeVars, refunds, returned>>

CallChannelFails(c, o) ==
    /\ At(c, "callChannel", o)
    /\ ChannelRefunds(o, clerk[c].channel) \/ UNCHANGED sentBack
    /\ GoTo(c, "markFailed")
    /\ UNCHANGED <<storeVars, refunds, returned>>

FinishCertOrderRefund(c, o) ==
    /\ At(c, "finish", o)
    /\ IF CanFinish(o, clerk[c].refund)
       THEN /\ RecordRefund(c, o, clerk[c].refund)
            /\ IF clerk[c].channel # "free" THEN Uncount(o) ELSE UNCHANGED consumed
       ELSE UNCHANGED <<refunds, returned, status, consumed>>
    /\ Return(c)
    /\ UNCHANGED <<attempts, booked, available, accounts, adrift, sentBack>>

\* Mutant of FailRefund: without the condition on the status.
FailAnyState(o, i) == refunds' = [refunds EXCEPT ![o][i].state = "failed"]

FailRefund(o, i) ==
    refunds' = IF i \in RefundsIn(o, {"pending"})
               THEN [refunds EXCEPT ![o][i].state = "failed"]
               ELSE refunds

MarkRefundFailed(c, o) ==
    /\ At(c, "markFailed", o)
    /\ FailRefund(o, clerk[c].refund)
    /\ Return(c)
    /\ UNCHANGED <<storeVars, returned, sentBack>>

\* A single conditional statement, whatever approval is under way.
RejectRefund(o, i) ==
    /\ i \in RefundsIn(o, {"pending"})
    /\ FailRefund(o, i)
    /\ UNCHANGED <<storeVars, returned, sentBack, clerk>>

-----------------------------------------------------------------------------
\* The request is cut off, or a step of it fails, and the rest is not executed.
Abort(c) ==
    /\ clerk[c] # Free
    /\ Return(c)
    /\ UNCHANGED <<storeVars, refunds, returned, sentBack>>

RefundInit ==
    /\ refunds = [o \in Orders |-> <<>>]
    /\ returned = [o \in Orders |-> 0]
    /\ clerk = [c \in Clerks |-> Free]
    /\ sentBack = [oc \in Orders \X Channels |-> 0]

Statement(c, o) ==
    \/ CountClaims(c, o)
    \/ CountRefunds(c, o)
    \/ ReadChannel(c, o)
    \/ InsertRefund(c, o)
    \/ RefundToBalance(c, o)
    \/ CallChannelSucceeds(c, o)
    \/ CallChannelFails(c, o)
    \/ FinishCertOrderRefund(c, o)
    \/ MarkRefundFailed(c, o)

RefundNext ==
    \/ \E c \in Clerks, o \in Orders :
          \/ LoadForRefund(c, o)
          \/ \E i \in DOMAIN refunds[o] : LoadForApprove(c, o, i)
          \/ Statement(c, o)
    \/ \E o \in Orders : \E i \in DOMAIN refunds[o] : RejectRefund(o, i)
    \/ \E c \in Clerks : Abort(c)

RefundTypeOK ==
    /\ refunds \in [Orders -> Seq(RefundRequest)]
    /\ returned \in [Orders -> Nat]
    /\ clerk \in [Clerks -> Clerk]
    /\ sentBack \in [Orders \X Channels -> Nat]
=============================================================================
