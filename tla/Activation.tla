----------------------------- MODULE Activation -----------------------------
(***************************************************************************)
(* From a payment to a subscription: orders for a plan go through the      *)
(* cashier like all others, and the pages of a user who has paid for one   *)
(* activate it (promo.ActivatePaidPlanOrders), while an administrator      *)
(* deletes the plan or refunds the order.                                  *)
(***************************************************************************)
EXTENDS Checkout

CONSTANT Pages      \* requests of the user that activate paid plans before they show anything

VARIABLES
    granted,    \* rows of promo_subscriptions with this order as their source_ref
    offered,    \* promo_plans has the plan of the orders
    deleting,   \* DeletePlan has counted no subscription
    page        \* the pages

planVars == <<granted, offered, deleting, page>>
activationVars == <<checkoutVars, planVars>>

-----------------------------------------------------------------------------
Page == [pc : {"idle", "look", "plan", "insert", "complete"}, order : Orders \cup {NoOrder}]

Shown == [pc |-> "idle", order |-> NoOrder]

\* Page g is about to run the statement named pc on order o.
PageAt(g, pc, o) == page[g] = [pc |-> pc, order |-> o]

PageGoesTo(g, pc) == page' = [page EXCEPT ![g].pc = pc]

PageIsDone(g) == page' = [page EXCEPT ![g] = Shown]

-----------------------------------------------------------------------------
(* ActivatePaidPlanOrders *)

\* One of the orders that were paid when the page selected them.
SelectPaid(g, o) ==
    /\ page[g] = Shown /\ status[o] = "paid"
    /\ page' = [page EXCEPT ![g] = [pc |-> "look", order |-> o]]
    /\ UNCHANGED <<checkoutVars, granted, offered, deleting>>

\* Mutant of LookForGrant: an order that has its subscription is passed over.
PassOver(g, o) ==
    /\ PageAt(g, "look", o)
    /\ IF granted[o] > 0 THEN PageIsDone(g) ELSE PageGoesTo(g, "plan")
    /\ UNCHANGED <<checkoutVars, granted, offered, deleting>>

\* Grant: a subscription with this source_ref is returned as it is, ...
LookForGrant(g, o) ==
    /\ PageAt(g, "look", o)
    /\ PageGoesTo(g, IF granted[o] > 0 THEN "complete" ELSE "plan")
    /\ UNCHANGED <<checkoutVars, granted, offered, deleting>>

\* ... there is none for a plan that was deleted, ...
LoadPlan(g, o) ==
    /\ PageAt(g, "plan", o)
    /\ IF offered THEN PageGoesTo(g, "insert") ELSE PageIsDone(g)
    /\ UNCHANGED <<checkoutVars, granted, offered, deleting>>

\* Mutant of InsertGrant: without the unique index.
InsertUnindexed(g, o) ==
    /\ PageAt(g, "insert", o)
    /\ granted' = [granted EXCEPT ![o] = @ + 1] /\ PageGoesTo(g, "complete")
    /\ UNCHANGED <<checkoutVars, offered, deleting>>

\* ... and idx_subscriptions_source refuses one that another page has inserted.
InsertGrant(g, o) ==
    /\ PageAt(g, "insert", o)
    /\ IF granted[o] = 0
       THEN granted' = [granted EXCEPT ![o] = 1] /\ PageGoesTo(g, "complete")
       ELSE PageIsDone(g) /\ UNCHANGED granted
    /\ UNCHANGED <<checkoutVars, offered, deleting>>

\* The order is completed if it is still paid.
CompletePlanOrder(g, o) ==
    /\ PageAt(g, "complete", o)
    /\ status' = IF status[o] = "paid" THEN [status EXCEPT ![o] = "completed"] ELSE status
    /\ PageIsDone(g)
    /\ UNCHANGED <<attempts, booked, available, consumed, accounts, adrift, req, channelVars,
                   granted, offered, deleting>>

\* A statement of the page fails, which the page does not show, or the page is cut off.
PageFails(g) ==
    /\ page[g] # Shown /\ PageIsDone(g)
    /\ UNCHANGED <<checkoutVars, granted, offered, deleting>>

-----------------------------------------------------------------------------
(* The administrators *)

\* DeletePlan counts the subscriptions of the plan, not its orders, ...
CountSubscriptions ==
    /\ offered /\ \A o \in Orders : granted[o] = 0
    /\ deleting' = TRUE
    /\ UNCHANGED <<checkoutVars, granted, offered, page>>

\* ... and deletes it.
DeletePlan ==
    /\ deleting /\ offered' = FALSE /\ deleting' = FALSE
    /\ UNCHANGED <<checkoutVars, granted, page>>

\* The transaction of ApproveRefund (module Refund): a completed order is refused.
RefundPlanOrder(o) ==
    /\ status[o] = "paid"
    /\ status' = [status EXCEPT ![o] = "refunded"]
    /\ consumed' = IF Owner[o] \in accounts
                   THEN [consumed EXCEPT ![Owner[o]] = @ - Amount[o]] ELSE consumed
    /\ available' = IF Owner[o] \in accounts /\ (BalanceRows(o) # {} \/ PaidRows(o) = {})
                    THEN [available EXCEPT ![Owner[o]] = @ + Amount[o]] ELSE available
    /\ UNCHANGED <<attempts, booked, accounts, adrift, req, channelVars, planVars>>

-----------------------------------------------------------------------------
ActivationInit ==
    /\ CheckoutInit
    /\ granted = [o \in Orders |-> 0]
    /\ offered = TRUE /\ deleting = FALSE
    /\ page = [g \in Pages |-> Shown]

PageStatement(g, o) ==
    LookForGrant(g, o) \/ LoadPlan(g, o) \/ InsertGrant(g, o) \/ CompletePlanOrder(g, o)

PlanNext ==
    \/ \E g \in Pages, o \in Orders : SelectPaid(g, o) \/ PageStatement(g, o)
    \/ \E g \in Pages : PageFails(g)
    \/ CountSubscriptions \/ DeletePlan
    \/ \E o \in Orders : RefundPlanOrder(o)

ActivationNext == (CheckoutNext /\ UNCHANGED planVars) \/ PlanNext

ActivationSpec == ActivationInit /\ [][ActivationNext]_activationVars

\* The user goes on opening pages, and they are not cut off for ever at the same statement.
FairActivationSpec ==
    /\ ActivationSpec
    /\ WF_activationVars(\E g \in Pages, o \in Orders : SelectPaid(g, o))
    /\ SF_activationVars(\E g \in Pages, o \in Orders : LookForGrant(g, o))
    /\ SF_activationVars(\E g \in Pages, o \in Orders : LoadPlan(g, o))
    /\ SF_activationVars(\E g \in Pages, o \in Orders : InsertGrant(g, o))
    /\ SF_activationVars(\E g \in Pages, o \in Orders : CompletePlanOrder(g, o))

-----------------------------------------------------------------------------
(* Properties *)

ActivationTypeOK ==
    /\ CheckoutTypeOK
    /\ granted \in [Orders -> Nat] /\ offered \in BOOLEAN /\ deleting \in BOOLEAN
    /\ page \in [Pages -> Page]

\* Subscriptions match orders: an order has one subscription at most, however many pages
\* activate it at once, only after it was sold, and certainly when it is completed
\* (promo/service.go:449-480 and 604-634).
SubscriptionsMatchOrders ==
    \A o \in Orders :
        /\ granted[o] <= 1
        /\ granted[o] = 1 => Phase(o) = "sold"
        /\ status[o] = "completed" => granted[o] = 1

\* A paid plan order is completed in the end, unless it is refunded or the plan is gone,
\* also when a page was cut off between the subscription and the order.
KeptPlanIsActivated ==
    \A o \in Orders :
        status[o] = "paid" ~> status[o] \in {"completed", "refunded"} \/ ~offered

\* internal/help/docs/admin/04-products-orders.md:58: what a plan grants is opened by the
\* payment itself.  The code does not keep it when the plan is deleted after the payment.
PaidPlanIsActivated ==
    \A o \in Orders : status[o] = "paid" ~> status[o] \in {"completed", "refunded"}
=============================================================================
