-------------------------- MODULE SubscriptionQuota --------------------------
(***************************************************************************)
(* Subscriptions of one user: how the quota for one type of certificate is *)
(* used up by orders without a price and their applications                *)
(* (promo/service.go, api/handler_apply.go, workflow/service.go).          *)
(* Fulfilment has every statement of approval and rejection; here they     *)
(* have the steps between which somebody else can change what an           *)
(* application counts for.  Activation has how a subscription comes about. *)
(***************************************************************************)
EXTENDS Integers, FiniteSets

CONSTANTS
    Subs,           \* rows of promo_subscriptions
    CertOrders,     \* rows of cert_orders made for the quota, of one certificate each
    Apps,           \* rows of cert_applications
    Workers,        \* requests that submit an application
    Reviewers,      \* requests that approve an application
    Quota,          \* of the plan's item
    RevokeReleases, \* revoke_release_quota of the plan
    Nobody, NoOrder, NoSub, NoApp,
    MaxMishaps      \* bound: statements that fail and restarts

ASSUME QuotaAssumption ==
    /\ Quota \in Nat /\ RevokeReleases \in BOOLEAN /\ MaxMishaps \in Nat
    /\ Nobody \notin Workers /\ NoOrder \notin CertOrders
    /\ NoSub \notin Subs /\ NoApp \notin Apps /\ IsFiniteSet(Apps)

VARIABLES
    sub,            \* promo_subscriptions.status
    order,          \* cert_orders
    app,            \* cert_applications
    mu,             \* Service.mu: the worker that holds it, or Nobody
    worker, reviewer,
    mishaps

tableVars == <<sub, order, app>>
quotaVars == <<tableVars, mu, worker, reviewer, mishaps>>

-----------------------------------------------------------------------------
\* "applying" stands for reviewing as well: what is asked of the two is the same.
OrderRow == [status : {"none", "pending", "paid", "applying", "completed", "cancelled"},
             sub : Subs \cup {NoSub}]

\* reserved tells an application that a count of the quota admitted from one made for an order
\* that was there already, or admitted because the count failed; released, whether it was ever
\* rejected, or revoked while that releases the quota: both for the properties.
AppRow == [state : {"none", "pending", "approved", "revoked", "rejected"},
           order : CertOrders \cup {NoOrder}, reserved : BOOLEAN, released : BOOLEAN]

WorkerPC == {"idle", "order", "pay", "check", "insert", "advance", "cancel"}

\* counted: the units in use were counted, for the properties.
WorkerState == [pc : WorkerPC, sub : Subs \cup {NoSub}, order : CertOrders \cup {NoOrder},
                counted : BOOLEAN]

NewApp == [state |-> "none", order |-> NoOrder, reserved |-> FALSE, released |-> FALSE]
Resting == [pc |-> "idle", sub |-> NoSub, order |-> NoOrder, counted |-> FALSE]

QuotaInit ==
    /\ sub = [s \in Subs |-> "active"]
    /\ order = [o \in CertOrders |-> [status |-> "none", sub |-> NoSub]]
    /\ app = [a \in Apps |-> NewApp]
    /\ mu = Nobody /\ worker = [w \in Workers |-> Resting]
    /\ reviewer = [r \in Reviewers |-> NoApp] /\ mishaps = 0

\* Rows get a fresh identifier; which one makes no difference.
FreeOrders == {o \in CertOrders : order[o].status = "none"}
FreeApps == {a \in Apps : app[a].state = "none"}
FirstOf(S) == CHOOSE x \in S : TRUE

Mishap == mishaps < MaxMishaps /\ mishaps' = mishaps + 1

-----------------------------------------------------------------------------
CancelSubscription(s) ==
    /\ sub[s] = "active" /\ sub' = [sub EXCEPT ![s] = "cancelled"]
    /\ UNCHANGED <<order, app, mu, worker, reviewer, mishaps>>

-----------------------------------------------------------------------------
(* Applications *)

Unit(a, s) == app[a].state # "none" /\ order[app[a].order].sub = s

\* usedCount: applications that are not rejected, without the revoked ones if they release.
Uses(s) ==
    {a \in Apps : /\ Unit(a, s) /\ app[a].state # "rejected"
                  /\ ~(RevokeReleases /\ app[a].state = "revoked")}

\* The quota is not used up: the count says so, or its query fails, which counts as nothing.
HasRoom(s, counted) ==
    \/ counted /\ Cardinality(Uses(s)) < Quota /\ UNCHANGED mishaps
    \/ ~counted /\ 0 < Quota /\ Mishap

Admit(w, s) ==
    /\ worker[w] = Resting /\ sub[s] = "active"
    /\ \E counted \in BOOLEAN :
           /\ HasRoom(s, counted)
           /\ worker' = [worker EXCEPT ![w] = [pc |-> "order", sub |-> s, order |-> NoOrder,
                                              counted |-> counted]]
    /\ UNCHANGED <<tableVars, reviewer>>

\* Mutant of Reserve: the quota is checked without the lock.
ReserveUnlocked(w, s) == Admit(w, s) /\ UNCHANGED mu

\* ReserveQuota: the lock is kept until the request ends.
Reserve(w, s) == Admit(w, s) /\ mu = Nobody /\ mu' = w

\* CreateSubscriptionOrder inserts the order ...
InsertOrder(w) ==
    /\ worker[w].pc = "order" /\ FreeOrders # {}
    /\ LET o == FirstOf(FreeOrders) IN
           /\ order' = [order EXCEPT ![o] = [status |-> "pending", sub |-> worker[w].sub]]
           /\ worker' = [worker EXCEPT ![w].pc = "pay", ![w].order = o]
    /\ UNCHANGED <<sub, app, mu, reviewer, mishaps>>

\* ... and marks it paid, whatever became of it.
MarkOrderPaid(w) ==
    /\ worker[w].pc = "pay"
    /\ order' = [order EXCEPT ![worker[w].order].status = "paid"]
    /\ worker' = [worker EXCEPT ![w].pc = "check"]
    /\ UNCHANGED <<sub, app, mu, reviewer, mishaps>>

\* Applications that use up the one unit of the order.
Live(o) == {a \in Apps : app[a].order = o /\ app[a].state \in {"pending", "approved", "revoked"}}

\* The user applies with the number of an order that is already there.
ApplyForOrder(w, o) ==
    /\ worker[w] = Resting /\ order[o].status \in {"paid", "applying"} /\ Live(o) = {}
    /\ worker' = [worker EXCEPT ![w] = [Resting EXCEPT !.pc = "check", !.order = o]]
    /\ UNCHANGED <<tableVars, mu, reviewer, mishaps>>

\* The request ends; a request that holds the lock releases it.
Leave(w) ==
    /\ worker' = [worker EXCEPT ![w] = Resting]
    /\ mu' = IF mu = w THEN Nobody ELSE mu

\* A failed submission leads to the cancellation of an order made for it.
GiveUp(w) ==
    IF worker[w].sub # NoSub
    THEN worker' = [worker EXCEPT ![w].pc = "cancel"] /\ UNCHANGED mu
    ELSE Leave(w)

\* validateApplication.
CheckApplication(w) ==
    LET o == worker[w].order IN
    /\ worker[w].pc = "check"
    /\ \/ /\ order[o].status \in {"paid", "applying"} /\ Live(o) = {}
          /\ worker' = [worker EXCEPT ![w].pc = "insert"] /\ UNCHANGED mu
       \/ (order[o].status \notin {"paid", "applying"} \/ Live(o) # {}) /\ GiveUp(w)
    /\ UNCHANGED <<tableVars, reviewer, mishaps>>

\* CreateApplication: the INSERT.
InsertApplication(w) ==
    /\ worker[w].pc = "insert" /\ FreeApps # {}
    /\ app' = [app EXCEPT ![FirstOf(FreeApps)] =
                   [state |-> "pending", order |-> worker[w].order,
                    reserved |-> worker[w].counted, released |-> FALSE]]
    /\ worker' = [worker EXCEPT ![w].pc = "advance"]
    /\ UNCHANGED <<sub, order, mu, reviewer, mishaps>>

\* CreateApplication: the order moves from paid to applying, and the request ends.
AdvanceOrder(w) ==
    /\ worker[w].pc = "advance"
    /\ order' = [order EXCEPT ![worker[w].order].status = IF @ = "paid" THEN "applying" ELSE @]
    /\ Leave(w)
    /\ UNCHANGED <<sub, app, reviewer, mishaps>>

SubmissionFails(w) ==
    /\ Mishap
    /\ \/ worker[w].pc \in {"order", "pay", "cancel"} /\ Leave(w)
       \/ worker[w].pc \in {"check", "insert", "advance"} /\ GiveUp(w)
    /\ UNCHANGED <<tableVars, reviewer>>

\* The order of a failed submission is cancelled, also if its application was inserted.
CancelFailed(w) ==
    /\ worker[w].pc = "cancel"
    /\ order' = [order EXCEPT ![worker[w].order].status = "cancelled"]
    /\ Leave(w)
    /\ UNCHANGED <<sub, app, reviewer, mishaps>>

\* An order whose payment was never marked is paid for nothing, or cancelled as stale.
ResolvePending(o) ==
    /\ order[o].status = "pending"
    /\ \E to \in {"paid", "cancelled"} : order' = [order EXCEPT ![o].status = to]
    /\ UNCHANGED <<sub, app, mu, worker, reviewer, mishaps>>

\* ApproveApplication reads that the application is pending, has the certificate signed, ...
LoadApproval(r, a) ==
    /\ reviewer[r] = NoApp /\ app[a].state = "pending"
    /\ reviewer' = [reviewer EXCEPT ![r] = a]
    /\ UNCHANGED <<tableVars, mu, worker, mishaps>>

\* ... and approves it and completes its order, whatever they have become.
Approve(r) ==
    /\ reviewer[r] # NoApp
    /\ app' = [app EXCEPT ![reviewer[r]].state = "approved"]
    /\ order' = [order EXCEPT ![app[reviewer[r]].order].status = "completed"]
    /\ reviewer' = [reviewer EXCEPT ![r] = NoApp]
    /\ UNCHANGED <<sub, mu, worker, mishaps>>

IssuanceFails(r) ==
    /\ reviewer[r] # NoApp /\ Mishap /\ reviewer' = [reviewer EXCEPT ![r] = NoApp]
    /\ UNCHANGED <<tableVars, mu, worker>>

\* RejectApplication: without another pending application the order is paid again.
Reject(a) ==
    LET o == app[a].order IN
    /\ app[a].state = "pending"
    /\ app' = [app EXCEPT ![a].state = "rejected", ![a].released = TRUE]
    /\ order' = IF order[o].status = "applying"
                   /\ ~\E b \in Apps \ {a} : app[b].order = o /\ app[b].state = "pending"
                THEN [order EXCEPT ![o].status = "paid"] ELSE order
    /\ UNCHANGED <<sub, mu, worker, reviewer, mishaps>>

\* CertRepo.Revoke of the application's certificate.
Revoke(a) ==
    /\ app[a].state = "approved"
    /\ app' = [app EXCEPT ![a].state = "revoked", ![a].released = @ \/ RevokeReleases]
    /\ UNCHANGED <<sub, order, mu, worker, reviewer, mishaps>>

\* The server stops and starts again: the lock and the requests are gone.
Restart ==
    /\ Mishap /\ mu' = Nobody
    /\ worker' = [w \in Workers |-> Resting]
    /\ reviewer' = [r \in Reviewers |-> NoApp]
    /\ UNCHANGED tableVars

-----------------------------------------------------------------------------
Submission ==
    \/ \E w \in Workers :
           \/ \E s \in Subs : Reserve(w, s)
           \/ \E o \in CertOrders : ApplyForOrder(w, o)
           \/ InsertOrder(w) \/ MarkOrderPaid(w) \/ CheckApplication(w) \/ InsertApplication(w)
           \/ AdvanceOrder(w) \/ CancelFailed(w)
    \/ \E o \in CertOrders : ResolvePending(o)
    \/ \E s \in Subs : CancelSubscription(s)

Review ==
    \/ \E r \in Reviewers : Approve(r) \/ \E a \in Apps : LoadApproval(r, a)
    \/ \E a \in Apps : Reject(a) \/ Revoke(a)

Mishaps ==
    \/ \E w \in Workers : SubmissionFails(w)
    \/ \E r \in Reviewers : IssuanceFails(r)
    \/ Restart

QuotaNext == Submission \/ Review \/ Mishaps

QuotaSpec == QuotaInit /\ [][QuotaNext]_quotaVars

-----------------------------------------------------------------------------
(* Properties *)

\* Types of the tables, the lock and the requests.
QuotaTypeOK ==
    /\ sub \in [Subs -> {"active", "cancelled"}]
    /\ order \in [CertOrders -> OrderRow] /\ app \in [Apps -> AppRow]
    /\ mu \in Workers \cup {Nobody} /\ worker \in [Workers -> WorkerState]
    /\ reviewer \in [Reviewers -> Apps \cup {NoApp}]
    /\ mishaps \in 0 .. MaxMishaps

\* Applications that a count of the quota admitted stay within it as long as they were never
\* released to it, however many requests ask at the same time: the lock spans the count, the
\* order and the application (promo/service.go:25 and 563-587, api/handler_apply.go:557-579).
\* Those that were admitted because the count failed are beside it: usedCount ignores the
\* error of its query and counts none (532-540).
ReservedWithinQuota ==
    \A s \in Subs :
        Cardinality({a \in Uses(s) : app[a].reserved /\ ~app[a].released}) <= Quota

\* A subscription is a fixed number of certificates, says
\* internal/help/docs/user/07-subscription-finance.md:25: no more than the quota are used.  Not
\* kept: see ApplyForOrder, and HasRoom.
QuotaKept == \A s \in Subs : Cardinality(Uses(s)) <= Quota
=============================================================================
