----------------------------- MODULE Fulfilment -----------------------------
(***************************************************************************)
(* Applications against a paid order, their approval, the issuance of      *)
(* certificates and the status of the order on the way, as in              *)
(* workflow/service.go.  Users submit, administrators approve and reject,  *)
(* and the server approves by itself when the template needs no review.    *)
(* None of these operations is a transaction: every statement is a step.   *)
(***************************************************************************)
EXTENDS OrderStore, SequencesExt

CONSTANTS
    Workers,        \* concurrent executions of the operations below
    Quantity,       \* [Orders -> Nat], quantity in the snapshot of the specification
    MaxApps,        \* bound: applications per order, rejected ones included
    MaxSigned       \* bound: approvals begin while an application has fewer certificates

ASSUME QuantityAssumption == Quantity \in [Orders -> Nat \ {0}]
ASSUME MaxAppsAssumption == MaxApps \in Nat /\ MaxSigned \in Nat

VARIABLES
    apps,       \* cert_applications of each order, oldest first
    work,       \* the workers
    misread     \* for the properties: orders whose quantity an approval failed to read

fulfilmentVars == <<storeVars, apps, work, misread>>

-----------------------------------------------------------------------------
AppState == {"pending", "approved", "rejected"}

\* signed counts the certificates the CA made for the application, stored those that
\* reached the certificates table.
Application == [state : AppState, signed : Nat, stored : Nat]

WorkPCs == {"idle", "count", "insert", "markApplying", "review",
            "loadApp", "sign", "store", "approve", "countApproved", "closeOrder",
            "reject", "reopen"}

\* app is the application the worker handles, units the quantity it has read and seen the
\* number of approvals it has counted.
Work == [pc : WorkPCs, order : Orders \cup {NoOrder}, app : Nat, units : Nat, seen : Nat]

Free == [pc |-> "idle", order |-> NoOrder, app |-> 0, units |-> 0, seen |-> 0]

WorksAt(w, pc, o) == work[w].pc = pc /\ work[w].order = o

TakeUp(w, pc, o, i) ==
    /\ work[w] = Free
    /\ work' = [work EXCEPT ![w] = [pc |-> pc, order |-> o, app |-> i, units |-> 0, seen |-> 0]]

WorkOn(w, pc) == work' = [work EXCEPT ![w].pc = pc]

LayDown(w) == work' = [work EXCEPT ![w] = Free]

AppsIn(o, states) == {i \in DOMAIN apps[o] : apps[o][i].state \in states}

\* Applications that use up a unit of the order: all but the rejected ones.
Used(o) == Cardinality(AppsIn(o, {"pending", "approved"}))

Approved(o) == Cardinality(AppsIn(o, {"approved"}))

\* The statuses in which an order takes applications.
OpenForApplications == {"paid", "applying", "reviewing", "issuing"}

-----------------------------------------------------------------------------
(* SubmitApplication *)

\* Mutant of LoadForApply: the status of the order is not looked at.
ApplyAtAnyStatus(w, o) ==
    /\ Len(apps[o]) < MaxApps
    /\ TakeUp(w, "count", o, 0)
    /\ UNCHANGED <<storeVars, apps, misread>>

\* validateApplication reads the order ...
LoadForApply(w, o) ==
    /\ status[o] \in OpenForApplications
    /\ Len(apps[o]) < MaxApps
    /\ TakeUp(w, "count", o, 0)
    /\ UNCHANGED <<storeVars, apps, misread>>

\* ... and then counts the applications it already has.
CountUsed(w, o) ==
    /\ WorksAt(w, "count", o)
    /\ IF Used(o) < Quantity[o] THEN WorkOn(w, "insert") ELSE LayDown(w)
    /\ UNCHANGED <<storeVars, apps, misread>>

InsertApplication(w, o) ==
    /\ WorksAt(w, "insert", o)
    /\ apps' = [apps EXCEPT ![o] = Append(@, [state |-> "pending", signed |-> 0, stored |-> 0])]
    /\ work' = [work EXCEPT ![w].pc = "markApplying", ![w].app = Len(apps[o]) + 1]
    /\ UNCHANGED <<storeVars, misread>>

\* Whether the template requires a review is read now; an administrator edits it.
MarkApplying(w, o) ==
    /\ WorksAt(w, "markApplying", o)
    /\ status' = IF status[o] = "paid" THEN [status EXCEPT ![o] = "applying"] ELSE status
    /\ \E pc \in {"review", "loadApp"} : WorkOn(w, pc)
    /\ UNCHANGED <<attempts, booked, available, consumed, accounts, adrift, apps, misread>>

MarkReviewing(w, o) ==
    /\ WorksAt(w, "review", o)
    /\ status' = IF status[o] = "applying" THEN [status EXCEPT ![o] = "reviewing"] ELSE status
    /\ LayDown(w)
    /\ UNCHANGED <<attempts, booked, available, consumed, accounts, adrift, apps, misread>>

-----------------------------------------------------------------------------
(* ApproveApplication, by an administrator or right after the submission *)

LoadForApprove(w, o, i) ==
    /\ i \in AppsIn(o, {"pending"})
    /\ apps[o][i].signed < MaxSigned
    /\ TakeUp(w, "sign", o, i)
    /\ UNCHANGED <<storeVars, apps, misread>>

LoadOwnForApprove(w, o) ==
    /\ WorksAt(w, "loadApp", o)
    /\ IF work[w].app \in AppsIn(o, {"pending"}) THEN WorkOn(w, "sign") ELSE LayDown(w)
    /\ UNCHANGED <<storeVars, apps, misread>>

\* Mutant of Sign: the certificate is stored after the approval, if at all.
SignWithoutStore(w, o) ==
    /\ WorksAt(w, "sign", o)
    /\ apps' = [apps EXCEPT ![o][work[w].app].signed = @ + 1]
    /\ WorkOn(w, "approve")
    /\ UNCHANGED <<storeVars, misread>>

\* issueCertForApplication: the CA signs, which may fail ...
Sign(w, o) ==
    /\ WorksAt(w, "sign", o)
    /\ apps' = [apps EXCEPT ![o][work[w].app].signed = @ + 1]
    /\ WorkOn(w, "store")
    /\ UNCHANGED <<storeVars, misread>>

\* ... and the certificate is stored.
Store(w, o) ==
    /\ WorksAt(w, "store", o)
    /\ apps' = [apps EXCEPT ![o][work[w].app].stored = @ + 1]
    /\ WorkOn(w, "approve")
    /\ UNCHANGED <<storeVars, misread>>

\* UPDATE ... WHERE uuid = ?: whatever the application has become meanwhile.
Approve(w, o) ==
    /\ WorksAt(w, "approve", o)
    /\ apps' = [apps EXCEPT ![o][work[w].app].state = "approved"]
    /\ WorkOn(w, "countApproved")
    /\ UNCHANGED <<storeVars, misread>>

\* Mutant of CountApproved: pending applications count as well.
CountSubmitted(w, o) ==
    /\ WorksAt(w, "countApproved", o)
    /\ work' = [work EXCEPT ![w].pc = "closeOrder", ![w].units = Quantity[o], ![w].seen = Used(o)]
    /\ UNCHANGED <<storeVars, apps, misread>>

\* The quantity of the order is read and its approved applications are counted.  Either
\* query may fail, and the error is ignored: the quantity is 1 then, and the number 0.
CountApproved(w, o) ==
    /\ WorksAt(w, "countApproved", o)
    /\ \E units \in {Quantity[o], 1}, seen \in {Approved(o), 0} :
          /\ work' = [work EXCEPT ![w].pc = "closeOrder", ![w].units = units, ![w].seen = seen]
          /\ misread' = IF units < Quantity[o] THEN misread \cup {o} ELSE misread
    /\ UNCHANGED <<storeVars, apps>>

\* UPDATE ... WHERE uuid = ?: whatever the order has become meanwhile.
CloseOrder(w, o) ==
    /\ WorksAt(w, "closeOrder", o)
    /\ status' = [status EXCEPT ![o] =
                     IF work[w].seen < work[w].units THEN "applying" ELSE "completed"]
    /\ LayDown(w)
    /\ UNCHANGED <<attempts, booked, available, consumed, accounts, adrift, apps, misread>>

-----------------------------------------------------------------------------
(* RejectApplication *)

LoadForReject(w, o, i) ==
    /\ i \in AppsIn(o, {"pending"})
    /\ TakeUp(w, "reject", o, i)
    /\ UNCHANGED <<storeVars, apps, misread>>

\* Mutant of Reject: unconditional.
RejectAnyState(w, o) ==
    /\ WorksAt(w, "reject", o)
    /\ apps' = [apps EXCEPT ![o][work[w].app].state = "rejected"]
    /\ WorkOn(w, "reopen")
    /\ UNCHANGED <<storeVars, misread>>

\* Conditional on the application still being pending; the outcome is not looked at.
Reject(w, o) ==
    /\ WorksAt(w, "reject", o)
    /\ apps' = IF work[w].app \in AppsIn(o, {"pending"})
               THEN [apps EXCEPT ![o][work[w].app].state = "rejected"]
               ELSE apps
    /\ WorkOn(w, "reopen")
    /\ UNCHANGED <<storeVars, misread>>

\* Mutant of Reopen: the order goes back to where a new order starts.
ReopenUnpaid(w, o) ==
    /\ WorksAt(w, "reopen", o)
    /\ status' = IF status[o] \in {"applying", "reviewing"} /\ AppsIn(o, {"pending"}) = {}
                 THEN [status EXCEPT ![o] = "pending_payment"]
                 ELSE status
    /\ LayDown(w)
    /\ UNCHANGED <<attempts, booked, available, consumed, accounts, adrift, apps, misread>>

Reopen(w, o) ==
    /\ WorksAt(w, "reopen", o)
    /\ status' = IF status[o] \in {"applying", "reviewing"} /\ AppsIn(o, {"pending"}) = {}
                 THEN [status EXCEPT ![o] = "paid"]
                 ELSE status
    /\ LayDown(w)
    /\ UNCHANGED <<attempts, booked, available, consumed, accounts, adrift, apps, misread>>

-----------------------------------------------------------------------------
\* The request is cut off, or a step of it fails, and the rest is not executed.
AbortWork(w) ==
    /\ work[w] # Free
    /\ LayDown(w)
    /\ UNCHANGED <<storeVars, apps, misread>>

WorkInit ==
    /\ apps = [o \in Orders |-> <<>>]
    /\ work = [w \in Workers |-> Free]
    /\ misread = {}

WorkStep(w, o) ==
    \/ CountUsed(w, o)
    \/ InsertApplication(w, o)
    \/ MarkApplying(w, o)
    \/ MarkReviewing(w, o)
    \/ LoadOwnForApprove(w, o)
    \/ Sign(w, o)
    \/ Store(w, o)
    \/ Approve(w, o)
    \/ CountApproved(w, o)
    \/ CloseOrder(w, o)
    \/ Reject(w, o)
    \/ Reopen(w, o)

FulfilmentNext ==
    \/ \E w \in Workers, o \in Orders :
          \/ LoadForApply(w, o)
          \/ \E i \in DOMAIN apps[o] : LoadForApprove(w, o, i) \/ LoadForReject(w, o, i)
          \/ WorkStep(w, o)
    \/ \E w \in Workers : AbortWork(w)

\* Alone, the module starts from orders that have just been paid.
FulfilmentInit ==
    /\ status = [o \in Orders |-> "paid"]
    /\ attempts = [o \in Orders |-> <<NewAttempt("offline", "paid", NoTxn)>>]
    /\ booked = [o \in Orders |-> IF Amount[o] > 0 THEN 1 ELSE 0]
    /\ available = [u \in Users |-> 0]
    /\ consumed = [u \in Users |-> 0]
    /\ accounts = {}
    /\ adrift = {<<o, 0>> : o \in {o \in Orders : Amount[o] > 0}}
    /\ WorkInit

FulfilmentSpec == FulfilmentInit /\ [][FulfilmentNext]_fulfilmentVars

-----------------------------------------------------------------------------
(* Properties *)

FulfilmentTypeOK ==
    /\ apps \in [Orders -> Seq(Application)]
    /\ work \in [Workers -> Work]
    /\ misread \subseteq Orders

\* An order is reported completed only when all its units have been approved
\* (ApproveApplication), whatever counts the workers carry from earlier reads and although
\* the count may fail.  One unit is enough when the quantity could not be read, because the
\* error of that query is ignored (workflow/service.go:669-670).
CompletedIsFulfilled ==
    \A o \in Orders : status[o] = "completed" =>
        Approved(o) >= IF o \in misread THEN 1 ELSE Quantity[o]

\* An approved application has a certificate behind it: however approvals, rejections
\* and cut-off requests interleave, the record follows the storing of the certificate.
ApprovedHasCertificate ==
    \A o \in Orders : \A i \in AppsIn(o, {"approved"}) : apps[o][i].stored > 0

\* An approval is never taken back: a rejection that loaded the application before
\* (RejectApplication) finds it approved and leaves it.
ApprovalIsFinal ==
    [][\A o \in Orders : \A i \in AppsIn(o, {"approved"}) :
          i \in DOMAIN apps'[o] /\ apps'[o][i].state = "approved"]_fulfilmentVars

-----------------------------------------------------------------------------
(* What the comments of the code say, and the code does not keep *)

Signed(o) == FoldSeq(LAMBDA app, n : app.signed + n, 0, apps[o])

\* workflow/service.go:363: an order never yields more certificates than were bought.
WithinQuantity == \A o \in Orders : Signed(o) <= Quantity[o]

\* workflow/service.go:666: an order is completed only when all its units are issued.
CompletedInFull ==
    \A o \in Orders : status[o] = "completed" => Approved(o) >= Quantity[o]
=============================================================================
