-------------------------- MODULE LifecycleProofs --------------------------
(* Theorems about the life of an order, for every number of orders, users,   *)
(* handlers, workers, clerks, units and requests.  First the issuing desk    *)
(* alone; then cashier, issuing desk and refund desk on the same rows: what  *)
(* each keeps alone they keep together, the whole implements OrderBook, and  *)
(* the accounts add up; last the orders of a subscription plan, which become *)
(* subscriptions on the pages that show them.                                *)
EXTENDS OrderLifecycle, Activation, CheckoutProofs, FiniteSetTheorems, TLAPS

-----------------------------------------------------------------------------
(* The issuing desk alone *)

\* The approvals that complete an order: its quantity, or one when that was once misread.
Needed(o) == IF o \in misread THEN 1 ELSE Quantity[o]

\* What a worker has found out still holds: the application it issues for is there, its
\* certificate is stored before it is approved, no more were counted than are approved, and
\* it asks for as many as complete the order.
Knows(k) ==
    /\ k.pc # "idle" => k.order \in Orders
    /\ k.pc \in {"sign", "store", "approve"} => k.app \in DOMAIN apps[k.order]
    /\ k.pc = "approve" => apps[k.order][k.app].stored > 0
    /\ k.pc = "closeOrder" => k.seen <= Approved(k.order) /\ k.units >= Needed(k.order)

FInv ==
    /\ FulfilmentTypeOK /\ status \in [Orders -> OrderStatus]
    /\ ApprovedHasCertificate /\ CompletedIsFulfilled
    /\ \A w \in Workers : Knows(work[w])

\* Applications are added and change, and none is deleted, loses its certificate or its
\* approval.
Grows ==
    \A o \in Orders :
        /\ DOMAIN apps[o] \subseteq DOMAIN apps'[o]
        /\ \A i \in DOMAIN apps[o] :
              /\ apps'[o][i].stored >= apps[o][i].stored
              /\ apps[o][i].state = "approved" => apps'[o][i].state = "approved"

AppsSound == apps \in [Orders -> Seq(Application)] /\ ApprovedHasCertificate

-----------------------------------------------------------------------------
(* What changes of the applications keep *)

LEMMA ApprovedIsFinite ==
    ASSUME apps \in [Orders -> Seq(Application)], NEW o \in Orders
    PROVE  IsFiniteSet(AppsIn(o, {"approved"})) /\ Approved(o) \in Nat
<1>1. apps[o] \in Seq(Application) /\ DOMAIN apps[o] = 1 .. Len(apps[o]) /\ Len(apps[o]) \in Nat
  OBVIOUS
<1>2. IsFiniteSet(1 .. Len(apps[o]))
  BY <1>1, UpToIsFinite
<1>3. AppsIn(o, {"approved"}) \in SUBSET (1 .. Len(apps[o]))
  BY <1>1 DEF AppsIn
<1>4. IsFiniteSet(AppsIn(o, {"approved"}))
  BY <1>2, <1>3, FS_Subset
<1> QED BY <1>4, FS_CardinalityType DEF Approved

\* The number of approvals never falls.
LEMMA ApprovedGrows ==
    ASSUME AppsSound, AppsSound', Grows, NEW o \in Orders
    PROVE  Approved(o) \in Nat /\ Approved(o)' \in Nat /\ Approved(o) <= Approved(o)'
<1>1. AppsIn(o, {"approved"}) \in SUBSET AppsIn(o, {"approved"})'
  BY DEF Grows, AppsIn
<1>2. IsFiniteSet(AppsIn(o, {"approved"})') /\ Approved(o)' \in Nat
  <2>1. ASSUME NEW s \in [Orders -> Seq(Application)]
        PROVE  LET A == {i \in DOMAIN s[o] : s[o][i].state \in {"approved"}}
               IN  IsFiniteSet(A) /\ Cardinality(A) \in Nat
    <3>1. s[o] \in Seq(Application) /\ DOMAIN s[o] = 1 .. Len(s[o]) /\ Len(s[o]) \in Nat
      BY <2>1
    <3>2. IsFiniteSet(1 .. Len(s[o]))
      BY <3>1, UpToIsFinite
    <3>3. {i \in DOMAIN s[o] : s[o][i].state \in {"approved"}} \in SUBSET (1 .. Len(s[o]))
      BY <3>1
    <3>4. IsFiniteSet({i \in DOMAIN s[o] : s[o][i].state \in {"approved"}})
      BY <3>2, <3>3, FS_Subset
    <3> QED BY <3>4, FS_CardinalityType
  <2> QED BY <2>1 DEF AppsSound, AppsIn, Approved
<1>3. Approved(o) <= Approved(o)'
  BY <1>1, <1>2, FS_Subset DEF Approved
<1> QED BY <1>2, <1>3, ApprovedIsFinite DEF AppsSound

\* Only worker w goes on.
Moves(w) == work' \in [Workers -> Work] /\ \A v \in Workers \ {w} : work'[v] = work[v]

\* Orders are misread, and remain so.
Misreads == misread \subseteq misread' /\ misread' \subseteq Orders

\* The more orders are misread, the fewer approvals complete one.
LEMMA NeededFalls ==
    ASSUME Misreads, NEW o \in Orders
    PROVE  /\ Needed(o) \in Nat /\ Needed(o)' \in Nat /\ Needed(o)' <= Needed(o)
           /\ Needed(o) = 1 \/ Needed(o) = Quantity[o]
           /\ 1 <= Needed(o)' /\ Needed(o)' <= Quantity[o]
BY QuantityAssumption DEF Misreads, Needed

\* A worker goes on, and applications and orders change as they may.
LEMMA Advance ==
    ASSUME FInv, NEW w \in Workers, Moves(w),
           AppsSound', Grows, status' \in [Orders -> OrderStatus], Misreads,
           \A o \in Orders : status'[o] = "completed" =>
               status[o] = "completed" \/ Approved(o)' >= Needed(o)',
           Knows(work[w])'
    PROVE  FInv'
<1>1. AppsSound /\ work' \in [Workers -> Work]
  BY DEF FInv, FulfilmentTypeOK, AppsSound, Moves
<1>2. \A o \in Orders : /\ Approved(o) \in Nat /\ Approved(o)' \in Nat
                        /\ Approved(o) <= Approved(o)'
                        /\ Needed(o) \in Nat /\ Needed(o)' \in Nat /\ Needed(o)' <= Needed(o)
  BY <1>1, ApprovedGrows, NeededFalls
<1>3. CompletedIsFulfilled'
  <2>1. \A o \in Orders : status[o] = "completed" => Approved(o) >= Needed(o)
    BY DEF FInv, CompletedIsFulfilled, Needed
  <2>2. \A o \in Orders : status'[o] = "completed" => Approved(o)' >= Needed(o)'
    BY <1>2, <2>1
  <2> QED BY <2>2 DEF CompletedIsFulfilled, Needed
<1>4. ASSUME NEW v \in Workers PROVE Knows(work[v])'
  <2>1. CASE v = w
    BY <2>1
  <2>2. CASE v # w
    <3>1. work'[v] = work[v] /\ work[v] \in Work /\ Knows(work[v])
      BY <2>2 DEF FInv, FulfilmentTypeOK, Moves
    <3> DEFINE o == work[v].order   i == work[v].app
    <3>2. work[v].pc # "idle" => o \in Orders
      BY <3>1 DEF Knows
    <3>3. work[v].pc \in {"sign", "store", "approve"} =>
              i \in DOMAIN apps'[o] /\ i \in DOMAIN apps[o]
                /\ apps'[o][i].stored >= apps[o][i].stored
      BY <3>1, <3>2 DEF Knows, Grows
    <3>4. work[v].pc = "approve" => apps'[o][i].stored > 0
      <4> SUFFICES ASSUME work[v].pc = "approve" PROVE apps'[o][i].stored > 0
        OBVIOUS
      <4>1. apps[o][i].stored > 0 /\ o \in Orders
        BY <3>1, <3>2 DEF Knows
      <4>2. apps[o][i] \in Application /\ apps'[o][i] \in Application
        BY <3>3, <4>1, <1>1 DEF AppsSound
      <4> QED BY <3>3, <4>1, <4>2 DEF Application
    <3>5. work[v].pc = "closeOrder" =>
              work[v].seen <= Approved(o)' /\ work[v].units >= Needed(o)'
      <4> SUFFICES ASSUME work[v].pc = "closeOrder"
                   PROVE  work[v].seen <= Approved(o)' /\ work[v].units >= Needed(o)'
        OBVIOUS
      <4>1. work[v].seen \in Nat /\ work[v].units \in Nat
        BY <3>1 DEF Work
      <4>2. PICK p \in Orders : p = work[v].order /\ p = work'[v].order
        BY <3>1, <3>2
      <4>3. work[v].seen <= Approved(p) /\ work[v].units >= Needed(p)
        BY <3>1, <4>2 DEF Knows
      <4>4. work[v].seen <= Approved(p)' /\ work[v].units >= Needed(p)'
        BY <4>1, <4>3, <1>2
      <4> QED BY <4>2, <4>4
    <3> QED BY <3>1, <3>2, <3>3, <3>4, <3>5 DEF Knows
  <2> QED BY <2>1, <2>2
<1> QED BY <1>1, <1>3, <1>4 DEF FInv, FulfilmentTypeOK, AppsSound, Misreads

\* A worker goes on and the order may move, but no application changes.
LEMMA OrderMoves ==
    ASSUME FInv, NEW w \in Workers, Moves(w), apps' = apps, status' \in [Orders -> OrderStatus],
           Misreads,
           \A o \in Orders : status'[o] = "completed" =>
               status[o] = "completed" \/ Approved(o) >= Needed(o)',
           Knows(work[w])'
    PROVE  FInv' /\ Grows
<1>1. AppsSound'
  BY DEF FInv, FulfilmentTypeOK, AppsSound, ApprovedHasCertificate, AppsIn
<1>2. Grows
  <2>1. \A o \in Orders : \A i \in DOMAIN apps[o] : apps[o][i] \in Application
    BY DEF FInv, FulfilmentTypeOK
  <2>2. \A o \in Orders : \A i \in DOMAIN apps[o] :
            apps'[o] = apps[o] /\ apps[o][i].stored >= apps[o][i].stored
    BY <2>1 DEF Application
  <2> QED BY <2>2 DEF Grows
<1>3. \A o \in Orders : Approved(o)' = Approved(o)
  BY DEF Approved, AppsIn
<1> QED BY <1>1, <1>2, <1>3, Advance

\* A worker goes on, and neither an application nor an order changes.
LEMMA Reads ==
    ASSUME FInv, NEW w \in Workers, Moves(w), apps' = apps, status' = status, Misreads,
           Knows(work[w])'
    PROVE  FInv' /\ Grows
BY OrderMoves DEF FInv

\* Most steps misread nothing.
LEMMA ReadsRight ==
    ASSUME FInv, misread' = misread
    PROVE  Misreads /\ \A o \in Orders : Needed(o)' = Needed(o)
BY DEF FInv, FulfilmentTypeOK, Misreads, Needed

-----------------------------------------------------------------------------
(* The steps *)

\* Where a worker goes, its record stays one.
LEMMA WorkerMoves ==
    ASSUME FInv, NEW w \in Workers
    PROVE  /\ \A pc \in WorkPCs, o \in Orders, i \in Nat :
                  TakeUp(w, pc, o, i) =>
                     /\ Moves(w)
                     /\ work'[w] = [pc |-> pc, order |-> o, app |-> i, units |-> 0, seen |-> 0]
           /\ \A pc \in WorkPCs :
                  WorkOn(w, pc) => Moves(w) /\ work'[w] = [work[w] EXCEPT !.pc = pc]
           /\ LayDown(w) => Moves(w) /\ work'[w] = Free
<1>1. work \in [Workers -> Work] /\ work[w] \in Work
  BY DEF FInv, FulfilmentTypeOK
<1>2. ASSUME NEW pc \in WorkPCs, NEW o \in Orders, NEW i \in Nat, TakeUp(w, pc, o, i)
      PROVE  Moves(w) /\ work'[w] = [pc |-> pc, order |-> o, app |-> i, units |-> 0, seen |-> 0]
  BY <1>1, <1>2 DEF TakeUp, Moves, Work
<1>3. ASSUME NEW pc \in WorkPCs, WorkOn(w, pc)
      PROVE  Moves(w) /\ work'[w] = [work[w] EXCEPT !.pc = pc]
  BY <1>1, <1>3 DEF WorkOn, Moves, Work
<1>4. LayDown(w) => Moves(w) /\ work'[w] = Free
  BY <1>1 DEF LayDown, Moves, Work, Free, WorkPCs
<1> QED BY <1>2, <1>3, <1>4

\* Loading and counting.
LEMMA ReadingKept ==
    ASSUME FInv, NEW w \in Workers, NEW o \in Orders
    PROVE  /\ LoadForApply(w, o) => FInv' /\ Grows
           /\ CountUsed(w, o) => FInv' /\ Grows
           /\ LoadOwnForApprove(w, o) => FInv' /\ Grows
           /\ CountApproved(w, o) => FInv' /\ Grows
           /\ \A i \in DOMAIN apps[o] : LoadForApprove(w, o, i) => FInv' /\ Grows
           /\ \A i \in DOMAIN apps[o] : LoadForReject(w, o, i) => FInv' /\ Grows
           /\ AbortWork(w) => FInv' /\ Grows
<1>1. work \in [Workers -> Work] /\ work[w] \in Work /\ Knows(work[w])
  BY DEF FInv, FulfilmentTypeOK
<1>2. {"idle", "count", "insert", "sign", "closeOrder", "reject"} \subseteq WorkPCs
  BY DEF WorkPCs
<1>3. apps \in [Orders -> Seq(Application)]
  BY DEF FInv, FulfilmentTypeOK
<1>4. ASSUME LoadForApply(w, o) PROVE FInv' /\ Grows
  <2>1. TakeUp(w, "count", o, 0) /\ apps' = apps /\ status' = status /\ misread' = misread
    BY <1>4 DEF LoadForApply, storeVars
  <2>2. Moves(w) /\ work'[w] = [pc |-> "count", order |-> o, app |-> 0, units |-> 0, seen |-> 0]
    BY <2>1, <1>2, WorkerMoves
  <2> QED BY <2>1, <2>2, ReadsRight, Reads DEF Knows
<1>5. ASSUME CountUsed(w, o) PROVE FInv' /\ Grows
  <2>1. /\ WorkOn(w, "insert") \/ LayDown(w)
        /\ work[w].order = o /\ apps' = apps /\ status' = status /\ misread' = misread
    BY <1>5 DEF CountUsed, WorksAt, storeVars
  <2>2. Moves(w) /\ (work'[w] = [work[w] EXCEPT !.pc = "insert"] \/ work'[w] = Free)
    BY <2>1, <1>2, WorkerMoves
  <2>3. Knows(work[w])'
    BY <2>1, <2>2, <1>1 DEF Knows, Free, Work
  <2> QED BY <2>1, <2>2, <2>3, ReadsRight, Reads
<1>6. ASSUME LoadOwnForApprove(w, o) PROVE FInv' /\ Grows
  <2>1. /\ work[w].order = o /\ apps' = apps /\ status' = status /\ misread' = misread
        /\ (WorkOn(w, "sign") /\ work[w].app \in DOMAIN apps[o]) \/ LayDown(w)
    BY <1>6 DEF LoadOwnForApprove, WorksAt, AppsIn, storeVars
  <2>2. /\ Moves(w)
        /\ \/ work'[w] = [work[w] EXCEPT !.pc = "sign"] /\ work[w].app \in DOMAIN apps[o]
           \/ work'[w] = Free
    BY <2>1, <1>2, WorkerMoves
  <2>3. Knows(work[w])'
    BY <2>1, <2>2, <1>1 DEF Knows, Free, Work
  <2> QED BY <2>1, <2>2, <2>3, ReadsRight, Reads
<1>7. ASSUME CountApproved(w, o) PROVE FInv' /\ Grows
  <2>1. work[w].order = o /\ apps' = apps /\ status' = status
    BY <1>7 DEF CountApproved, WorksAt, storeVars
  <2>2. Approved(o) \in Nat /\ Approved(o)' = Approved(o)
    BY <2>1, <1>3, ApprovedIsFinite DEF Approved, AppsIn
  <2>3. PICK units \in {Quantity[o], 1}, seen \in {Approved(o), 0} :
            /\ work' = [work EXCEPT ![w].pc = "closeOrder", ![w].units = units, ![w].seen = seen]
            /\ misread' = IF units < Quantity[o] THEN misread \cup {o} ELSE misread
    BY <1>7 DEF CountApproved
  <2>4. units \in Nat /\ seen \in Nat /\ seen <= Approved(o)
    BY <2>2, QuantityAssumption
  <2>5. Misreads
    BY <2>3 DEF Misreads, FInv, FulfilmentTypeOK
  <2>6. units >= Needed(o)'
    BY <2>3, QuantityAssumption DEF Needed
  <2>7. work'[w] = [[[work[w] EXCEPT !.pc = "closeOrder"] EXCEPT !.units = units] EXCEPT !.seen = seen]
    BY <2>3, <1>1
  <2>8. /\ work'[w] = [pc |-> "closeOrder", order |-> o, app |-> work[w].app,
                       units |-> units, seen |-> seen]
        /\ work[w].app \in Nat
    BY <2>1, <2>7, <1>1 DEF Work
  <2>9. Moves(w)
    <3>1. work'[w] \in Work
      BY <2>4, <2>8, <1>2 DEF Work
    <3> QED BY <2>3, <3>1, <1>1 DEF Moves
  <2>10. Knows(work[w])'
    BY <2>2, <2>4, <2>6, <2>8 DEF Knows
  <2> QED BY <2>1, <2>5, <2>9, <2>10, Reads
<1>8. ASSUME NEW i \in DOMAIN apps[o], LoadForApprove(w, o, i) PROVE FInv' /\ Grows
  <2>1. TakeUp(w, "sign", o, i) /\ i \in Nat /\ apps' = apps /\ status' = status /\ misread' = misread
    BY <1>3, <1>8 DEF LoadForApprove, storeVars
  <2>2. Moves(w) /\ work'[w] = [pc |-> "sign", order |-> o, app |-> i, units |-> 0, seen |-> 0]
    BY <2>1, <1>2, WorkerMoves
  <2> QED BY <2>1, <2>2, ReadsRight, Reads DEF Knows
<1>9. ASSUME NEW i \in DOMAIN apps[o], LoadForReject(w, o, i) PROVE FInv' /\ Grows
  <2>1. TakeUp(w, "reject", o, i) /\ i \in Nat /\ apps' = apps /\ status' = status /\ misread' = misread
    BY <1>3, <1>9 DEF LoadForReject, storeVars
  <2>2. Moves(w) /\ work'[w] = [pc |-> "reject", order |-> o, app |-> i, units |-> 0, seen |-> 0]
    BY <2>1, <1>2, WorkerMoves
  <2> QED BY <2>1, <2>2, ReadsRight, Reads DEF Knows
<1>10. ASSUME AbortWork(w) PROVE FInv' /\ Grows
  <2>1. LayDown(w) /\ apps' = apps /\ status' = status /\ misread' = misread
    BY <1>10 DEF AbortWork, storeVars
  <2>2. Moves(w) /\ work'[w] = Free
    BY <2>1, WorkerMoves
  <2> QED BY <2>1, <2>2, ReadsRight, Reads DEF Knows, Free
<1> QED BY <1>4, <1>5, <1>6, <1>7, <1>8, <1>9, <1>10

\* The order moves: to applying, to reviewing, to completed or back to paid.
LEMMA OrderStepsKept ==
    ASSUME FInv, NEW w \in Workers, NEW o \in Orders
    PROVE  /\ MarkApplying(w, o) => FInv' /\ Grows
           /\ MarkReviewing(w, o) => FInv' /\ Grows
           /\ CloseOrder(w, o) => FInv' /\ Grows
           /\ Reopen(w, o) => FInv' /\ Grows
<1>1. /\ work \in [Workers -> Work] /\ work[w] \in Work /\ Knows(work[w])
      /\ status \in [Orders -> OrderStatus]
  BY DEF FInv, FulfilmentTypeOK
<1>2. {"review", "loadApp"} \subseteq WorkPCs
  BY DEF WorkPCs
<1>3. {"paid", "applying", "reviewing", "completed"} \subseteq OrderStatus
  BY DEF OrderStatus
<1>4. \A s \in {"paid", "applying", "reviewing"} :
          [status EXCEPT ![o] = s] \in [Orders -> OrderStatus]
             /\ \A p \in Orders : [status EXCEPT ![o] = s][p] = "completed" => status[p] = "completed"
  BY <1>1, <1>3
<1>5. ASSUME MarkApplying(w, o) PROVE FInv' /\ Grows
  <2>1. /\ apps' = apps /\ work[w].order = o /\ misread' = misread
        /\ status' = [status EXCEPT ![o] = "applying"] \/ status' = status
        /\ \E pc \in {"review", "loadApp"} : WorkOn(w, pc)
    BY <1>5 DEF MarkApplying, WorksAt
  <2>2. PICK pc \in {"review", "loadApp"} : WorkOn(w, pc)
    BY <2>1
  <2>3. Moves(w) /\ work'[w] = [work[w] EXCEPT !.pc = pc]
    BY <2>2, <1>2, WorkerMoves
  <2>4. Knows(work[w])'
    BY <2>1, <2>3, <1>1 DEF Knows, Work
  <2> QED BY <2>1, <2>3, <2>4, <1>1, <1>4, ReadsRight, OrderMoves
<1>6. ASSUME MarkReviewing(w, o) PROVE FInv' /\ Grows
  <2>1. /\ apps' = apps /\ misread' = misread
        /\ status' = [status EXCEPT ![o] = "reviewing"] \/ status' = status
        /\ Moves(w) /\ work'[w] = Free
    BY <1>6, WorkerMoves DEF MarkReviewing
  <2>2. Knows(work[w])'
    BY <2>1 DEF Knows, Free
  <2> QED BY <2>1, <2>2, <1>1, <1>4, ReadsRight, OrderMoves
<1>7. ASSUME CloseOrder(w, o) PROVE FInv' /\ Grows
  <2>1. /\ apps' = apps /\ work[w].pc = "closeOrder" /\ work[w].order = o
        /\ status' = [status EXCEPT ![o] =
                         IF work[w].seen < work[w].units THEN "applying" ELSE "completed"]
        /\ Moves(w) /\ work'[w] = Free /\ misread' = misread
    BY <1>7, WorkerMoves DEF CloseOrder, WorksAt
  <2>2. Knows(work[w])'
    BY <2>1 DEF Knows, Free
  <2>3. /\ work[w].seen \in Nat /\ work[w].seen <= Approved(o) /\ Approved(o) \in Nat
        /\ work[w].units \in Nat /\ work[w].units >= Needed(o)
    BY <2>1, <1>1, ApprovedIsFinite DEF Knows, Work, FInv, FulfilmentTypeOK
  <2>4. Misreads /\ Needed(o)' = Needed(o) /\ Needed(o) \in Nat
    BY <2>1, ReadsRight, NeededFalls
  <2>5. CASE work[w].seen < work[w].units
    BY <2>1, <2>2, <2>4, <2>5, <1>1, <1>4, OrderMoves
  <2>6. CASE ~(work[w].seen < work[w].units)
    <3>1. status' = [status EXCEPT ![o] = "completed"] /\ Approved(o) >= Needed(o)'
      BY <2>1, <2>3, <2>4, <2>6
    <3>2. status' \in [Orders -> OrderStatus]
      BY <3>1, <1>1, <1>3
    <3>3. \A p \in Orders : status'[p] = "completed" =>
              status[p] = "completed" \/ Approved(p) >= Needed(p)'
      BY <3>1, <1>1
    <3> QED BY <2>1, <2>2, <2>4, <3>2, <3>3, OrderMoves
  <2> QED BY <2>5, <2>6
<1>8. ASSUME Reopen(w, o) PROVE FInv' /\ Grows
  <2>1. /\ apps' = apps /\ misread' = misread
        /\ status' = [status EXCEPT ![o] = "paid"] \/ status' = status
        /\ Moves(w) /\ work'[w] = Free
    BY <1>8, WorkerMoves DEF Reopen
  <2>2. Knows(work[w])'
    BY <2>1 DEF Knows, Free
  <2> QED BY <2>1, <2>2, <1>1, <1>4, ReadsRight, OrderMoves
<1> QED BY <1>5, <1>6, <1>7, <1>8

\* An application is added, pending.
LEMMA InsertKept ==
    ASSUME FInv, NEW w \in Workers, NEW o \in Orders, InsertApplication(w, o)
    PROVE  FInv' /\ Grows
<1> DEFINE fresh == [state |-> "pending", signed |-> 0, stored |-> 0]
           n == Len(apps[o]) + 1
<1>1. /\ work \in [Workers -> Work] /\ work[w] \in Work /\ apps \in [Orders -> Seq(Application)]
      /\ apps[o] \in Seq(Application) /\ Len(apps[o]) \in Nat /\ ApprovedHasCertificate
  BY DEF FInv, FulfilmentTypeOK
<1>2. /\ fresh \in Application /\ fresh.state = "pending"
      /\ status' = status /\ work[w].order = o /\ misread' = misread
      /\ apps' = [apps EXCEPT ![o] = Append(apps[o], fresh)]
      /\ work' = [work EXCEPT ![w].pc = "markApplying", ![w].app = n]
  BY DEF InsertApplication, WorksAt, storeVars, Application, AppState
<1>3. /\ Append(apps[o], fresh) \in Seq(Application)
      /\ DOMAIN Append(apps[o], fresh) = 1 .. n /\ DOMAIN apps[o] = 1 .. Len(apps[o])
      /\ Append(apps[o], fresh)[n] = fresh
      /\ \A i \in 1 .. Len(apps[o]) : Append(apps[o], fresh)[i] = apps[o][i]
  BY <1>1, <1>2
<1> HIDE DEF fresh, n
<1>4. apps' \in [Orders -> Seq(Application)] /\ apps'[o] = Append(apps[o], fresh)
        /\ \A p \in Orders \ {o} : apps'[p] = apps[p]
  BY <1>1, <1>2, <1>3
<1>5. \A p \in Orders : \A i \in DOMAIN apps[p] :
          i \in DOMAIN apps'[p] /\ apps'[p][i] = apps[p][i] /\ apps[p][i] \in Application
  <2>1. ASSUME NEW i \in DOMAIN apps[o] PROVE i \in DOMAIN apps'[o] /\ apps'[o][i] = apps[o][i]
    BY <1>1, <1>3, <1>4 DEF n
  <2>2. \A p \in Orders : \A i \in DOMAIN apps[p] : apps[p][i] \in Application
    BY <1>1
  <2> QED BY <2>1, <2>2, <1>4
<1>6. Grows
  <2>1. \A p \in Orders : \A i \in DOMAIN apps[p] : apps'[p][i].stored >= apps[p][i].stored
    BY <1>5 DEF Application
  <2> QED BY <1>5, <2>1 DEF Grows
<1>7. ApprovedHasCertificate'
  <2> SUFFICES ASSUME NEW p \in Orders, NEW i \in DOMAIN apps'[p], apps'[p][i].state = "approved"
               PROVE  apps'[p][i].stored > 0
    BY DEF ApprovedHasCertificate, AppsIn
  <2>1. i \in DOMAIN apps[p]
    <3>1. CASE p # o
      BY <3>1, <1>4
    <3>2. CASE p = o
      <4>1. i \in 1 .. n /\ i # n
        BY <3>2, <1>2, <1>3, <1>4
      <4> QED BY <3>2, <4>1, <1>1, <1>3 DEF n
    <3> QED BY <3>1, <3>2
  <2> QED BY <2>1, <1>1, <1>5 DEF ApprovedHasCertificate, AppsIn
<1>8. /\ work'[w] = [pc |-> "markApplying", order |-> o, app |-> n,
                     units |-> work[w].units, seen |-> work[w].seen]
      /\ n \in Nat
  <2>1. work \in [Workers -> Work] /\ work[w] \in Work /\ work[w].order = o
    BY <1>1, <1>2
  <2>2. work' = [work EXCEPT ![w].pc = "markApplying", ![w].app = n]
    BY <1>2
  <2>3. n \in Nat
    BY <1>1 DEF n
  <2>4. work'[w] = [[work[w] EXCEPT !.pc = "markApplying"] EXCEPT !.app = n]
    BY <2>1, <2>2
  <2> QED BY <2>1, <2>3, <2>4 DEF Work
<1>9. Knows(work[w])' /\ Moves(w)
  <2>1. work'[w] \in Work
    BY <1>1, <1>8 DEF Work, WorkPCs
  <2> QED BY <1>1, <1>2, <1>8, <2>1 DEF Knows, Moves
<1>10. AppsSound'
  BY <1>4, <1>7 DEF AppsSound
<1> QED BY <1>2, <1>6, <1>9, <1>10, ReadsRight, Advance DEF FInv

\* A worker edits the application it handles.
LEMMA Edits ==
    ASSUME FInv, NEW w \in Workers, NEW o \in Orders, NEW i \in DOMAIN apps[o],
           NEW row \in Application,
           apps' = [apps EXCEPT ![o] = [apps[o] EXCEPT ![i] = row]],
           row.stored >= apps[o][i].stored,
           apps[o][i].state = "approved" => row.state = "approved",
           row.state = "approved" => row.stored > 0,
           status' = status, misread' = misread, Moves(w),
           work'[w].order = o, work'[w].app = i,
           work'[w].pc \in {"store", "approve", "countApproved", "reopen"},
           work'[w].pc = "approve" => row.stored > 0
    PROVE  FInv' /\ Grows
<1>1. AppsSound
  BY DEF FInv, FulfilmentTypeOK, AppsSound
<1>2. apps[o] \in Seq(Application) /\ [apps[o] EXCEPT ![i] = row] \in Seq(Application)
  BY <1>1 DEF AppsSound
<1>3. apps' \in [Orders -> Seq(Application)] /\ apps'[o][i] = row
  BY <1>1, <1>2 DEF AppsSound
<1>4. \A p \in Orders : DOMAIN apps'[p] = DOMAIN apps[p]
  BY <1>1, <1>2 DEF AppsSound
<1>5. \A p \in Orders : \A j \in DOMAIN apps[p] :
          (apps'[p][j] = apps[p][j]) \/ (p = o /\ j = i)
  BY <1>1, <1>2 DEF AppsSound
<1>6. \A p \in Orders : \A j \in DOMAIN apps[p] : apps[p][j] \in Application
  BY <1>1 DEF AppsSound
<1>7. Grows
  BY <1>3, <1>4, <1>5, <1>6 DEF Grows, Application
<1>8. ApprovedHasCertificate'
  BY <1>1, <1>3, <1>4, <1>5 DEF ApprovedHasCertificate, AppsSound, AppsIn
<1>9. Knows(work[w])'
  BY <1>3, <1>4 DEF Knows
<1>10. AppsSound'
  BY <1>3, <1>8 DEF AppsSound
<1> QED BY <1>7, <1>9, <1>10, ReadsRight, Advance DEF FInv

\* Signing, storing, approving and rejecting.
LEMMA EditingKept ==
    ASSUME FInv, NEW w \in Workers, NEW o \in Orders
    PROVE  /\ Sign(w, o) => FInv' /\ Grows
           /\ Store(w, o) => FInv' /\ Grows
           /\ Approve(w, o) => FInv' /\ Grows
           /\ Reject(w, o) => FInv' /\ Grows
<1> DEFINE i == work[w].app   app == apps[o][i]
<1>1. /\ work \in [Workers -> Work] /\ work[w] \in Work /\ Knows(work[w])
      /\ apps \in [Orders -> Seq(Application)] /\ ApprovedHasCertificate
  BY DEF FInv, FulfilmentTypeOK
<1>2. {"store", "approve", "countApproved", "reopen"} \subseteq WorkPCs
  BY DEF WorkPCs
<1>3. i \in DOMAIN apps[o] => /\ app \in Application
                              /\ app.state = "approved" => app.stored > 0
  BY <1>1 DEF ApprovedHasCertificate, AppsIn
<1>4. ASSUME Sign(w, o) PROVE FInv' /\ Grows
  <2> DEFINE row == [app EXCEPT !.signed = @ + 1]
  <2>1. /\ work[w].pc = "sign" /\ work[w].order = o /\ status' = status /\ misread' = misread
        /\ apps' = [apps EXCEPT ![o] = [apps[o] EXCEPT ![i] = row]]
        /\ Moves(w) /\ work'[w] = [work[w] EXCEPT !.pc = "store"]
    BY <1>4, <1>1, <1>2, WorkerMoves DEF Sign, WorksAt, storeVars
  <2>2. i \in DOMAIN apps[o]
    BY <2>1, <1>1 DEF Knows
  <2>3. /\ row \in Application /\ row.stored = app.stored /\ row.state = app.state
        /\ row.stored >= app.stored
    BY <2>2, <1>3 DEF Application
  <2>4. work'[w].order = o /\ work'[w].app = i /\ work'[w].pc = "store"
    BY <2>1, <1>1 DEF Work
  <2> HIDE DEF row, i
  <2> QED BY <2>1, <2>2, <2>3, <2>4, <1>3, Edits
<1>5. ASSUME Store(w, o) PROVE FInv' /\ Grows
  <2> DEFINE row == [app EXCEPT !.stored = @ + 1]
  <2>1. /\ work[w].pc = "store" /\ work[w].order = o /\ status' = status /\ misread' = misread
        /\ apps' = [apps EXCEPT ![o] = [apps[o] EXCEPT ![i] = row]]
        /\ Moves(w) /\ work'[w] = [work[w] EXCEPT !.pc = "approve"]
    BY <1>5, <1>1, <1>2, WorkerMoves DEF Store, WorksAt, storeVars
  <2>2. i \in DOMAIN apps[o]
    BY <2>1, <1>1 DEF Knows
  <2>3. /\ row \in Application /\ row.state = app.state
        /\ row.stored >= app.stored /\ row.stored > 0
    BY <2>2, <1>3 DEF Application
  <2>4. work'[w].order = o /\ work'[w].app = i /\ work'[w].pc = "approve"
    BY <2>1, <1>1 DEF Work
  <2> HIDE DEF row, i
  <2> QED BY <2>1, <2>2, <2>3, <2>4, <1>3, Edits
<1>6. ASSUME Approve(w, o) PROVE FInv' /\ Grows
  <2> DEFINE row == [app EXCEPT !.state = "approved"]
  <2>1. /\ work[w].pc = "approve" /\ work[w].order = o /\ status' = status /\ misread' = misread
        /\ apps' = [apps EXCEPT ![o] = [apps[o] EXCEPT ![i] = row]]
        /\ Moves(w) /\ work'[w] = [work[w] EXCEPT !.pc = "countApproved"]
    BY <1>6, <1>1, <1>2, WorkerMoves DEF Approve, WorksAt, storeVars
  <2>2. i \in DOMAIN apps[o] /\ app.stored > 0
    BY <2>1, <1>1 DEF Knows
  <2>3. /\ row \in Application /\ row.stored = app.stored /\ row.state = "approved"
        /\ row.stored >= app.stored /\ row.stored > 0
    BY <2>2, <1>3 DEF Application, AppState
  <2>4. work'[w].order = o /\ work'[w].app = i /\ work'[w].pc = "countApproved"
    BY <2>1, <1>1 DEF Work
  <2> HIDE DEF row, i
  <2> QED BY <2>1, <2>2, <2>3, <2>4, Edits
<1>7. ASSUME Reject(w, o) PROVE FInv' /\ Grows
  <2>1. /\ work[w].pc = "reject" /\ work[w].order = o /\ status' = status /\ misread' = misread
        /\ Moves(w) /\ work'[w] = [work[w] EXCEPT !.pc = "reopen"]
    BY <1>7, <1>2, WorkerMoves DEF Reject, WorksAt, storeVars
  <2>2. CASE i \in AppsIn(o, {"pending"})
    <3> DEFINE row == [app EXCEPT !.state = "rejected"]
    <3>1. /\ i \in DOMAIN apps[o] /\ app.state = "pending"
          /\ apps' = [apps EXCEPT ![o] = [apps[o] EXCEPT ![i] = row]]
      BY <1>7, <1>1, <2>2 DEF Reject, AppsIn
    <3>2. /\ row \in Application /\ row.stored = app.stored /\ row.state = "rejected"
          /\ row.stored >= app.stored
      BY <3>1, <1>3 DEF Application, AppState
    <3>3. work'[w].order = o /\ work'[w].app = i /\ work'[w].pc = "reopen"
      BY <2>1, <1>1 DEF Work
    <3> HIDE DEF row, i
    <3> QED BY <2>1, <3>1, <3>2, <3>3, Edits
  <2>3. CASE i \notin AppsIn(o, {"pending"})
    <3>1. apps' = apps
      BY <1>7, <2>3 DEF Reject
    <3>2. Knows(work[w])'
      BY <2>1, <1>1 DEF Knows, Work
    <3> QED BY <2>1, <3>1, <3>2, ReadsRight, Reads
  <2> QED BY <2>2, <2>3
<1> QED BY <1>4, <1>5, <1>6, <1>7

-----------------------------------------------------------------------------
LEMMA FulfilmentStarts == FulfilmentInit => FInv
<1> SUFFICES ASSUME FulfilmentInit PROVE FInv
  OBVIOUS
<1>1. /\ apps = [o \in Orders |-> <<>>] /\ work = [w \in Workers |-> Free] /\ misread = {}
      /\ status = [o \in Orders |-> "paid"]
  BY DEF FulfilmentInit, WorkInit
<1>2. Free \in Work /\ <<>> \in Seq(Application) /\ "paid" \in OrderStatus
  BY DEF Free, Work, WorkPCs, OrderStatus
<1>3. FulfilmentTypeOK /\ status \in [Orders -> OrderStatus]
  BY <1>1, <1>2 DEF FulfilmentTypeOK
<1>4. ApprovedHasCertificate /\ CompletedIsFulfilled
  BY <1>1 DEF ApprovedHasCertificate, CompletedIsFulfilled, AppsIn
<1>5. \A w \in Workers : Knows(work[w])
  BY <1>1 DEF Knows, Free
<1> QED BY <1>3, <1>4, <1>5 DEF FInv

LEMMA FulfilmentStepKept ==
    ASSUME FInv, [FulfilmentNext]_fulfilmentVars
    PROVE  FInv' /\ (Grows \/ UNCHANGED fulfilmentVars)
<1>1. CASE UNCHANGED fulfilmentVars
  BY <1>1 DEF fulfilmentVars, storeVars, FInv, FulfilmentTypeOK, ApprovedHasCertificate,
              CompletedIsFulfilled, Knows, Needed, Approved, AppsIn
<1>2. ASSUME NEW w \in Workers, NEW o \in Orders, LoadForApply(w, o) PROVE FInv' /\ Grows
  BY <1>2, ReadingKept
<1>3. ASSUME NEW w \in Workers, NEW o \in Orders, NEW i \in DOMAIN apps[o],
             LoadForApprove(w, o, i) \/ LoadForReject(w, o, i)
      PROVE  FInv' /\ Grows
  BY <1>3, ReadingKept
<1>4. ASSUME NEW w \in Workers, NEW o \in Orders, WorkStep(w, o) PROVE FInv' /\ Grows
  <2>1. CASE CountUsed(w, o) \/ LoadOwnForApprove(w, o) \/ CountApproved(w, o)
    BY <2>1, ReadingKept
  <2>2. CASE InsertApplication(w, o)
    BY <2>2, InsertKept
  <2>3. CASE MarkApplying(w, o) \/ MarkReviewing(w, o) \/ CloseOrder(w, o) \/ Reopen(w, o)
    BY <2>3, OrderStepsKept
  <2>4. CASE Sign(w, o) \/ Store(w, o) \/ Approve(w, o) \/ Reject(w, o)
    BY <2>4, EditingKept
  <2> QED BY <1>4, <2>1, <2>2, <2>3, <2>4 DEF WorkStep
<1>5. ASSUME NEW w \in Workers, AbortWork(w) PROVE FInv' /\ (Grows \/ UNCHANGED fulfilmentVars)
  <2>1. CASE \E o \in Orders : TRUE
    BY <1>5, <2>1, ReadingKept
  <2>2. CASE Orders = {}
    <3>1. work[w].pc # "idle" => work[w].order \in Orders
      BY DEF FInv, Knows
    <3> QED BY <1>5, <2>2, <3>1, Reads, ReadsRight, WorkerMoves
            DEF AbortWork, Knows, Free, storeVars
  <2> QED BY <2>1, <2>2
<1> QED BY <1>1, <1>2, <1>3, <1>4, <1>5 DEF FulfilmentNext

\* At any time the inductive invariant holds.
LEMMA FulfilmentInvariant == FulfilmentSpec => []FInv
<1>1. FInv /\ [FulfilmentNext]_fulfilmentVars => FInv'
  BY FulfilmentStepKept
<1> QED BY <1>1, FulfilmentStarts, PTL DEF FulfilmentSpec

-----------------------------------------------------------------------------
(* Theorems *)

\* Applications and workers stay what the tables and the code say they are.
THEOREM FulfilmentTypes == FulfilmentSpec => []FulfilmentTypeOK
<1>1. FInv => FulfilmentTypeOK
  BY DEF FInv
<1> QED BY <1>1, FulfilmentInvariant, PTL

\* An order is never reported completed (ApproveApplication) before as many applications
\* are approved as units were bought, whichever counts the workers carry, and before one is
\* when the quantity of the order could not be read.
THEOREM CompletedMeansFulfilled == FulfilmentSpec => []CompletedIsFulfilled
<1>1. FInv => CompletedIsFulfilled
  BY DEF FInv
<1> QED BY <1>1, FulfilmentInvariant, PTL

\* Behind every approved application there is a stored certificate, wherever the requests
\* that issue it (issueCertForApplication) are cut off.
THEOREM ApprovedMeansIssued == FulfilmentSpec => []ApprovedHasCertificate
<1>1. FInv => ApprovedHasCertificate
  BY DEF FInv
<1> QED BY <1>1, FulfilmentInvariant, PTL

\* No rejection (RejectApplication) takes an approval back, however late it is executed.
THEOREM ApprovalStays == FulfilmentSpec => ApprovalIsFinal
<1>1. FInv /\ [FulfilmentNext]_fulfilmentVars =>
         [\A o \in Orders : \A i \in AppsIn(o, {"approved"}) :
             i \in DOMAIN apps'[o] /\ apps'[o][i].state = "approved"]_fulfilmentVars
  BY FulfilmentStepKept DEF Grows, AppsIn
<1> QED BY <1>1, FulfilmentInvariant, PTL DEF FulfilmentSpec, ApprovalIsFinal

-----------------------------------------------------------------------------
(* All desks together *)

Sold(o) == Phase(o) = "sold"

\* A worker is busy for an order that was sold, and applications are made for such orders.
WorkOnSold == \A w \in Workers : work[w].pc # "idle" => Sold(work[w].order)
AppsOnSold == \A o \in Orders : \A i \in DOMAIN apps[o] : Sold(o)

\* What of a row of refund_requests a clerk carries is what the row says, and the branch it
\* took (ApproveRefund) is the one for its channel.
ClerkKnows(k) ==
    /\ k.pc # "idle" => k.order \in Orders
    /\ k.pc \in {"finish", "toBalance", "callChannel", "markFailed"} =>
          /\ k.refund \in DOMAIN refunds[k.order]
          /\ refunds[k.order][k.refund].channel = k.channel
    /\ k.pc = "finish" => k.channel \in Channels \cup {"free", "offline"}
    /\ k.pc = "toBalance" => k.channel \in {"balance", "none"}
    /\ k.pc \in {"callChannel", "markFailed"} => k.channel \in Channels

RefundInv ==
    /\ Refunding!RefundTypeOK
    /\ \A c \in Clerks : ClerkKnows(clerk[c])

\* A refund that found no account is a refund that was paid.
DriftSettled ==
    \A o \in Orders, n \in Nat \ {0} :
        <<o, n>> \in adrift => n \in DOMAIN refunds[o] /\ refunds[o][n].state = "paid"

LInv ==
    /\ Inv /\ BookedWhenSold
    /\ FInv /\ WorkOnSold /\ AppsOnSold
    /\ RefundInv /\ DriftSettled

-----------------------------------------------------------------------------
(* What one desk keeps of the others *)

\* The invariant of the cashier is about attempts and payments, which the desks leave alone.
LEMMA InvStays ==
    ASSUME Inv, StoreTypeOK', UNCHANGED <<attempts, req, channelVars>>
    PROVE  Inv'
<1> USE DEF channelVars
<1>1. TypeInv'
  BY DEF Inv, TypeInv, CheckoutTypeOK, RowsInHand, RowInHand
<1>2. InHand'
  BY DEF Inv, InHand, FitsItsRow, NamesItsSource, ReportedBy
<1>3. OnePendingAttempt'
  BY DEF Inv, OnePendingAttempt
<1>4. PaidRowIsReported'
  BY DEF Inv, PaidRowIsReported, PaidRows, ReportedBy
<1>5. TradeBookedOnce'
  BY DEF Inv, TradeBookedOnce
<1>6. NumbersIssued'
  BY DEF Inv, NumbersIssued, Issued
<1> QED BY <1>1, <1>2, <1>3, <1>4, <1>5, <1>6 DEF Inv

\* The invariant of the issuing desk is about applications, and completed orders.
LEMMA FInvStays ==
    ASSUME FInv, UNCHANGED <<apps, work, misread>>, status' \in [Orders -> OrderStatus],
           \A o \in Orders : status'[o] = "completed" => status[o] = "completed"
    PROVE  FInv'
<1>1. CompletedIsFulfilled'
  BY DEF FInv, CompletedIsFulfilled, Approved, AppsIn
<1>2. ApprovedHasCertificate' /\ FulfilmentTypeOK'
  BY DEF FInv, ApprovedHasCertificate, AppsIn, FulfilmentTypeOK
<1>3. \A w \in Workers : Knows(work[w])'
  BY DEF FInv, Knows, Needed, Approved, AppsIn
<1> QED BY <1>1, <1>2, <1>3 DEF FInv

LEMMA RefundInvStays ==
    ASSUME RefundInv, UNCHANGED <<refunds, returned, clerk, sentBack>>
    PROVE  RefundInv'
BY DEF RefundInv, Refunding!RefundTypeOK, ClerkKnows

\* What is sold stays sold.
SoldStays == \A o \in Orders : Sold(o) => Sold(o)'

LEMMA SoldWorkStays ==
    ASSUME FInv, WorkOnSold, AppsOnSold, SoldStays, UNCHANGED <<apps, work>>
    PROVE  WorkOnSold' /\ AppsOnSold'
<1>1. \A w \in Workers : work[w].pc # "idle" => work[w].order \in Orders
  BY DEF FInv, Knows
<1> QED BY <1>1 DEF WorkOnSold, AppsOnSold, SoldStays

-----------------------------------------------------------------------------
(* The issuing desk *)

\* A worker goes on with the order it had, or takes up one that was sold.
LEMMA WorkerStaysOnSold ==
    ASSUME FInv, WorkOnSold, AppsOnSold, NEW w \in Workers, NEW o \in Orders,
           \/ WorkStep(w, o) \/ LoadForApply(w, o)
           \/ \E i \in DOMAIN apps[o] : LoadForApprove(w, o, i) \/ LoadForReject(w, o, i)
    PROVE  /\ Sold(o)
           /\ \A v \in Workers \ {w} : work'[v] = work[v]
           /\ work'[w].pc # "idle" => work'[w].order = o
<1>1. work \in [Workers -> Work] /\ work[w] \in Work
  BY DEF FInv, FulfilmentTypeOK
<1>2. CASE LoadForApply(w, o)
  BY <1>1, <1>2 DEF LoadForApply, TakeUp, Sold, Phase, OpenForApplications
<1>3. ASSUME NEW i \in DOMAIN apps[o], LoadForApprove(w, o, i) \/ LoadForReject(w, o, i)
      PROVE  /\ Sold(o)
             /\ \A v \in Workers \ {w} : work'[v] = work[v]
             /\ work'[w].order = o
  BY <1>1, <1>3 DEF LoadForApprove, LoadForReject, TakeUp, AppsOnSold
<1>4. CASE WorkStep(w, o)
  <2>1. work[w].pc # "idle" /\ work[w].order = o
    BY <1>4 DEF WorkStep, CountUsed, InsertApplication, MarkApplying, MarkReviewing,
                LoadOwnForApprove, Sign, Store, Approve, CountApproved, CloseOrder, Reject, Reopen,
                WorksAt
  <2> DEFINE Goes == \/ LayDown(w)
                     \/ \E pc \in WorkPCs : WorkOn(w, pc)
                     \/ \E n : \E pc \in WorkPCs : work' = [work EXCEPT ![w].pc = pc, ![w].app = n]
                     \/ \E m, n : \E pc \in WorkPCs :
                           work' = [work EXCEPT ![w].pc = pc, ![w].units = m, ![w].seen = n]
  <2>2. Goes
    <3>1. CASE InsertApplication(w, o)
      <4>1. "markApplying" \in WorkPCs
        BY DEF WorkPCs
      <4> QED BY <3>1, <4>1 DEF InsertApplication
    <3>2. CASE CountApproved(w, o)
      <4>1. "closeOrder" \in WorkPCs
        BY DEF WorkPCs
      <4> QED BY <3>2, <4>1 DEF CountApproved
    <3>3. CASE CountUsed(w, o) \/ LoadOwnForApprove(w, o) \/ Sign(w, o) \/ Store(w, o)
      BY <3>3 DEF CountUsed, LoadOwnForApprove, Sign, Store, WorkPCs
    <3>4. CASE MarkApplying(w, o) \/ Approve(w, o) \/ Reject(w, o)
      BY <3>4 DEF MarkApplying, Approve, Reject, WorkPCs
    <3>5. CASE MarkReviewing(w, o) \/ CloseOrder(w, o) \/ Reopen(w, o)
      BY <3>5 DEF MarkReviewing, CloseOrder, Reopen
    <3> QED BY <1>4, <3>1, <3>2, <3>3, <3>4, <3>5 DEF WorkStep
  <2>3. \A v \in Workers \ {w} : work'[v] = work[v]
    BY <1>1, <2>2 DEF LayDown, WorkOn
  <2>4. work'[w].pc # "idle" => work'[w].order = o
    <3>1. ASSUME NEW pc \in WorkPCs, NEW m, NEW n,
                 \/ work' = [work EXCEPT ![w].pc = pc, ![w].app = n]
                 \/ work' = [work EXCEPT ![w].pc = pc, ![w].units = m, ![w].seen = n]
          PROVE  work'[w].order = work[w].order
      <4>1. \/ work'[w] = [[work[w] EXCEPT !.pc = pc] EXCEPT !.app = n]
            \/ work'[w] = [[[work[w] EXCEPT !.pc = pc] EXCEPT !.units = m] EXCEPT !.seen = n]
        BY <1>1, <3>1
      <4> QED BY <1>1, <4>1 DEF Work
    <3>2. CASE LayDown(w)
      BY <1>1, <3>2 DEF LayDown, Free
    <3>3. ASSUME NEW pc \in WorkPCs, WorkOn(w, pc) PROVE work'[w].order = work[w].order
      BY <1>1, <3>3 DEF WorkOn, Work
    <3> QED BY <2>1, <2>2, <3>1, <3>2, <3>3
  <2> QED BY <2>1, <2>3, <2>4 DEF WorkOnSold
<1> QED BY <1>2, <1>3, <1>4

\* The order the worker is about moves on among the statuses of sold orders.
LEMMA WorkStepStatus ==
    ASSUME NEW w \in Workers, NEW o \in Orders, status \in [Orders -> OrderStatus],
           \/ WorkStep(w, o) \/ LoadForApply(w, o)
           \/ \E i \in DOMAIN apps[o] : LoadForApprove(w, o, i) \/ LoadForReject(w, o, i)
    PROVE  /\ UNCHANGED <<attempts, booked, available, consumed, accounts, adrift>>
           /\ \/ status' = status
              \/ \E s \in {"paid", "applying", "reviewing", "completed"} :
                    status' = [status EXCEPT ![o] = s]
<1>1. CASE MarkApplying(w, o) \/ MarkReviewing(w, o) \/ CloseOrder(w, o) \/ Reopen(w, o)
  BY <1>1 DEF MarkApplying, MarkReviewing, CloseOrder, Reopen
<1>2. CASE ~(MarkApplying(w, o) \/ MarkReviewing(w, o) \/ CloseOrder(w, o) \/ Reopen(w, o))
  BY <1>2 DEF WorkStep, CountUsed, InsertApplication, LoadOwnForApprove, Sign, Store, Approve,
              CountApproved, Reject, LoadForApply, LoadForApprove, LoadForReject, storeVars
<1> QED BY <1>1, <1>2

\* Only the order the worker is about gets an application.
LEMMA WorkStepApps ==
    ASSUME FInv, NEW w \in Workers, NEW o \in Orders,
           \/ WorkStep(w, o) \/ LoadForApply(w, o)
           \/ \E i \in DOMAIN apps[o] : LoadForApprove(w, o, i) \/ LoadForReject(w, o, i)
    PROVE  \A p \in Orders \ {o} : apps'[p] = apps[p]
<1>1. apps \in [Orders -> Seq(Application)]
  BY DEF FInv, FulfilmentTypeOK
<1>2. apps' = apps \/ \E new : apps' = [apps EXCEPT ![o] = new]
  BY DEF WorkStep, CountUsed, InsertApplication, MarkApplying, MarkReviewing, LoadOwnForApprove,
         Sign, Store, Approve, CountApproved, CloseOrder, Reject, Reopen, LoadForApply,
         LoadForApprove, LoadForReject
<1> QED BY <1>1, <1>2

\* A step of the issuing desk, as the others see it.
LEMMA IssuingStep ==
    ASSUME FInv, WorkOnSold, AppsOnSold, FulfilmentNext
    PROVE  /\ UNCHANGED <<attempts, booked, available, consumed, accounts, adrift>>
           /\ status' \in [Orders -> OrderStatus]
           /\ \A o \in Orders : Phase(o)' = Phase(o)
           /\ WorkOnSold' /\ AppsOnSold'
<1>1. /\ work \in [Workers -> Work] /\ status \in [Orders -> OrderStatus]
      /\ \A w \in Workers : work[w].pc # "idle" => work[w].order \in Orders
  BY DEF FInv, FulfilmentTypeOK, Knows
<1>2. ASSUME NEW w \in Workers, AbortWork(w)
      PROVE  /\ UNCHANGED <<storeVars, apps>>
             /\ \A v \in Workers : work'[v].pc # "idle" => work'[v] = work[v]
  BY <1>1, <1>2 DEF AbortWork, LayDown, Free
<1>3. CASE \E w \in Workers : AbortWork(w)
  <2>1. \A o \in Orders : Phase(o)' = Phase(o)
    BY <1>2, <1>3 DEF Phase, storeVars
  <2>2. WorkOnSold' /\ AppsOnSold'
    BY <1>1, <1>2, <1>3, <2>1 DEF WorkOnSold, AppsOnSold, Sold
  <2> QED BY <1>1, <1>2, <1>3, <2>1, <2>2 DEF storeVars
<1>4. ASSUME NEW w \in Workers, NEW o \in Orders,
             \/ WorkStep(w, o) \/ LoadForApply(w, o)
             \/ \E i \in DOMAIN apps[o] : LoadForApprove(w, o, i) \/ LoadForReject(w, o, i)
      PROVE  /\ UNCHANGED <<attempts, booked, available, consumed, accounts, adrift>>
             /\ status' \in [Orders -> OrderStatus]
             /\ \A p \in Orders : Phase(p)' = Phase(p)
             /\ WorkOnSold' /\ AppsOnSold'
  <2>1. /\ Sold(o)
        /\ \A v \in Workers \ {w} : work'[v] = work[v]
        /\ work'[w].pc # "idle" => work'[w].order = o
    BY <1>4, WorkerStaysOnSold
  <2>2. /\ UNCHANGED <<attempts, booked, available, consumed, accounts, adrift>>
        /\ \/ status' = status
           \/ \E s \in {"paid", "applying", "reviewing", "completed"} :
                 status' = [status EXCEPT ![o] = s]
    BY <1>1, <1>4, WorkStepStatus
  <2>3. \A p \in Orders : Phase(p)' = Phase(p)
    BY <1>1, <2>1, <2>2 DEF Phase, Sold
  <2>4. status' \in [Orders -> OrderStatus]
    BY <1>1, <2>2 DEF OrderStatus
  <2>5. \A p \in Orders \ {o} : apps'[p] = apps[p]
    BY <1>4, WorkStepApps
  <2>6. WorkOnSold'
    BY <1>1, <2>1, <2>3 DEF WorkOnSold, Sold
  <2>7. AppsOnSold'
    BY <2>1, <2>3, <2>5 DEF AppsOnSold, Sold
  <2> QED BY <2>2, <2>3, <2>4, <2>6, <2>7
<1> QED BY <1>3, <1>4 DEF FulfilmentNext

LEMMA IssuingKeepsInvariant ==
    ASSUME LInv, FulfilmentNext, UNCHANGED <<req, channelVars, refunds, returned, clerk, sentBack>>
    PROVE  LInv'
<1>1. /\ UNCHANGED <<attempts, booked, available, consumed, accounts, adrift>>
      /\ status' \in [Orders -> OrderStatus]
      /\ \A o \in Orders : Phase(o)' = Phase(o)
      /\ WorkOnSold' /\ AppsOnSold'
  BY IssuingStep DEF LInv
<1>2. StoreTypeOK'
  BY <1>1 DEF StoreTypeOK, LInv, Inv, TypeInv, CheckoutTypeOK
<1>3. Inv'
  BY <1>1, <1>2, InvStays DEF LInv
<1>4. BookedWhenSold'
  BY <1>1 DEF LInv, BookedWhenSold
<1>5. FInv'
  BY FulfilmentStepKept DEF LInv
<1>6. RefundInv' /\ DriftSettled'
  BY <1>1, RefundInvStays DEF LInv, DriftSettled
<1> QED BY <1>1, <1>3, <1>4, <1>5, <1>6 DEF LInv

-----------------------------------------------------------------------------
(* The cashier *)

\* A purchase at the cashier is counted by the statements that book it, or by a second
\* balance payment, which books nothing and finds the account.
CountsPurchase(o) ==
    /\ CountConsumed(o) /\ SettleBooking(o)
    /\ Owner[o] \in accounts \/ Settleable(o)

LEMMA CashierBooks ==
    ASSUME [CheckoutNext]_checkoutVars
    PROVE  UNCHANGED <<booked, consumed, adrift>> \/ \E o \in Orders : CountsPurchase(o)
<1>1. ASSUME NEW h \in Handlers, NEW o \in Orders, NEW ch, NEW txn, SettleCertOrderPaid(h, o, ch, txn)
      PROVE  UNCHANGED <<booked, consumed, adrift>> \/ CountsPurchase(o)
  BY <1>1 DEF SettleCertOrderPaid, SettleCertOrderPaidTx, SettleBooking, CountsPurchase
<1>2. ASSUME NEW h \in Handlers, NEW o \in Orders, Statement(h, o)
      PROVE  UNCHANGED <<booked, consumed, adrift>> \/ CountsPurchase(o)
  <2>1. CASE Settle(h, o)
    BY <1>1, <2>1 DEF Settle, SettleFree, SettleOffline
  <2>2. CASE PayCertOrderWithBalance(h, o)
    BY <2>2 DEF PayCertOrderWithBalance, CountsPurchase
  <2>3. CASE SettleCallback(h, o)
    BY <2>3 DEF SettleCallback, SettleCertOrderPaidTx, SettleBooking, CountsPurchase
  <2>4. CASE ~(Settle(h, o) \/ PayCertOrderWithBalance(h, o) \/ SettleCallback(h, o))
    BY <1>2, <2>4 DEF Statement, CloseOld, InsertAttempt, CreateLink, RecordLink, CreateLinkFails,
                      CloseFailed, CloseForOffline, CancelStatus, CloseCancelled, storeVars
  <2> QED BY <2>1, <2>2, <2>3, <2>4
<1>3. CASE UNCHANGED checkoutVars
  BY <1>3 DEF checkoutVars, storeVars
<1>4. CASE CheckoutNext /\ ~\E h \in Handlers, o \in Orders : Statement(h, o)
  BY <1>4 DEF CheckoutNext, LoadForPayment, LoadForOffline, LoadForCancel, LoadForCallback, UserPays,
              OpenAccount, Abort, storeVars
<1> QED BY <1>2, <1>3, <1>4

\* What the cashier sets adrift are purchases.
LEMMA CashierDrifts ==
    ASSUME [CheckoutNext]_checkoutVars
    PROVE  \A o \in Orders, n \in Nat \ {0} : <<o, n>> \in adrift' <=> <<o, n>> \in adrift
<1>1. ASSUME NEW o \in Orders, CountsPurchase(o)
      PROVE  adrift' = adrift \/ adrift' = adrift \cup {<<o, 0>>}
  BY <1>1 DEF CountsPurchase, CountConsumed
<1> QED BY <1>1, CashierBooks

LEMMA CashierKeepsInvariant ==
    ASSUME LInv, [CheckoutNext]_checkoutVars,
           UNCHANGED <<apps, work, misread, refunds, returned, clerk, sentBack>>
    PROVE  LInv'
<1>1. Inv'
  BY InvStep DEF LInv
<1>2. /\ BookedWhenSold'
      /\ \A o \in Orders :
            \/ status'[o] = status[o]
            \/ status[o] = "pending_payment" /\ status'[o] \in {"paid", "cancelled"}
  BY <1>1, BookedStep DEF LInv
<1>3. FInv'
  <2>1. status' \in [Orders -> OrderStatus]
    BY <1>1 DEF Inv, TypeInv, CheckoutTypeOK, StoreTypeOK
  <2> QED BY <1>2, <2>1, FInvStays DEF LInv
<1>4. WorkOnSold' /\ AppsOnSold'
  <2>1. SoldStays
    BY <1>2 DEF SoldStays, Sold, Phase
  <2> QED BY <2>1, SoldWorkStays DEF LInv
<1>5. RefundInv' /\ DriftSettled'
  BY RefundInvStays, CashierDrifts DEF LInv, DriftSettled
<1> QED BY <1>1, <1>2, <1>3, <1>4, <1>5 DEF LInv

-----------------------------------------------------------------------------
(* The refund desk *)

\* What a step of the refund desk does to the requests and to the other tables: nothing, ...
LeavesRefunds == UNCHANGED <<refunds, returned, status, available, consumed, adrift>>

\* ... it adds a request, ...
OpensRefund(o, row) ==
    /\ row.state = "pending"
    /\ refunds' = [refunds EXCEPT ![o] = Append(@, row)]
    /\ UNCHANGED <<returned, status, available, consumed, adrift>>

\* ... it lets a pending request fail, ...
Decides(o, i, st) ==
    /\ i \in DOMAIN refunds[o] /\ refunds[o][i].state = "pending"
    /\ refunds' = [refunds EXCEPT ![o][i].state = st]

FailsRefund(o, i) ==
    /\ Decides(o, i, "failed")
    /\ UNCHANGED <<returned, status, available, consumed, adrift>>

\* ... or it pays one: the order is refunded, the refund is on record, and the balance gets
\* the money if it came from there and there is an account.
PaysRefund(o, i) ==
    /\ Decides(o, i, "paid")
    /\ returned' = [returned EXCEPT ![o] = @ + 1]
    /\ status[o] \in {"paid", "applying"} /\ status' = [status EXCEPT ![o] = "refunded"]
    /\ consumed' = consumed \/ Refunding!Uncount(o)
    /\ IF refunds[o][i].channel \notin {"balance", "none"}
       THEN UNCHANGED <<available, adrift>>
       ELSE IF Owner[o] \in accounts
       THEN available' = [available EXCEPT ![Owner[o]] = @ + Amount[o]] /\ UNCHANGED adrift
       ELSE adrift' = adrift \cup {<<o, i>>} /\ UNCHANGED available

ChangesRefunds ==
    \/ LeavesRefunds
    \/ \E o \in Orders, row \in Refunding!RefundRequest : OpensRefund(o, row)
    \/ \E o \in Orders : \E i \in DOMAIN refunds[o] : FailsRefund(o, i) \/ PaysRefund(o, i)

LEMMA RefundUnfolded ==
    ASSUME RefundInv
    PROVE  /\ refunds \in [Orders -> Seq(Refunding!RefundRequest)]
           /\ returned \in [Orders -> Nat]
           /\ clerk \in [Clerks -> Refunding!Clerk]
           /\ sentBack \in [Orders \X Channels -> Nat]
           /\ \A c \in Clerks : clerk[c] \in Refunding!Clerk /\ ClerkKnows(clerk[c])
           /\ \A o \in Orders : refunds[o] \in Seq(Refunding!RefundRequest)
BY DEF RefundInv, Refunding!RefundTypeOK

\* The end of an approval, by a clerk that knows the request.
LEMMA RecordPays ==
    ASSUME RefundInv, NEW c \in Clerks, NEW o \in Orders, clerk[c].order = o,
           clerk[c].pc \in {"finish", "toBalance"},
           Refunding!CanFinish(o, clerk[c].refund), Refunding!RecordRefund(c, o, clerk[c].refund),
           consumed' = consumed \/ Refunding!Uncount(o),
           IF clerk[c].pc = "finish"
           THEN UNCHANGED <<available, adrift>>
           ELSE IF Owner[o] \in accounts
           THEN available' = [available EXCEPT ![Owner[o]] = @ + Amount[o]] /\ UNCHANGED adrift
           ELSE adrift' = adrift \cup {<<o, clerk[c].refund>>} /\ UNCHANGED available
    PROVE  clerk[c].refund \in DOMAIN refunds[o] /\ PaysRefund(o, clerk[c].refund)
<1> DEFINE i == clerk[c].refund
<1>1. /\ i \in DOMAIN refunds[o] /\ refunds[o][i].state = "pending"
      /\ status[o] \in {"paid", "applying"}
  BY DEF Refunding!CanFinish, Refunding!RefundsIn
<1>2. /\ refunds' = [refunds EXCEPT ![o][i].state = "paid"]
      /\ returned' = [returned EXCEPT ![o] = @ + 1]
      /\ status' = [status EXCEPT ![o] = "refunded"]
  BY DEF Refunding!RecordRefund
<1>3. Decides(o, i, "paid")
  BY <1>1, <1>2 DEF Decides
<1>4. ClerkKnows(clerk[c])
  BY RefundUnfolded
<1>5. refunds[o][i].channel = clerk[c].channel
  BY <1>4 DEF ClerkKnows
<1>6. /\ clerk[c].pc = "toBalance" => clerk[c].channel \in {"balance", "none"}
      /\ clerk[c].pc = "finish" => clerk[c].channel \in Channels \cup {"free", "offline"}
  BY <1>4 DEF ClerkKnows
<1>7. \A ch \in Channels \cup {"free", "offline"} : ch \notin {"balance", "none"}
  BY ChannelAssumption, NoneAssumption
<1>8. refunds[o][i].channel \in {"balance", "none"} <=> clerk[c].pc = "toBalance"
  BY <1>5, <1>6, <1>7
<1> HIDE DEF i
<1>9. i = clerk[c].refund
  BY DEF i
<1> QED BY <1>1, <1>2, <1>3, <1>8, <1>9 DEF PaysRefund

LEMMA FailsOrLeaves ==
    ASSUME NEW o \in Orders, NEW i, Refunding!FailRefund(o, i),
           UNCHANGED <<returned, status, available, consumed, adrift>>
    PROVE  LeavesRefunds \/ \E j \in DOMAIN refunds[o] : FailsRefund(o, j)
BY DEF Refunding!FailRefund, Refunding!RefundsIn, FailsRefund, Decides, LeavesRefunds

\* Every step of the desk is one of these, and leaves payments and purchases alone.
LEMMA RefundChanges ==
    ASSUME RefundInv, Refunding!RefundNext
    PROVE  ChangesRefunds /\ UNCHANGED <<attempts, booked, accounts>>
<1>1. ASSUME NEW c \in Clerks, NEW o \in Orders,
             \/ Refunding!LoadForRefund(c, o)
             \/ \E i \in DOMAIN refunds[o] : Refunding!LoadForApprove(c, o, i)
             \/ Refunding!CountClaims(c, o) \/ Refunding!CountRefunds(c, o)
             \/ Refunding!ReadChannel(c, o)
             \/ Refunding!CallChannelSucceeds(c, o) \/ Refunding!CallChannelFails(c, o)
      PROVE  ChangesRefunds /\ UNCHANGED <<attempts, booked, accounts>>
  BY <1>1 DEF Refunding!LoadForRefund, Refunding!LoadForApprove, Refunding!CountClaims,
              Refunding!CountRefunds, Refunding!ReadChannel, Refunding!CallChannelSucceeds,
              Refunding!CallChannelFails, Refunding!storeVars, ChangesRefunds, LeavesRefunds
<1>2. ASSUME NEW c \in Clerks, Refunding!Abort(c)
      PROVE  ChangesRefunds /\ UNCHANGED <<attempts, booked, accounts>>
  BY <1>2 DEF Refunding!Abort, Refunding!storeVars, ChangesRefunds, LeavesRefunds
<1>3. ASSUME NEW c \in Clerks, NEW o \in Orders, Refunding!InsertRefund(c, o)
      PROVE  ChangesRefunds /\ UNCHANGED <<attempts, booked, accounts>>
  <2> DEFINE row == [channel |-> clerk[c].channel, state |-> "pending"]
  <2>1. row \in Refunding!RefundRequest /\ row.state = "pending"
    BY RefundUnfolded DEF Refunding!RefundRequest, Refunding!RefundState, Refunding!Clerk
  <2>2. /\ refunds' = [refunds EXCEPT ![o] = Append(@, row)]
        /\ UNCHANGED <<returned, status, available, consumed, adrift, attempts, booked, accounts>>
    BY <1>3 DEF Refunding!InsertRefund, Refunding!storeVars
  <2> QED BY <2>1, <2>2 DEF OpensRefund, ChangesRefunds
<1>4. ASSUME NEW c \in Clerks, NEW o \in Orders, Refunding!RefundToBalance(c, o)
      PROVE  ChangesRefunds /\ UNCHANGED <<attempts, booked, accounts>>
  <2>1. /\ clerk[c].order = o /\ clerk[c].pc = "toBalance" /\ clerk[c].pc # "finish"
        /\ UNCHANGED <<attempts, booked, accounts>>
    BY <1>4 DEF Refunding!RefundToBalance, Refunding!At
  <2>2. CASE Refunding!CanFinish(o, clerk[c].refund)
    BY <1>4, <2>1, <2>2, RecordPays DEF Refunding!RefundToBalance, ChangesRefunds
  <2>3. CASE ~Refunding!CanFinish(o, clerk[c].refund)
    BY <1>4, <2>1, <2>3 DEF Refunding!RefundToBalance, ChangesRefunds, LeavesRefunds
  <2> QED BY <2>2, <2>3
<1>5. ASSUME NEW c \in Clerks, NEW o \in Orders, Refunding!FinishCertOrderRefund(c, o)
      PROVE  ChangesRefunds /\ UNCHANGED <<attempts, booked, accounts>>
  <2>1. /\ clerk[c].order = o /\ clerk[c].pc = "finish" /\ clerk[c].pc # "toBalance"
        /\ UNCHANGED <<attempts, booked, accounts, available, adrift>>
    BY <1>5 DEF Refunding!FinishCertOrderRefund, Refunding!At
  <2>2. CASE Refunding!CanFinish(o, clerk[c].refund)
    BY <1>5, <2>1, <2>2, RecordPays DEF Refunding!FinishCertOrderRefund, ChangesRefunds
  <2>3. CASE ~Refunding!CanFinish(o, clerk[c].refund)
    BY <1>5, <2>1, <2>3 DEF Refunding!FinishCertOrderRefund, ChangesRefunds, LeavesRefunds
  <2> QED BY <2>2, <2>3
<1>6. ASSUME NEW c \in Clerks, NEW o \in Orders, Refunding!MarkRefundFailed(c, o)
      PROVE  ChangesRefunds /\ UNCHANGED <<attempts, booked, accounts>>
  BY <1>6, FailsOrLeaves DEF Refunding!MarkRefundFailed, Refunding!storeVars, ChangesRefunds
<1>7. ASSUME NEW o \in Orders, NEW i \in DOMAIN refunds[o], Refunding!RejectRefund(o, i)
      PROVE  ChangesRefunds /\ UNCHANGED <<attempts, booked, accounts>>
  BY <1>7, FailsOrLeaves DEF Refunding!RejectRefund, Refunding!storeVars, ChangesRefunds
<1> QED BY <1>1, <1>2, <1>3, <1>4, <1>5, <1>6, <1>7 DEF Refunding!RefundNext, Refunding!Statement

\* Rows keep their channel, and the outcome of a decided request is never changed.
RequestsEvolve ==
    \A o \in Orders : \A i \in DOMAIN refunds[o] :
        /\ i \in DOMAIN refunds'[o]
        /\ refunds'[o][i].channel = refunds[o][i].channel
        /\ refunds[o][i].state # "pending" => refunds'[o][i] = refunds[o][i]

LEMMA RequestsStep ==
    ASSUME RefundInv, ChangesRefunds
    PROVE  /\ refunds' \in [Orders -> Seq(Refunding!RefundRequest)]
           /\ returned' \in [Orders -> Nat]
           /\ RequestsEvolve
<1>1. CASE LeavesRefunds
  BY <1>1, RefundUnfolded DEF LeavesRefunds, RequestsEvolve
<1>2. ASSUME NEW o \in Orders, NEW row \in Refunding!RefundRequest, OpensRefund(o, row)
      PROVE  /\ refunds' \in [Orders -> Seq(Refunding!RefundRequest)]
             /\ returned' \in [Orders -> Nat]
             /\ RequestsEvolve
  BY <1>2, RefundUnfolded DEF OpensRefund, RequestsEvolve
<1>3. ASSUME NEW o \in Orders, NEW i \in DOMAIN refunds[o], NEW st \in {"failed", "paid"},
             Decides(o, i, st)
      PROVE  refunds' \in [Orders -> Seq(Refunding!RefundRequest)] /\ RequestsEvolve
  <2>1. PICK row : row = [refunds[o][i] EXCEPT !.state = st]
    OBVIOUS
  <2>2. refunds[o] \in Seq(Refunding!RefundRequest) /\ refunds[o][i] \in Refunding!RefundRequest
    BY RefundUnfolded
  <2>3. row \in Refunding!RefundRequest /\ row.channel = refunds[o][i].channel
    BY <2>1, <2>2 DEF Refunding!RefundRequest, Refunding!RefundState
  <2>4. PICK new \in Seq(Refunding!RefundRequest) : new = [refunds[o] EXCEPT ![i] = row]
    <3>1. [refunds[o] EXCEPT ![i] = row] \in Seq(Refunding!RefundRequest)
      BY <2>2, <2>3
    <3> QED BY <3>1
  <2>5. refunds' = [refunds EXCEPT ![o] = new]
    BY <1>3, <2>1, <2>4 DEF Decides
  <2>6. /\ refunds'[o] = new /\ DOMAIN new = DOMAIN refunds[o] /\ new[i] = row
        /\ \A j \in DOMAIN refunds[o] : j # i => new[j] = refunds[o][j]
        /\ \A p \in Orders : p # o => refunds'[p] = refunds[p]
    BY <2>2, <2>4, <2>5, RefundUnfolded
  <2>7. RequestsEvolve
    BY <1>3, <2>3, <2>6 DEF RequestsEvolve, Decides
  <2> QED BY <2>4, <2>5, <2>7, RefundUnfolded
<1>4. ASSUME NEW o \in Orders, NEW i \in DOMAIN refunds[o], FailsRefund(o, i) \/ PaysRefund(o, i)
      PROVE  /\ refunds' \in [Orders -> Seq(Refunding!RefundRequest)]
             /\ returned' \in [Orders -> Nat]
             /\ RequestsEvolve
  <2>1. returned' \in [Orders -> Nat]
    BY <1>4, RefundUnfolded DEF FailsRefund, PaysRefund
  <2> QED BY <1>3, <1>4, <2>1 DEF FailsRefund, PaysRefund
<1> QED BY <1>1, <1>2, <1>4 DEF ChangesRefunds

\* What a clerk knows of a row stays true.
LEMMA ClerkKnowsStill ==
    ASSUME RefundInv, RequestsEvolve, NEW k, ClerkKnows(k)
    PROVE  ClerkKnows(k)'
BY DEF ClerkKnows, RequestsEvolve

\* A clerk rests, or takes its next step knowing what it is about.
ClerkMoves(c) == \E k \in Refunding!Clerk : clerk' = [clerk EXCEPT ![c] = k] /\ ClerkKnows(k)

LEMMA NoTask == Refunding!Free \in Refunding!Clerk /\ ClerkKnows(Refunding!Free)
BY DEF Refunding!Free, Refunding!Clerk, Refunding!ClerkPCs, ClerkKnows

LEMMA Rests ==
    ASSUME NEW c \in Clerks, Refunding!Return(c)
    PROVE  ClerkMoves(c)
BY NoTask DEF Refunding!Return, ClerkMoves

LEMMA GoesOn ==
    ASSUME RefundInv, NEW c \in Clerks, clerk[c].pc # "idle",
           NEW pc \in {"countRefunds", "readChannel", "insert", "finish", "markFailed"},
           NEW ch \in AllChannels \cup {"none"},
           clerk' = [clerk EXCEPT ![c].pc = pc, ![c].channel = ch],
           pc \in {"finish", "markFailed"} =>
              clerk[c].pc = "callChannel" /\ ch = clerk[c].channel
    PROVE  ClerkMoves(c)
<1>1. clerk[c] \in Refunding!Clerk /\ ClerkKnows(clerk[c])
  BY RefundUnfolded
<1>2. PICK k : k = [clerk[c] EXCEPT !.pc = pc, !.channel = ch]
  OBVIOUS
<1>3. /\ k \in Refunding!Clerk
      /\ k.pc = pc /\ k.channel = ch /\ k.order = clerk[c].order /\ k.refund = clerk[c].refund
  BY <1>1, <1>2 DEF Refunding!Clerk, Refunding!ClerkPCs, Refunding!AllChannels, AllChannels
<1>4. ClerkKnows(k)
  BY <1>1, <1>3 DEF ClerkKnows
<1> QED BY <1>2, <1>3, <1>4 DEF ClerkMoves

\* The branch an approval takes is the one for the channel of the request.
LEMMA TakesBranch ==
    ASSUME RefundInv, NEW c \in Clerks, NEW o \in Orders, NEW i \in DOMAIN refunds[o],
           Refunding!LoadForApprove(c, o, i)
    PROVE  ClerkMoves(c)
<1>1. refunds[o] \in Seq(Refunding!RefundRequest)
  BY RefundUnfolded
<1>2. refunds[o][i].channel \in AllChannels \cup {"none"} /\ i \in Nat
  <2>1. refunds[o][i] \in Refunding!RefundRequest /\ DOMAIN refunds[o] \subseteq Nat
    BY <1>1
  <2> QED BY <2>1 DEF Refunding!RefundRequest, Refunding!AllChannels, AllChannels
<1>3. PICK ch \in AllChannels \cup {"none"} : ch = refunds[o][i].channel
  BY <1>2
<1>4. PICK pc : pc = Refunding!ApproveBranch(ch)
  OBVIOUS
<1>5. /\ pc \in {"finish", "toBalance", "callChannel"}
      /\ pc = "finish" => ch \in {"free", "offline"}
      /\ pc = "toBalance" => ch \in {"balance", "none"}
      /\ pc = "callChannel" => ch \in Channels
  BY <1>4 DEF Refunding!ApproveBranch, AllChannels
<1>6. PICK k : k = [pc |-> pc, order |-> o, channel |-> ch, refund |-> i]
  OBVIOUS
<1>7. /\ k \in Refunding!Clerk
      /\ k.pc = pc /\ k.order = o /\ k.channel = ch /\ k.refund = i
  BY <1>2, <1>5, <1>6 DEF Refunding!Clerk, Refunding!ClerkPCs, Refunding!AllChannels, AllChannels
<1>8. ClerkKnows(k)
  BY <1>3, <1>5, <1>7 DEF ClerkKnows
<1> QED BY <1>3, <1>4, <1>6, <1>7, <1>8 DEF Refunding!LoadForApprove, Refunding!Begin, ClerkMoves

LEMMA ClerkStep ==
    ASSUME RefundInv, attempts \in [Orders -> Seq(Attempt)], Refunding!RefundNext
    PROVE  UNCHANGED clerk \/ \E c \in Clerks : ClerkMoves(c)
<1> DEFINE Result == UNCHANGED clerk \/ \E c \in Clerks : ClerkMoves(c)
<1>1. ASSUME NEW c \in Clerks, NEW o \in Orders, Refunding!LoadForRefund(c, o) PROVE Result
  <2>1. PICK k : k = [pc |-> "countClaims", order |-> o, channel |-> "none", refund |-> 0]
    OBVIOUS
  <2>2. k \in Refunding!Clerk /\ ClerkKnows(k)
    BY <2>1 DEF Refunding!Clerk, Refunding!ClerkPCs, ClerkKnows
  <2> QED BY <1>1, <2>1, <2>2 DEF Refunding!LoadForRefund, Refunding!Begin, ClerkMoves
<1>2. ASSUME NEW c \in Clerks, NEW o \in Orders, NEW i \in DOMAIN refunds[o],
             Refunding!LoadForApprove(c, o, i)
      PROVE  Result
  BY <1>2, TakesBranch
<1>3. ASSUME NEW c \in Clerks,
             \/ Refunding!Abort(c)
             \/ \E o \in Orders : \/ Refunding!InsertRefund(c, o) \/ Refunding!RefundToBalance(c, o)
                                  \/ Refunding!FinishCertOrderRefund(c, o)
                                  \/ Refunding!MarkRefundFailed(c, o)
      PROVE  Result
  BY <1>3, Rests DEF Refunding!Abort, Refunding!InsertRefund, Refunding!RefundToBalance,
                     Refunding!FinishCertOrderRefund, Refunding!MarkRefundFailed
\* A step to the next statement keeps the channel the clerk has.
<1>4. ASSUME NEW c \in Clerks, clerk[c].pc # "idle",
             NEW pc \in {"countRefunds", "readChannel", "finish", "markFailed"}, Refunding!GoTo(c, pc),
             pc \in {"finish", "markFailed"} => clerk[c].pc = "callChannel"
      PROVE  ClerkMoves(c)
  <2>1. clerk[c] \in Refunding!Clerk
    BY RefundUnfolded
  <2>2. PICK ch \in AllChannels \cup {"none"} : ch = clerk[c].channel
    BY <2>1 DEF Refunding!Clerk, Refunding!AllChannels, AllChannels
  <2>3. PICK r \in Refunding!Clerk : r = clerk[c]
    BY <2>1
  <2>4. [r EXCEPT !.pc = pc] = [[r EXCEPT !.pc = pc] EXCEPT !.channel = r.channel]
    BY DEF Refunding!Clerk
  <2>5. clerk' = [clerk EXCEPT ![c] = [r EXCEPT !.pc = pc]]
    BY <1>4, <2>3 DEF Refunding!GoTo
  <2>6. clerk' = [clerk EXCEPT ![c] = [[clerk[c] EXCEPT !.pc = pc] EXCEPT !.channel = ch]]
    BY <2>2, <2>3, <2>4, <2>5
  <2>7. clerk' = [clerk EXCEPT ![c].pc = pc, ![c].channel = ch]
    BY <2>6
  <2> QED BY <1>4, <2>2, <2>7, GoesOn
<1>5. ASSUME NEW c \in Clerks, NEW o \in Orders,
             \/ Refunding!CountClaims(c, o) \/ Refunding!CountRefunds(c, o)
             \/ Refunding!CallChannelSucceeds(c, o) \/ Refunding!CallChannelFails(c, o)
      PROVE  Result
  BY <1>4, <1>5, Rests DEF Refunding!CountClaims, Refunding!CountRefunds,
        Refunding!CallChannelSucceeds, Refunding!CallChannelFails, Refunding!At
<1>6. ASSUME NEW c \in Clerks, NEW o \in Orders, Refunding!ReadChannel(c, o) PROVE Result
  <2>1. PICK ch : /\ clerk' = [clerk EXCEPT ![c].pc = "insert", ![c].channel = ch]
                  /\ \/ ch = "none"
                     \/ \E i \in DOMAIN attempts[o] : ch = attempts[o][i].channel
    BY <1>6 DEF Refunding!ReadChannel
  <2>2. \A i \in DOMAIN attempts[o] : attempts[o][i] \in Attempt
    OBVIOUS
  <2>3. ch \in AllChannels \cup {"none"}
    BY <2>1, <2>2 DEF Attempt
  <2>4. clerk[c].pc # "idle"
    BY <1>6 DEF Refunding!ReadChannel, Refunding!At
  <2> QED BY <2>1, <2>3, <2>4, GoesOn
<1>7. ASSUME NEW o \in Orders, NEW i \in DOMAIN refunds[o], Refunding!RejectRefund(o, i) PROVE Result
  BY <1>7 DEF Refunding!RejectRefund
<1> QED BY <1>1, <1>2, <1>3, <1>5, <1>6, <1>7 DEF Refunding!RefundNext, Refunding!Statement

\* What a channel pays back is counted.
LEMMA SentBackStep ==
    ASSUME RefundInv, Refunding!RefundNext
    PROVE  \/ UNCHANGED sentBack
           \/ \E c \in Clerks, o \in Orders :
                 /\ clerk[c].pc = "callChannel" /\ clerk[c].order = o
                 /\ Refunding!ChannelRefunds(o, clerk[c].channel)
                 /\ \/ Refunding!GoTo(c, "finish")
                    \/ Refunding!GoTo(c, "markFailed")
<1>1. ASSUME NEW c \in Clerks, NEW o \in Orders,
             Refunding!CallChannelSucceeds(c, o) \/ Refunding!CallChannelFails(c, o)
      PROVE  \/ UNCHANGED sentBack
             \/ /\ clerk[c].pc = "callChannel" /\ clerk[c].order = o
                /\ Refunding!ChannelRefunds(o, clerk[c].channel)
                /\ Refunding!GoTo(c, "finish") \/ Refunding!GoTo(c, "markFailed")
  BY <1>1 DEF Refunding!CallChannelSucceeds, Refunding!CallChannelFails, Refunding!At
<1>2. ASSUME ~\E c \in Clerks, o \in Orders :
                 Refunding!CallChannelSucceeds(c, o) \/ Refunding!CallChannelFails(c, o)
      PROVE  UNCHANGED sentBack
  BY <1>2 DEF Refunding!RefundNext, Refunding!Statement, Refunding!LoadForRefund,
       Refunding!LoadForApprove, Refunding!CountClaims, Refunding!CountRefunds,
       Refunding!ReadChannel, Refunding!InsertRefund, Refunding!RefundToBalance,
       Refunding!FinishCertOrderRefund, Refunding!MarkRefundFailed, Refunding!RejectRefund,
       Refunding!Abort
<1> QED BY <1>1, <1>2

LEMMA SentBackType ==
    ASSUME RefundInv, Refunding!RefundNext
    PROVE  sentBack' \in [Orders \X Channels -> Nat]
<1>1. CASE UNCHANGED sentBack
  BY <1>1, RefundUnfolded
<1>2. ASSUME NEW c \in Clerks, NEW o \in Orders, clerk[c].pc = "callChannel",
             Refunding!ChannelRefunds(o, clerk[c].channel)
      PROVE  sentBack' \in [Orders \X Channels -> Nat]
  <2>1. PICK ch \in Channels : ch = clerk[c].channel
    BY <1>2, RefundUnfolded DEF ClerkKnows
  <2>2. PICK oc \in Orders \X Channels : oc = <<o, ch>>
    BY <2>1
  <2>3. sentBack[oc] \in Nat /\ sentBack' = [sentBack EXCEPT ![oc] = @ + 1]
    BY <1>2, <2>1, <2>2, RefundUnfolded DEF Refunding!ChannelRefunds
  <2> QED BY <2>3, RefundUnfolded
<1> QED BY <1>1, <1>2, SentBackStep

LEMMA RefundInvStep ==
    ASSUME RefundInv, attempts \in [Orders -> Seq(Attempt)], Refunding!RefundNext
    PROVE  RefundInv' /\ RequestsEvolve
<1>1. /\ refunds' \in [Orders -> Seq(Refunding!RefundRequest)]
      /\ returned' \in [Orders -> Nat]
      /\ RequestsEvolve
  BY RefundChanges, RequestsStep
<1>2. sentBack' \in [Orders \X Channels -> Nat]
  BY SentBackType
<1>3. clerk' \in [Clerks -> Refunding!Clerk] /\ \A c \in Clerks : ClerkKnows(clerk[c])'
  <2>1. CASE UNCHANGED clerk
    <3>1. ASSUME NEW c \in Clerks PROVE ClerkKnows(clerk[c])'
      <4>1. PICK e : e = clerk[c] /\ e = clerk'[c] /\ ClerkKnows(e)
        BY <2>1, RefundUnfolded
      <4>2. ClerkKnows(e)'
        BY <1>1, <4>1, ClerkKnowsStill
      <4> QED BY <4>1, <4>2 DEF ClerkKnows
    <3> QED BY <2>1, <3>1, RefundUnfolded
  <2>2. ASSUME NEW c \in Clerks, ClerkMoves(c)
        PROVE  clerk' \in [Clerks -> Refunding!Clerk] /\ \A d \in Clerks : ClerkKnows(clerk[d])'
    <3>1. PICK k \in Refunding!Clerk : clerk' = [clerk EXCEPT ![c] = k] /\ ClerkKnows(k)
      BY <2>2 DEF ClerkMoves
    <3>2. clerk' \in [Clerks -> Refunding!Clerk]
      BY <3>1, RefundUnfolded
    <3>3. ASSUME NEW d \in Clerks PROVE ClerkKnows(clerk[d])'
      <4>1. PICK e : e = clerk'[d] /\ ClerkKnows(e)
        BY <3>1, RefundUnfolded
      <4>2. ClerkKnows(e)'
        BY <1>1, <4>1, ClerkKnowsStill
      <4> QED BY <4>1, <4>2 DEF ClerkKnows
    <3> QED BY <3>2, <3>3
  <2> QED BY <2>1, <2>2, ClerkStep
<1> QED BY <1>1, <1>2, <1>3 DEF RefundInv, Refunding!RefundTypeOK

\* A refund ends an order that was sold, and does not open it again.
LEMMA RefundKeepsPhase ==
    ASSUME ChangesRefunds, StoreTypeOK
    PROVE  /\ status' \in [Orders -> OrderStatus]
           /\ \A o \in Orders : /\ Phase(o)' = Phase(o)
                                /\ status'[o] = "completed" => status[o] = "completed"
<1>1. status \in [Orders -> OrderStatus]
  BY DEF StoreTypeOK
<1>2. CASE status' = status
  BY <1>1, <1>2 DEF Phase
<1>3. CASE \E o \in Orders : /\ status[o] \in {"paid", "applying"}
                             /\ status' = [status EXCEPT ![o] = "refunded"]
  BY <1>1, <1>3 DEF Phase, OrderStatus
<1> QED BY <1>2, <1>3 DEF ChangesRefunds, LeavesRefunds, OpensRefund, FailsRefund, PaysRefund

LEMMA RefundKeepsStore ==
    ASSUME RefundInv, ChangesRefunds, StoreTypeOK, UNCHANGED <<attempts, booked, accounts>>
    PROVE  StoreTypeOK'
<1>1. /\ available \in [Users -> Nat] /\ consumed \in [Users -> Int]
      /\ adrift \subseteq Orders \X Nat
  BY DEF StoreTypeOK
<1>2. CASE UNCHANGED <<available, consumed, adrift>>
  BY <1>2, RefundKeepsPhase DEF StoreTypeOK
<1>3. ASSUME NEW o \in Orders, NEW i \in DOMAIN refunds[o], PaysRefund(o, i)
      PROVE  /\ available' \in [Users -> Nat] /\ consumed' \in [Users -> Int]
             /\ adrift' \subseteq Orders \X Nat
  <2>1. Owner[o] \in Users /\ Amount[o] \in Nat
    BY OwnerAssumption, AmountAssumption
  <2>2. available' \in [Users -> Nat]
    BY <1>1, <1>3, <2>1 DEF PaysRefund
  <2>3. consumed' \in [Users -> Int]
    BY <1>1, <1>3, <2>1 DEF PaysRefund, Refunding!Uncount
  <2>4. i \in Nat
    BY RefundUnfolded
  <2>5. adrift' = adrift \/ adrift' = adrift \cup {<<o, i>>}
    BY <1>3 DEF PaysRefund
  <2> QED BY <1>1, <2>2, <2>3, <2>4, <2>5
<1>4. CASE \E o \in Orders : \E i \in DOMAIN refunds[o] : PaysRefund(o, i)
  BY <1>3, <1>4, RefundKeepsPhase DEF StoreTypeOK
<1> QED BY <1>2, <1>4 DEF ChangesRefunds, LeavesRefunds, OpensRefund, FailsRefund

LEMMA RefundKeepsInvariant ==
    ASSUME LInv, Refunding!RefundNext, UNCHANGED <<req, channelVars, apps, work, misread>>
    PROVE  /\ LInv'
           /\ ChangesRefunds /\ RequestsEvolve /\ UNCHANGED <<attempts, booked, accounts>>
           /\ \A o \in Orders : Phase(o)' = Phase(o)
<1>1. StoreTypeOK /\ attempts \in [Orders -> Seq(Attempt)]
  BY DEF LInv, Inv, TypeInv, CheckoutTypeOK, StoreTypeOK
<1>2. ChangesRefunds /\ UNCHANGED <<attempts, booked, accounts>>
  BY RefundChanges DEF LInv
<1>3. RefundInv' /\ RequestsEvolve
  BY <1>1, RefundInvStep DEF LInv
<1>4. /\ status' \in [Orders -> OrderStatus]
      /\ \A o \in Orders : /\ Phase(o)' = Phase(o)
                           /\ status'[o] = "completed" => status[o] = "completed"
  BY <1>1, <1>2, RefundKeepsPhase
<1>5. Inv'
  BY <1>1, <1>2, RefundKeepsStore, InvStays DEF LInv
<1>9. DriftSettled'
  <2>1. ASSUME NEW p \in Orders, NEW n \in Nat \ {0}, <<p, n>> \in adrift
        PROVE  n \in DOMAIN refunds'[p] /\ refunds'[p][n].state = "paid"
    BY <1>3, <2>1 DEF LInv, DriftSettled, RequestsEvolve
  <2>2. CASE adrift' = adrift
    BY <2>1, <2>2 DEF DriftSettled
  <2>3. ASSUME NEW o \in Orders, NEW i \in DOMAIN refunds[o], PaysRefund(o, i),
               adrift' = adrift \cup {<<o, i>>}
        PROVE  DriftSettled'
    <3>1. i \in DOMAIN refunds'[o] /\ refunds'[o][i].state = "paid"
      <4>1. /\ refunds[o] \in Seq(Refunding!RefundRequest)
            /\ refunds[o][i] \in Refunding!RefundRequest
        BY RefundUnfolded DEF LInv
      <4>2. /\ DOMAIN refunds'[o] = DOMAIN refunds[o]
            /\ refunds'[o][i] = [refunds[o][i] EXCEPT !.state = "paid"]
        BY <2>3, <4>1, RefundUnfolded DEF PaysRefund, Decides, LInv
      <4> QED BY <4>1, <4>2 DEF Refunding!RefundRequest
    <3>2. ASSUME NEW p \in Orders, NEW n \in Nat \ {0}, <<p, n>> \in adrift'
          PROVE  n \in DOMAIN refunds'[p] /\ refunds'[p][n].state = "paid"
      <4>1. <<p, n>> \in adrift \/ (p = o /\ n = i)
        BY <2>3, <3>2
      <4> QED BY <2>1, <3>1, <4>1
    <3> QED BY <3>2 DEF DriftSettled
  <2>4. ASSUME NEW o \in Orders, NEW i \in DOMAIN refunds[o], PaysRefund(o, i)
        PROVE  adrift' = adrift \/ adrift' = adrift \cup {<<o, i>>}
    BY <2>4 DEF PaysRefund
  <2> QED BY <1>2, <2>2, <2>3, <2>4 DEF ChangesRefunds, LeavesRefunds, OpensRefund, FailsRefund
<1>6. BookedWhenSold'
  BY <1>2, <1>4 DEF LInv, BookedWhenSold
<1>7. FInv'
  BY <1>4, FInvStays DEF LInv
<1>8. WorkOnSold' /\ AppsOnSold'
  BY <1>4, SoldWorkStays DEF LInv, SoldStays, Sold
<1> QED BY <1>2, <1>3, <1>4, <1>5, <1>6, <1>7, <1>8, <1>9 DEF LInv

-----------------------------------------------------------------------------
(* The invariant of the whole *)

LEMMA LifecycleStarts == ASSUME LifecycleInit PROVE LInv
<1>1. Inv /\ BookedWhenSold
  BY InvInit, BookedInit DEF LifecycleInit, BookedOnSale
<1>2. /\ apps = [o \in Orders |-> <<>>] /\ work = [w \in Workers |-> Free]
      /\ status = [o \in Orders |-> "pending_payment"]
      /\ misread = {} /\ adrift = {}
  BY DEF LifecycleInit, WorkInit, CheckoutInit, StoreInit
<1>3. \A o \in Orders : DOMAIN apps[o] = {} /\ apps[o] \in Seq(Application)
  <2> SUFFICES ASSUME NEW o \in Orders PROVE DOMAIN apps[o] = {} /\ apps[o] \in Seq(Application)
    OBVIOUS
  <2>1. apps[o] \in Seq(Application) /\ Len(apps[o]) = 0
    BY <1>2
  <2> QED BY <2>1
<1>4. FInv
  <2>1. Free \in Work /\ Free.pc = "idle" /\ "pending_payment" \in OrderStatus
    BY DEF Free, Work, WorkPCs, OrderStatus
  <2>2. FulfilmentTypeOK /\ status \in [Orders -> OrderStatus]
    BY <1>2, <1>3, <2>1 DEF FulfilmentTypeOK
  <2>3. ApprovedHasCertificate /\ CompletedIsFulfilled
    BY <1>2, <1>3 DEF ApprovedHasCertificate, CompletedIsFulfilled, AppsIn
  <2>4. \A w \in Workers : Knows(work[w])
    BY <1>2, <2>1 DEF Knows
  <2> QED BY <2>2, <2>3, <2>4 DEF FInv
<1>5. WorkOnSold /\ AppsOnSold
  BY <1>2, <1>3 DEF WorkOnSold, AppsOnSold, Free
<1>6. RefundInv
  <2>1. /\ refunds = [o \in Orders |-> <<>>] /\ returned = [o \in Orders |-> 0]
        /\ clerk = [c \in Clerks |-> Refunding!Free]
        /\ sentBack = [oc \in Orders \X Channels |-> 0]
    BY DEF LifecycleInit, Refunding!RefundInit
  <2>2. <<>> \in Seq(Refunding!RefundRequest)
    OBVIOUS
  <2> QED BY <2>1, <2>2, NoTask DEF RefundInv, Refunding!RefundTypeOK
<1>7. DriftSettled
  BY <1>2 DEF DriftSettled
<1> QED BY <1>1, <1>4, <1>5, <1>6, <1>7 DEF LInv

LEMMA LifecycleStep ==
    ASSUME LInv, [LifecycleNext]_lifecycleVars
    PROVE  LInv'
<1>1. CASE [CheckoutNext]_checkoutVars
              /\ UNCHANGED <<apps, work, misread, refunds, returned, clerk, sentBack>>
  BY <1>1, CashierKeepsInvariant
<1>2. CASE FulfilmentNext /\ UNCHANGED <<req, channelVars, refunds, returned, clerk, sentBack>>
  BY <1>2, IssuingKeepsInvariant
<1>3. CASE Refunding!RefundNext /\ UNCHANGED <<req, channelVars, apps, work, misread>>
  BY <1>3, RefundKeepsInvariant
<1> QED BY <1>1, <1>2, <1>3 DEF LifecycleNext, lifecycleVars, checkoutVars

\* At any time the inductive invariant holds.
LEMMA LifecycleInvariant == LifecycleSpec => []LInv
BY LifecycleStarts, LifecycleStep, PTL DEF LifecycleSpec

-----------------------------------------------------------------------------
(* Refund requests that were paid *)

PaidThrough(rows, channels) ==
    {i \in DOMAIN rows : rows[i].state = "paid" /\ rows[i].channel \in channels}

LEMMA PaidRefundsUnfolded ==
    ASSUME NEW channels
    PROVE  \A o \in Orders : /\ PaidRefunds(o, channels) = PaidThrough(refunds[o], channels)
                             /\ PaidRefunds(o, channels)' = PaidThrough(refunds'[o], channels)
BY DEF PaidRefunds, PaidThrough, Refunding!RefundsIn

LEMMA PaidThroughFinite ==
    ASSUME NEW rows \in Seq(Refunding!RefundRequest), NEW channels
    PROVE  /\ IsFiniteSet(PaidThrough(rows, channels))
           /\ Cardinality(PaidThrough(rows, channels)) \in Nat
<1>1. DOMAIN rows = 1 .. Len(rows) /\ Len(rows) \in Nat
  OBVIOUS
<1>2. IsFiniteSet(1 .. Len(rows)) /\ PaidThrough(rows, channels) \subseteq 1 .. Len(rows)
  BY <1>1, UpToIsFinite DEF PaidThrough
<1>3. IsFiniteSet(PaidThrough(rows, channels))
  BY <1>2, FS_Subset
<1> QED BY <1>3, FS_CardinalityType

\* Only the end of an approval pays a request, ...
LEMMA PaidStays ==
    ASSUME RefundInv, NEW channels, NEW o \in Orders,
           \/ LeavesRefunds
           \/ \E p \in Orders, row \in Refunding!RefundRequest : OpensRefund(p, row)
           \/ \E p \in Orders : \E i \in DOMAIN refunds[p] : FailsRefund(p, i)
    PROVE  PaidThrough(refunds'[o], channels) = PaidThrough(refunds[o], channels)
<1>1. CASE LeavesRefunds
  BY <1>1 DEF LeavesRefunds
<1>2. ASSUME NEW p \in Orders, NEW row \in Refunding!RefundRequest, OpensRefund(p, row)
      PROVE  PaidThrough(refunds'[o], channels) = PaidThrough(refunds[o], channels)
  <2>1. CASE o # p
    BY <1>2, <2>1, RefundUnfolded DEF OpensRefund
  <2>2. CASE o = p
    <3>1. /\ refunds[o] \in Seq(Refunding!RefundRequest)
          /\ refunds'[o] = Append(refunds[o], row)
      BY <1>2, <2>2, RefundUnfolded DEF OpensRefund
    <3>2. /\ DOMAIN refunds'[o] = DOMAIN refunds[o] \cup {Len(refunds[o]) + 1}
          /\ refunds'[o][Len(refunds[o]) + 1] = row
          /\ \A i \in DOMAIN refunds[o] : refunds'[o][i] = refunds[o][i]
      BY <3>1
    <3> QED BY <1>2, <3>2 DEF OpensRefund, PaidThrough
  <2> QED BY <2>1, <2>2
<1>3. ASSUME NEW p \in Orders, NEW i \in DOMAIN refunds[p], FailsRefund(p, i)
      PROVE  PaidThrough(refunds'[o], channels) = PaidThrough(refunds[o], channels)
  <2>1. CASE o # p
    BY <1>3, <2>1, RefundUnfolded DEF FailsRefund, Decides
  <2>2. CASE o = p
    <3>1. refunds[o][i] \in Refunding!RefundRequest
      BY <2>2, RefundUnfolded
    <3>2. /\ DOMAIN refunds'[o] = DOMAIN refunds[o]
          /\ refunds'[o][i] = [refunds[o][i] EXCEPT !.state = "failed"]
          /\ \A j \in DOMAIN refunds[o] : j # i => refunds'[o][j] = refunds[o][j]
      BY <1>3, <2>2, RefundUnfolded DEF FailsRefund, Decides
    <3>3. refunds'[o][i].state = "failed" /\ refunds[o][i].state = "pending"
      BY <1>3, <2>2, <3>1, <3>2 DEF Refunding!RefundRequest, FailsRefund, Decides
    <3> QED BY <3>2, <3>3 DEF PaidThrough
  <2> QED BY <2>1, <2>2
<1> QED BY <1>1, <1>2, <1>3

\* ... one of the order, in the channel it names.
LEMMA PaidOnce ==
    ASSUME RefundInv, NEW channels, NEW o \in Orders, NEW i \in DOMAIN refunds[o], PaysRefund(o, i)
    PROVE  /\ \A p \in Orders \ {o} : refunds'[p] = refunds[p]
           /\ IF refunds[o][i].channel \in channels
              THEN /\ PaidThrough(refunds'[o], channels)
                         = PaidThrough(refunds[o], channels) \cup {i}
                   /\ Cardinality(PaidThrough(refunds'[o], channels))
                         = Cardinality(PaidThrough(refunds[o], channels)) + 1
              ELSE PaidThrough(refunds'[o], channels) = PaidThrough(refunds[o], channels)
           /\ i \notin PaidThrough(refunds[o], channels)
<1>1. refunds[o] \in Seq(Refunding!RefundRequest) /\ refunds[o][i] \in Refunding!RefundRequest
  BY RefundUnfolded
<1>2. /\ DOMAIN refunds'[o] = DOMAIN refunds[o]
      /\ refunds'[o][i] = [refunds[o][i] EXCEPT !.state = "paid"]
      /\ \A j \in DOMAIN refunds[o] : j # i => refunds'[o][j] = refunds[o][j]
      /\ \A p \in Orders \ {o} : refunds'[p] = refunds[p]
  BY RefundUnfolded DEF PaysRefund, Decides
<1>3. /\ refunds'[o][i].state = "paid" /\ refunds'[o][i].channel = refunds[o][i].channel
      /\ refunds[o][i].state = "pending"
  BY <1>1, <1>2 DEF Refunding!RefundRequest, PaysRefund, Decides
<1>4. CASE refunds[o][i].channel \in channels
  <2>1. /\ PaidThrough(refunds'[o], channels) = PaidThrough(refunds[o], channels) \cup {i}
        /\ i \notin PaidThrough(refunds[o], channels)
    <3>1. \A j \in DOMAIN refunds[o] :
             j \in PaidThrough(refunds'[o], channels) <=> j \in PaidThrough(refunds[o], channels) \cup {i}
      BY <1>2, <1>3, <1>4 DEF PaidThrough
    <3>2. /\ PaidThrough(refunds'[o], channels) \subseteq DOMAIN refunds[o]
          /\ PaidThrough(refunds[o], channels) \cup {i} \subseteq DOMAIN refunds[o]
          /\ i \notin PaidThrough(refunds[o], channels)
      BY <1>2, <1>3 DEF PaidThrough
    <3> QED BY <3>1, <3>2
  <2>2. Cardinality(PaidThrough(refunds[o], channels) \cup {i})
           = Cardinality(PaidThrough(refunds[o], channels)) + 1
    BY <1>1, <2>1, PaidThroughFinite, FS_AddElement
  <2> QED BY <1>2, <1>4, <2>1, <2>2
<1>5. CASE refunds[o][i].channel \notin channels
  <2>1. \A j \in DOMAIN refunds[o] :
           j \in PaidThrough(refunds'[o], channels) <=> j \in PaidThrough(refunds[o], channels)
    BY <1>2, <1>3, <1>5 DEF PaidThrough
  <2>2. /\ PaidThrough(refunds'[o], channels) \subseteq DOMAIN refunds[o]
        /\ PaidThrough(refunds[o], channels) \subseteq DOMAIN refunds[o]
    BY <1>2 DEF PaidThrough
  <2>3. PaidThrough(refunds'[o], channels) = PaidThrough(refunds[o], channels)
    BY <2>1, <2>2
  <2>4. i \notin PaidThrough(refunds[o], channels)
    BY <1>3 DEF PaidThrough
  <2> QED BY <1>2, <1>5, <2>3, <2>4
<1>6. i \notin PaidThrough(refunds[o], channels)
  BY <1>3 DEF PaidThrough
<1> QED BY <1>4, <1>5, <1>6

-----------------------------------------------------------------------------
(* Balances *)

\* One entry of a table of orders changes by d: so does the sum over the orders of its owner.
Shifts(f, g, o, d) ==
    /\ \A n \in Orders : f[n] \in Int /\ g[n] \in Int
    /\ \A n \in Orders \ {o} : f[n] = g[n]
    /\ g[o] = f[o] + d

Share(o, u, d) == IF Owner[o] = u THEN d ELSE 0

LEMMA SumShifts ==
    ASSUME NEW f, NEW g, NEW o \in Orders, NEW d \in Int, Shifts(f, g, o, d), NEW u \in Users
    PROVE  /\ SumFunctionOnSet(f, OrdersOf(u)) \in Int
           /\ SumFunctionOnSet(g, OrdersOf(u))
                 = SumFunctionOnSet(f, OrdersOf(u)) + Share(o, u, d)
<1>1. IsFiniteSet(OrdersOf(u)) /\ OrdersOf(u) \subseteq Orders
  BY OrdersOfFinite
<1>2. \A n \in OrdersOf(u) : f[n] \in Int /\ g[n] \in Int
  BY <1>1 DEF Shifts
<1>3. SumFunctionOnSet(f, OrdersOf(u)) \in Int
  BY <1>1, <1>2, SumType
<1>4. CASE Owner[o] = u
  <2>1. o \in OrdersOf(u) /\ \A n \in OrdersOf(u) \ {o} : f[n] = g[n]
    BY <1>1, <1>4 DEF Shifts, OrdersOf
  <2>2. SumFunctionOnSet(g, OrdersOf(u)) = SumFunctionOnSet(f, OrdersOf(u)) + (g[o] - f[o])
    BY <1>1, <1>2, <2>1, SumChanges
  <2>3. g[o] - f[o] = d
    BY DEF Shifts
  <2> QED BY <1>3, <1>4, <2>2, <2>3 DEF Share
<1>5. CASE Owner[o] # u
  <2>1. \A n \in OrdersOf(u) : f[n] = g[n]
    BY <1>1, <1>5 DEF Shifts, OrdersOf
  <2>2. SumFunctionOnSet(g, OrdersOf(u)) = SumFunctionOnSet(f, OrdersOf(u))
    BY <1>1, <2>1, SumOfSame
  <2> QED BY <1>3, <1>5, <2>2 DEF Share
<1> QED BY <1>4, <1>5, <1>3

\* The refunds of an order that reached the balance.
Reaching(o, requests, lost) == {i \in PaidThrough(requests, {"balance", "none"}) : <<o, i>> \notin lost}

LEMMA ReachingFinite ==
    ASSUME NEW o \in Orders, NEW requests \in Seq(Refunding!RefundRequest), NEW lost
    PROVE  /\ IsFiniteSet(Reaching(o, requests, lost))
           /\ Cardinality(Reaching(o, requests, lost)) \in Nat
<1>1. Reaching(o, requests, lost) \subseteq PaidThrough(requests, {"balance", "none"})
  BY DEF Reaching
<1>2. IsFiniteSet(Reaching(o, requests, lost))
  BY <1>1, PaidThroughFinite, FS_Subset
<1> QED BY <1>2, FS_CardinalityType

Moved(o, rows, requests, lost) ==
    Amount[o] * (Cardinality(Reaching(o, requests, lost)) - Cardinality(PaidByBalance(rows)))

LEMMA MovesUnfolded ==
    \A o \in Orders : /\ BalanceMoves[o] = Moved(o, attempts[o], refunds[o], adrift)
                      /\ BalanceMoves'[o] = Moved(o, attempts'[o], refunds'[o], adrift')
<1>1. \A o \in Orders : /\ Credited(o) = Reaching(o, refunds[o], adrift)
                        /\ Credited(o)' = Reaching(o, refunds'[o], adrift')
  BY PaidRefundsUnfolded DEF Credited, Reaching
<1> QED BY <1>1, BalanceRowsUnfolded DEF BalanceMoves, Moved

LEMMA MovedType ==
    ASSUME NEW o \in Orders, NEW rows \in Seq(Attempt), NEW lost,
           NEW requests \in Seq(Refunding!RefundRequest)
    PROVE  Moved(o, rows, requests, lost) \in Int
<1>1. /\ Cardinality(Reaching(o, requests, lost)) \in Nat
      /\ Cardinality(PaidByBalance(rows)) \in Nat /\ Amount[o] \in Nat
  BY ReachingFinite, BalanceRowsFinite, AmountAssumption
<1>2. \A a, b, c \in Nat : a * (b - c) \in Int
  OBVIOUS
<1> QED BY <1>1, <1>2 DEF Moved

LEMMA RowsTyped ==
    ASSUME LInv
    PROVE  \A o \in Orders : attempts[o] \in Seq(Attempt) /\ refunds[o] \in Seq(Refunding!RefundRequest)
BY DEF LInv, Inv, TypeInv, CheckoutTypeOK, StoreTypeOK, RefundInv, Refunding!RefundTypeOK

LEMMA MovesTyped ==
    ASSUME LInv, LInv'
    PROVE  \A o \in Orders : BalanceMoves[o] \in Int /\ BalanceMoves'[o] \in Int
<1>1. \A o \in Orders : attempts'[o] \in Seq(Attempt) /\ refunds'[o] \in Seq(Refunding!RefundRequest)
  BY DEF LInv, Inv, TypeInv, CheckoutTypeOK, StoreTypeOK, RefundInv, Refunding!RefundTypeOK
<1> QED BY <1>1, RowsTyped, MovedType, MovesUnfolded

\* A balance changes by one payment or one refund at a time, by the price of the order.
BalanceMoved(o, d) ==
    /\ Shifts(BalanceMoves, BalanceMoves', o, d)
    /\ UNCHANGED accounts /\ available' = [available EXCEPT ![Owner[o]] = @ + d]

MovesRest == \A o \in Orders : BalanceMoves'[o] = BalanceMoves[o]

BalanceRests == MovesRest /\ UNCHANGED <<available, accounts>>

\* Rows of payments, requests and lost updates that are the same move nothing.
LEMMA MovesStay ==
    ASSUME NEW o \in Orders, PaidByBalance(attempts'[o]) = PaidByBalance(attempts[o]),
           Reaching(o, refunds'[o], adrift') = Reaching(o, refunds[o], adrift)
    PROVE  BalanceMoves'[o] = BalanceMoves[o]
BY MovesUnfolded DEF Moved

LEMMA BalanceMovesStep ==
    ASSUME LInv, LInv', [LifecycleNext]_lifecycleVars
    PROVE  \/ BalanceRests
           \/ \E o \in Orders, d \in Int : BalanceMoved(o, d)
           \/ MovesRest /\ \E u \in Users : OpenAccount(u)
<1>1. \A o \in Orders : /\ Amount[o] \in Nat /\ Owner[o] \in Users
                        /\ attempts[o] \in Seq(Attempt) /\ refunds[o] \in Seq(Refunding!RefundRequest)
                        /\ Cardinality(PaidByBalance(attempts[o])) \in Nat
                        /\ Cardinality(Reaching(o, refunds[o], adrift)) \in Nat
  BY RowsTyped, ReachingFinite, BalanceRowsFinite, AmountAssumption, OwnerAssumption
<1>2. available \in [Users -> Nat]
  BY DEF LInv, Inv, TypeInv, CheckoutTypeOK, StoreTypeOK
<1>3. CASE [CheckoutNext]_checkoutVars /\ UNCHANGED refunds
  <2>0. \A o \in Orders : Reaching(o, refunds'[o], adrift') = Reaching(o, refunds[o], adrift)
    <3>1. ASSUME NEW o \in Orders, NEW i \in PaidThrough(refunds[o], {"balance", "none"})
          PROVE  <<o, i>> \in adrift' <=> <<o, i>> \in adrift
      <4>1. i \in Nat \ {0}
        BY <1>1 DEF PaidThrough
      <4> QED BY <1>3, <4>1, CashierDrifts
    <3> QED BY <1>3, <3>1 DEF Reaching
  <2>1. ASSUME BalanceRowsKept PROVE MovesRest
    <3>1. \A o \in Orders : PaidByBalance(attempts'[o]) = PaidByBalance(attempts[o])
      BY <2>1, BalanceRowsUnfolded DEF BalanceRowsKept
    <3> QED BY <2>0, <3>1, MovesStay DEF MovesRest
  <2>2. ASSUME NEW o \in Orders, BalancePays(o), UNCHANGED accounts
        PROVE  BalanceMoved(o, -Amount[o])
    <3>1. \A n \in Orders \ {o} : PaidByBalance(attempts'[n]) = PaidByBalance(attempts[n])
      BY <2>2, BalanceRowsUnfolded DEF BalancePays
    <3>2. \A n \in Orders \ {o} : BalanceMoves[n] = BalanceMoves'[n]
      BY <2>0, <3>1, MovesStay
    <3>3. BalanceMoves'[o] = BalanceMoves[o] + (-Amount[o])
      <4>1. Cardinality(PaidByBalance(attempts'[o])) = Cardinality(PaidByBalance(attempts[o])) + 1
        BY <2>2, BalanceRowsUnfolded DEF BalancePays
      <4>2. \A a, b, c \in Nat : a * (b - (c + 1)) = a * (b - c) + (-a)
        OBVIOUS
      <4> QED BY <1>1, <2>0, <4>1, <4>2, MovesUnfolded DEF Moved
    <3>4. available' = [available EXCEPT ![Owner[o]] = @ + (-Amount[o])]
      BY <1>1, <1>2, <2>2 DEF BalancePays, Deducts
    <3> QED BY <2>2, <3>2, <3>3, <3>4, MovesTyped DEF BalanceMoved, Shifts
  <2>3. \A o \in Orders : -Amount[o] \in Int
    BY <1>1
  <2> QED BY <1>3, <2>1, <2>2, <2>3, StepBalance DEF LInv, Inv, BalanceRests
<1>4. CASE UNCHANGED <<attempts, refunds, available, accounts, adrift>>
  BY <1>4, MovesUnfolded DEF BalanceRests, MovesRest
<1>5. CASE Refunding!RefundNext /\ UNCHANGED <<req, channelVars, apps, work, misread>>
  <2>1. ChangesRefunds /\ UNCHANGED <<attempts, accounts>>
    BY <1>5, RefundKeepsInvariant
  <2>2. CASE ~\E o \in Orders : \E i \in DOMAIN refunds[o] : PaysRefund(o, i)
    <3>1. \A o \in Orders : PaidThrough(refunds'[o], {"balance", "none"})
                               = PaidThrough(refunds[o], {"balance", "none"})
      BY <2>1, <2>2, PaidStays DEF ChangesRefunds, LInv
    <3>2. UNCHANGED <<available, adrift>>
      BY <2>1, <2>2 DEF ChangesRefunds, LeavesRefunds, OpensRefund, FailsRefund
    <3> QED BY <2>1, <3>1, <3>2, MovesStay DEF BalanceRests, MovesRest, Reaching
  <2>3. ASSUME NEW o \in Orders, NEW i \in DOMAIN refunds[o], PaysRefund(o, i)
        PROVE  BalanceRests \/ BalanceMoved(o, Amount[o])
    <3>1. \A n \in Orders \ {o} : BalanceMoves[n] = BalanceMoves'[n]
      <4>1. \A n \in Orders \ {o} : refunds'[n] = refunds[n]
        BY <2>3, PaidOnce DEF LInv
      <4>2. adrift' = adrift \/ adrift' = adrift \cup {<<o, i>>}
        BY <2>3 DEF PaysRefund
      <4>3. \A n \in Orders \ {o} : Reaching(n, refunds'[n], adrift') = Reaching(n, refunds[n], adrift)
        BY <4>1, <4>2 DEF Reaching
      <4> QED BY <2>1, <4>3, MovesStay
    <3>2. CASE refunds[o][i].channel \in {"balance", "none"} /\ Owner[o] \in accounts
      <4>1. /\ PaidThrough(refunds'[o], {"balance", "none"})
                   = PaidThrough(refunds[o], {"balance", "none"}) \cup {i}
            /\ i \notin PaidThrough(refunds[o], {"balance", "none"})
        BY <2>3, <3>2, PaidOnce DEF LInv
      <4>2. <<o, i>> \notin adrift /\ adrift' = adrift
        <5>1. i \in Nat \ {0}
          BY <1>1
        <5> QED BY <2>3, <3>2, <5>1 DEF LInv, DriftSettled, PaysRefund, Decides
      <4>3. /\ Reaching(o, refunds'[o], adrift') = Reaching(o, refunds[o], adrift) \cup {i}
            /\ i \notin Reaching(o, refunds[o], adrift)
        BY <4>1, <4>2 DEF Reaching
      <4>4. Cardinality(Reaching(o, refunds'[o], adrift'))
               = Cardinality(Reaching(o, refunds[o], adrift)) + 1
        BY <1>1, <4>3, ReachingFinite, FS_AddElement
      <4>5. \A a, b, c \in Nat : a * ((b + 1) - c) = a * (b - c) + a
        OBVIOUS
      <4>6. BalanceMoves'[o] = BalanceMoves[o] + Amount[o]
        BY <1>1, <2>1, <4>4, <4>5, MovesUnfolded DEF Moved
      <4>7. available' = [available EXCEPT ![Owner[o]] = @ + Amount[o]]
        BY <2>3, <3>2 DEF PaysRefund
      <4> QED BY <2>1, <3>1, <4>6, <4>7, MovesTyped DEF BalanceMoved, Shifts
    <3>3. CASE refunds[o][i].channel \in {"balance", "none"} /\ Owner[o] \notin accounts
      <4>1. PaidThrough(refunds'[o], {"balance", "none"})
               = PaidThrough(refunds[o], {"balance", "none"}) \cup {i}
            /\ i \notin PaidThrough(refunds[o], {"balance", "none"})
        BY <2>3, <3>3, PaidOnce DEF LInv
      <4>2. adrift' = adrift \cup {<<o, i>>} /\ UNCHANGED available
        BY <2>3, <3>3 DEF PaysRefund
      <4>3. Reaching(o, refunds'[o], adrift') = Reaching(o, refunds[o], adrift)
        BY <4>1, <4>2 DEF Reaching
      <4>4. BalanceMoves'[o] = BalanceMoves[o]
        BY <2>1, <4>3, MovesStay
      <4> QED BY <2>1, <3>1, <4>2, <4>4 DEF BalanceRests, MovesRest
    <3>4. CASE refunds[o][i].channel \notin {"balance", "none"}
      <4>1. PaidThrough(refunds'[o], {"balance", "none"}) = PaidThrough(refunds[o], {"balance", "none"})
        BY <2>3, <3>4, PaidOnce DEF LInv
      <4>2. UNCHANGED <<available, adrift>>
        BY <2>3, <3>4 DEF PaysRefund
      <4>3. BalanceMoves'[o] = BalanceMoves[o]
        BY <2>1, <4>1, <4>2, MovesStay DEF Reaching
      <4> QED BY <2>1, <3>1, <4>2, <4>3 DEF BalanceRests, MovesRest
    <3> QED BY <3>2, <3>3, <3>4
  <2>4. \A o \in Orders : Amount[o] \in Int
    BY <1>1
  <2> QED BY <2>2, <2>3, <2>4
<1>6. CASE FulfilmentNext /\ UNCHANGED <<req, channelVars, refunds, returned, clerk, sentBack>>
  BY <1>4, <1>6, IssuingStep DEF LInv
<1> QED BY <1>3, <1>5, <1>6 DEF LifecycleNext, lifecycleVars, checkoutVars

BalanceIsExplained ==
    \A u \in Users :
        available[u] = Opened(u) + SumFunctionOnSet(BalanceMoves, OrdersOf(u))

LEMMA BalanceIsExplainedStep ==
    ASSUME LInv, LInv', BalanceIsExplained, [LifecycleNext]_lifecycleVars
    PROVE  BalanceIsExplained'
<1> SUFFICES ASSUME NEW u \in Users
             PROVE  available'[u] = Opened(u)' + SumFunctionOnSet(BalanceMoves', OrdersOf(u))
  BY DEF BalanceIsExplained, OrdersOf
<1>1. /\ Opened(u) \in Int /\ available \in [Users -> Nat] /\ OpeningBalance[u] \in Int
      /\ available[u] = Opened(u) + SumFunctionOnSet(BalanceMoves, OrdersOf(u))
  BY OpeningBalanceAssumption
     DEF BalanceIsExplained, Opened, LInv, Inv, TypeInv, CheckoutTypeOK, StoreTypeOK
<1>2. ASSUME MovesRest
      PROVE  SumFunctionOnSet(BalanceMoves', OrdersOf(u)) = SumFunctionOnSet(BalanceMoves, OrdersOf(u))
  BY <1>2, OrdersOfFinite, SumOfSame DEF MovesRest
<1>5. CASE BalanceRests
  BY <1>1, <1>2, <1>5 DEF BalanceRests, Opened
<1>4. ASSUME NEW v \in Users, OpenAccount(v), MovesRest
      PROVE  available'[u] = Opened(u)' + SumFunctionOnSet(BalanceMoves', OrdersOf(u))
  <2>1. SumFunctionOnSet(BalanceMoves, OrdersOf(u)) \in Int
    BY <1>1, OrdersOfFinite, MovesTyped, SumType
  <2>2. CASE u = v
    <3>1. Opened(u) = 0 /\ Opened(u)' = OpeningBalance[u]
      BY <1>4, <2>2 DEF OpenAccount, Opened
    <3>2. available'[u] = available[u] + OpeningBalance[u]
      BY <1>1, <1>4, <2>2 DEF OpenAccount
    <3> QED BY <1>1, <1>2, <1>4, <2>1, <3>1, <3>2
  <2>3. CASE u # v
    <3>1. Opened(u)' = Opened(u)
      BY <1>4, <2>3 DEF OpenAccount, Opened
    <3>2. available'[u] = available[u]
      BY <1>1, <1>4, <2>3 DEF OpenAccount
    <3> QED BY <1>1, <1>2, <1>4, <3>1, <3>2
  <2> QED BY <2>2, <2>3
<1>3. ASSUME NEW o \in Orders, NEW d \in Int, BalanceMoved(o, d)
      PROVE  available'[u] = Opened(u)' + SumFunctionOnSet(BalanceMoves', OrdersOf(u))
  <2>1. /\ SumFunctionOnSet(BalanceMoves, OrdersOf(u)) \in Int
        /\ SumFunctionOnSet(BalanceMoves', OrdersOf(u))
              = SumFunctionOnSet(BalanceMoves, OrdersOf(u)) + Share(o, u, d)
    <3>1. PICK f, g : f = BalanceMoves /\ g = BalanceMoves'
      OBVIOUS
    <3>2. Shifts(f, g, o, d)
      BY <1>3, <3>1 DEF BalanceMoved
    <3>3. /\ SumFunctionOnSet(f, OrdersOf(u)) \in Int
          /\ SumFunctionOnSet(g, OrdersOf(u))
                = SumFunctionOnSet(f, OrdersOf(u)) + Share(o, u, d)
      BY <1>1, <3>2, SumShifts
    <3> QED BY <3>1, <3>3
  <2>2. available'[u] = available[u] + Share(o, u, d)
    BY <1>1, <1>3 DEF BalanceMoved, Share
  <2>3. Share(o, u, d) \in Int
    BY DEF Share
  <2>4. Opened(u)' = Opened(u)
    BY <1>3 DEF BalanceMoved, Opened
  <2> QED BY <1>1, <2>1, <2>2, <2>3, <2>4
<1> QED BY <1>3, <1>4, <1>5, BalanceMovesStep

-----------------------------------------------------------------------------
(* Purchases *)

\* The purchases of an order that its account knows of.
Counted(o) == IF <<o, 0>> \in adrift THEN 0 ELSE booked[o]

LEMMA KeptUnfolded ==
    \A o \in Orders : /\ KeptPurchases[o] = Amount[o] * (Counted(o) - returned[o])
                      /\ KeptPurchases'[o] = Amount[o] * (Counted(o)' - returned'[o])
BY DEF KeptPurchases, Counted

LEMMA KeptTyped ==
    ASSUME LInv, LInv'
    PROVE  /\ booked \in [Orders -> Nat] /\ returned \in [Orders -> Nat]
           /\ \A o \in Orders : /\ KeptPurchases[o] \in Int /\ KeptPurchases'[o] \in Int
                               /\ Counted(o) \in Nat /\ Counted(o)' \in Nat
<1>1. /\ booked \in [Orders -> Nat] /\ returned \in [Orders -> Nat]
      /\ booked' \in [Orders -> Nat] /\ returned' \in [Orders -> Nat]
  BY DEF LInv, Inv, TypeInv, CheckoutTypeOK, StoreTypeOK, RefundInv, Refunding!RefundTypeOK
<1>2. \A a, b, c \in Nat : a * (b - c) \in Int
  OBVIOUS
<1>3. \A o \in Orders : Counted(o) \in Nat /\ Counted(o)' \in Nat
  BY <1>1 DEF Counted
<1> QED BY <1>1, <1>2, <1>3, KeptUnfolded, AmountAssumption

\* What is kept of the purchases of one order changes by d, and total_consume by no less.
PurchaseMoved(o, d) ==
    /\ Shifts(KeptPurchases, KeptPurchases', o, d)
    /\ \A u \in Users : consumed'[u] >= consumed[u] + Share(o, u, d)

PurchasesRest ==
    /\ \A o \in Orders : KeptPurchases'[o] = KeptPurchases[o]
    /\ \A u \in Users : consumed'[u] >= consumed[u]

\* A purchase is booked: it is counted, and total_consume with it, unless there is no account.
LEMMA PurchaseStep ==
    ASSUME LInv, LInv', NEW o \in Orders, CountsPurchase(o), UNCHANGED returned
    PROVE  PurchasesRest \/ PurchaseMoved(o, Amount[o])
<1>1. /\ booked \in [Orders -> Nat] /\ returned \in [Orders -> Nat]
      /\ \A n \in Orders : /\ KeptPurchases[n] \in Int /\ KeptPurchases'[n] \in Int
                          /\ Counted(n) \in Nat
      /\ Amount[o] \in Nat /\ Owner[o] \in Users /\ consumed \in [Users -> Int]
  BY KeptTyped, AmountAssumption, OwnerAssumption
     DEF LInv, Inv, TypeInv, CheckoutTypeOK, StoreTypeOK
<1>2. \A n \in Orders \ {o} : Counted(n)' = Counted(n) /\ KeptPurchases[n] = KeptPurchases'[n]
  <2>1. ASSUME NEW n \in Orders \ {o} PROVE Counted(n)' = Counted(n)
    <3>1. booked'[n] = booked[n]
      BY <1>1 DEF CountsPurchase, SettleBooking
    <3>2. <<n, 0>> \in adrift' <=> <<n, 0>> \in adrift
      BY DEF CountsPurchase, CountConsumed
    <3> QED BY <3>1, <3>2 DEF Counted
  <2> QED BY <2>1, KeptUnfolded
<1>3. ASSUME Counted(o)' = Counted(o) PROVE \A n \in Orders : KeptPurchases'[n] = KeptPurchases[n]
  BY <1>2, <1>3, KeptUnfolded
<1>4. CASE Owner[o] \notin accounts
  <2>1. booked[o] = 0 /\ <<o, 0>> \in adrift' /\ UNCHANGED consumed
    BY <1>4 DEF CountsPurchase, CountConsumed, Settleable, LInv, BookedWhenSold, Phase
  <2>2. Counted(o)' = Counted(o)
    BY <2>1 DEF Counted
  <2> QED BY <1>1, <1>3, <2>1, <2>2 DEF PurchasesRest
<1>5. CASE Owner[o] \in accounts
  <2>1. /\ adrift' = adrift
        /\ \A u \in Users : consumed'[u] = consumed[u] + Share(o, u, Amount[o])
    BY <1>1, <1>5 DEF CountsPurchase, CountConsumed, Share
  <2>2. \A u \in Users : Share(o, u, Amount[o]) \in Nat /\ consumed[u] \in Int /\ consumed'[u] \in Int
    BY <1>1, <2>1 DEF Share
  <2>3. \A u \in Users : /\ consumed'[u] >= consumed[u]
                        /\ consumed'[u] >= consumed[u] + Share(o, u, Amount[o])
    BY <2>1, <2>2
  <2>4. CASE Counted(o)' = Counted(o)
    BY <1>3, <2>3, <2>4 DEF PurchasesRest
  <2>5. CASE Counted(o)' # Counted(o)
    <3>1. Counted(o)' = Counted(o) + 1
      BY <1>1, <2>1, <2>5 DEF Counted, CountsPurchase, SettleBooking
    <3>2. KeptPurchases'[o] = KeptPurchases[o] + Amount[o]
      <4>1. \A a, b, c \in Nat : a * ((b + 1) - c) = a * (b - c) + a
        OBVIOUS
      <4>2. Amount[o] * ((Counted(o) + 1) - returned[o])
               = Amount[o] * (Counted(o) - returned[o]) + Amount[o]
        BY <1>1, <4>1
      <4> QED BY <3>1, <4>2, KeptUnfolded
    <3> QED BY <1>1, <1>2, <2>3, <3>2 DEF PurchaseMoved, Shifts
  <2> QED BY <2>4, <2>5
<1> QED BY <1>4, <1>5

LEMMA PurchasesStep ==
    ASSUME LInv, LInv', [LifecycleNext]_lifecycleVars
    PROVE  PurchasesRest \/ \E o \in Orders, d \in Int : PurchaseMoved(o, d)
<1>1. /\ booked \in [Orders -> Nat] /\ returned \in [Orders -> Nat]
      /\ \A o \in Orders : /\ KeptPurchases[o] \in Int /\ KeptPurchases'[o] \in Int
                          /\ Counted(o) \in Nat
      /\ \A o \in Orders : Amount[o] \in Nat /\ Owner[o] \in Users
  BY KeptTyped, AmountAssumption, OwnerAssumption
<1>2. consumed \in [Users -> Int]
  BY DEF LInv, Inv, TypeInv, CheckoutTypeOK, StoreTypeOK
<1>3. \A o \in Orders : -Amount[o] \in Int /\ Amount[o] \in Int
  BY <1>1
<1>4. CASE UNCHANGED <<booked, returned, consumed, adrift>>
  <2>1. \A o \in Orders : Counted(o)' = Counted(o)
    BY <1>4 DEF Counted
  <2> QED BY <1>2, <1>4, <2>1, KeptUnfolded DEF PurchasesRest
<1>6. ASSUME NEW o \in Orders, NEW i \in DOMAIN refunds[o], PaysRefund(o, i), UNCHANGED booked
      PROVE  PurchaseMoved(o, -Amount[o])
  <2>0. \A n \in Orders : Counted(n)' = Counted(n)
    <3>1. i # 0
      <4>1. refunds[o] \in Seq(Refunding!RefundRequest)
        BY RowsTyped
      <4> QED BY <4>1
    <3>2. \A n \in Orders : <<n, 0>> \in adrift' <=> <<n, 0>> \in adrift
      BY <1>6, <3>1 DEF PaysRefund
    <3> QED BY <1>6, <3>2 DEF Counted
  <2>1. \A n \in Orders \ {o} : KeptPurchases[n] = KeptPurchases'[n]
    <3>1. \A n \in Orders \ {o} : returned'[n] = returned[n]
      BY <1>1, <1>6 DEF PaysRefund
    <3> QED BY <2>0, <3>1, KeptUnfolded
  <2>2. KeptPurchases'[o] = KeptPurchases[o] + (-Amount[o])
    <3>1. \A a, b, c \in Nat : a * (b - (c + 1)) = a * (b - c) + (-a)
      OBVIOUS
    <3>2. returned'[o] = returned[o] + 1
      BY <1>1, <1>6 DEF PaysRefund
    <3>3. Amount[o] * (Counted(o) - (returned[o] + 1))
             = Amount[o] * (Counted(o) - returned[o]) + (-Amount[o])
      BY <1>1, <3>1
    <3> QED BY <2>0, <3>2, <3>3, KeptUnfolded
  <2>3. ASSUME NEW u \in Users PROVE consumed'[u] >= consumed[u] + Share(o, u, -Amount[o])
    <3>1. consumed'[u] = consumed[u] \/ consumed'[u] = consumed[u] + Share(o, u, -Amount[o])
      BY <1>1, <1>2, <1>6 DEF PaysRefund, Refunding!Uncount, Share
    <3>2. Share(o, u, -Amount[o]) \in Int /\ Share(o, u, -Amount[o]) <= 0
      BY <1>1 DEF Share
    <3> QED BY <1>2, <3>1, <3>2
  <2> QED BY <1>1, <2>1, <2>2, <2>3 DEF PurchaseMoved, Shifts
<1>7. CASE [CheckoutNext]_checkoutVars /\ UNCHANGED returned
  BY <1>3, <1>4, <1>7, CashierBooks, PurchaseStep
<1>8. CASE FulfilmentNext /\ UNCHANGED <<req, channelVars, refunds, returned, clerk, sentBack>>
  BY <1>4, <1>8, IssuingStep DEF LInv
<1>9. CASE Refunding!RefundNext /\ UNCHANGED <<req, channelVars, apps, work, misread>>
  <2>1. ChangesRefunds /\ UNCHANGED booked
    BY <1>9, RefundKeepsInvariant
  <2> QED BY <1>3, <1>4, <1>6, <2>1 DEF ChangesRefunds, LeavesRefunds, OpensRefund, FailsRefund
<1> QED BY <1>7, <1>8, <1>9 DEF LifecycleNext, lifecycleVars, checkoutVars

PurchasesAreCounted ==
    \A u \in Users : consumed[u] >= SumFunctionOnSet(KeptPurchases, OrdersOf(u))

LEMMA PurchasesAreCountedStep ==
    ASSUME LInv, LInv', PurchasesAreCounted, [LifecycleNext]_lifecycleVars
    PROVE  PurchasesAreCounted'
<1> SUFFICES ASSUME NEW u \in Users
             PROVE  consumed'[u] >= SumFunctionOnSet(KeptPurchases', OrdersOf(u))
  BY DEF PurchasesAreCounted, OrdersOf
<1>1. /\ consumed[u] \in Int /\ consumed'[u] \in Int
      /\ consumed[u] >= SumFunctionOnSet(KeptPurchases, OrdersOf(u))
  BY DEF PurchasesAreCounted, LInv, Inv, TypeInv, CheckoutTypeOK, StoreTypeOK
<1>2. IsFiniteSet(OrdersOf(u)) /\ OrdersOf(u) \subseteq Orders
  BY <1>1, OrdersOfFinite
<1>3. SumFunctionOnSet(KeptPurchases, OrdersOf(u)) \in Int
  BY <1>2, KeptTyped, SumType
<1>4. CASE PurchasesRest
  <2>1. SumFunctionOnSet(KeptPurchases', OrdersOf(u)) = SumFunctionOnSet(KeptPurchases, OrdersOf(u))
    BY <1>2, <1>4, SumOfSame DEF PurchasesRest
  <2> QED BY <1>1, <1>3, <1>4, <2>1 DEF PurchasesRest
<1>5. ASSUME NEW o \in Orders, NEW d \in Int, PurchaseMoved(o, d)
      PROVE  consumed'[u] >= SumFunctionOnSet(KeptPurchases', OrdersOf(u))
  <2>1. SumFunctionOnSet(KeptPurchases', OrdersOf(u))
           = SumFunctionOnSet(KeptPurchases, OrdersOf(u)) + Share(o, u, d)
    <3>1. PICK f, g : f = KeptPurchases /\ g = KeptPurchases'
      OBVIOUS
    <3>2. Shifts(f, g, o, d)
      BY <1>5, <3>1 DEF PurchaseMoved
    <3>3. SumFunctionOnSet(g, OrdersOf(u)) = SumFunctionOnSet(f, OrdersOf(u)) + Share(o, u, d)
      BY <1>1, <3>2, SumShifts
    <3> QED BY <3>1, <3>3
  <2>2. consumed'[u] >= consumed[u] + Share(o, u, d) /\ Share(o, u, d) \in Int
    BY <1>5 DEF PurchaseMoved, Share
  <2> QED BY <1>1, <1>3, <2>1, <2>2
<1> QED BY <1>4, <1>5, PurchasesStep

\* At the start there are no orders paid, no refunds, and no purchases.
LEMMA AccountStarts ==
    ASSUME LifecycleInit
    PROVE  BalanceIsExplained /\ PurchasesAreCounted
<1>1. LInv
  BY LifecycleStarts
<1>2. /\ attempts = [o \in Orders |-> <<>>] /\ refunds = [o \in Orders |-> <<>>]
      /\ booked = [o \in Orders |-> 0] /\ returned = [o \in Orders |-> 0]
      /\ available = [u \in Users |-> IF u \in Members THEN OpeningBalance[u] ELSE 0]
      /\ accounts = Members /\ adrift = {} /\ consumed = [u \in Users |-> 0]
  BY DEF LifecycleInit, CheckoutInit, StoreInit, Refunding!RefundInit
<1>3. \A o \in Orders : BalanceMoves[o] = 0
  <2> SUFFICES ASSUME NEW o \in Orders PROVE BalanceMoves[o] = 0
    OBVIOUS
  <2>1. PaidByBalance(attempts[o]) = {} /\ Reaching(o, refunds[o], adrift) = {}
    BY <1>2 DEF PaidByBalance, PaidThrough, Reaching
  <2>2. Cardinality({}) = 0 /\ Amount[o] \in Nat
    BY FS_EmptySet, AmountAssumption
  <2>3. Moved(o, attempts[o], refunds[o], adrift) = Amount[o] * (0 - 0)
    BY <2>1, <2>2 DEF Moved
  <2>4. Amount[o] * (0 - 0) = 0
    BY <2>2
  <2> QED BY <2>3, <2>4, MovesUnfolded
<1>4. \A o \in Orders : KeptPurchases[o] = 0
  BY <1>2, AmountAssumption DEF KeptPurchases
<1>5. ASSUME NEW u \in Users
      PROVE  /\ SumFunctionOnSet(BalanceMoves, OrdersOf(u)) = 0
             /\ SumFunctionOnSet(KeptPurchases, OrdersOf(u)) = 0
             /\ OpeningBalance[u] \in Nat /\ available[u] = Opened(u)
  <2>1. available[u] = Opened(u)
    BY <1>2 DEF Opened
  <2>2. IsFiniteSet(OrdersOf(u)) /\ OrdersOf(u) \subseteq Orders
    BY OrdersOfFinite
  <2>3. \A o \in OrdersOf(u) : BalanceMoves[o] = 0 /\ KeptPurchases[o] = 0
    BY <1>3, <1>4, <2>2
  <2>4. OpeningBalance[u] \in Nat
    BY OpeningBalanceAssumption
  <2>5. SumFunctionOnSet(BalanceMoves, OrdersOf(u)) = 0
    BY <2>2, <2>3, SumOfZeros
  <2>6. SumFunctionOnSet(KeptPurchases, OrdersOf(u)) = 0
    BY <2>2, <2>3, SumOfZeros
  <2> QED BY <2>1, <2>4, <2>5, <2>6
<1>6. \A u \in Users : Opened(u) \in Nat
  BY OpeningBalanceAssumption DEF Opened
<1> QED BY <1>2, <1>5, <1>6 DEF BalanceIsExplained, PurchasesAreCounted

-----------------------------------------------------------------------------
(* Money sent back *)

\* The clerks that have moved the money of a refund through a channel and not recorded it.
Finishing(o, ch) ==
    {c \in Clerks : clerk[c].pc = "finish" /\ clerk[c].order = o /\ clerk[c].channel = ch}

\* Every refund that was paid or is about to be recorded is one a channel executed.
SentIsCounted ==
    \A o \in Orders, ch \in Channels :
        Cardinality(PaidThrough(refunds[o], {ch})) + Cardinality(Finishing(o, ch)) <= sentBack[<<o, ch>>]

PaidSame(o, ch) == PaidThrough(refunds'[o], {ch}) = PaidThrough(refunds[o], {ch})

\* Money was sent back and is to be recorded, ...
Sends(o, ch) ==
    /\ PaidSame(o, ch)
    /\ sentBack'[<<o, ch>>] = sentBack[<<o, ch>>] + 1
    /\ \E c \in Clerks : Finishing(o, ch)' = Finishing(o, ch) \cup {c}

\* ... it is recorded, ...
Records(o, ch) ==
    /\ Cardinality(PaidThrough(refunds'[o], {ch})) = Cardinality(PaidThrough(refunds[o], {ch})) + 1
    /\ sentBack'[<<o, ch>>] = sentBack[<<o, ch>>]
    /\ \E c \in Finishing(o, ch) : Finishing(o, ch)' = Finishing(o, ch) \ {c}

\* ... or nothing is recorded, perhaps for good.
RecordsNothing(o, ch) ==
    /\ PaidSame(o, ch)
    /\ sentBack'[<<o, ch>>] >= sentBack[<<o, ch>>]
    /\ Finishing(o, ch)' \subseteq Finishing(o, ch)

\* One clerk moves: the others finish what they finished before.
LEMMA OneClerkMoves ==
    ASSUME NEW c \in Clerks, RefundInv, NEW k, clerk' = [clerk EXCEPT ![c] = k],
           NEW o \in Orders, NEW ch \in Channels
    PROVE  /\ k.pc = "finish" /\ k.order = o /\ k.channel = ch =>
                 Finishing(o, ch)' = Finishing(o, ch) \cup {c}
           /\ ~(k.pc = "finish" /\ k.order = o /\ k.channel = ch) =>
                 Finishing(o, ch)' = Finishing(o, ch) \ {c}
<1>1. clerk'[c] = k /\ \A d \in Clerks : d # c => clerk'[d] = clerk[d]
  BY RefundUnfolded
<1> QED BY <1>1 DEF Finishing

LEMMA NothingPaid ==
    ASSUME RefundInv, ChangesRefunds, UNCHANGED returned, NEW o \in Orders, NEW ch \in Channels
    PROVE  PaidSame(o, ch)
<1>1. \A p \in Orders : \A i \in DOMAIN refunds[p] : ~PaysRefund(p, i)
  BY RefundUnfolded DEF PaysRefund
<1> QED BY <1>1, PaidStays DEF ChangesRefunds, PaidSame

LEMMA SentTyped ==
    ASSUME RefundInv
    PROVE  \A o \in Orders, ch \in Channels : sentBack[<<o, ch>>] \in Nat
<1> SUFFICES ASSUME NEW o \in Orders, NEW ch \in Channels PROVE sentBack[<<o, ch>>] \in Nat
  OBVIOUS
<1>1. PICK oc \in Orders \X Channels : oc = <<o, ch>>
  OBVIOUS
<1>2. sentBack[oc] \in Nat
  BY RefundUnfolded
<1> QED BY <1>1, <1>2

\* A clerk that takes no part in finishing: Free, or on its way to another statement.
LEMMA QuietStep ==
    ASSUME RefundInv, ChangesRefunds, UNCHANGED <<returned, sentBack>>, NEW c \in Clerks, NEW k,
           clerk' = [clerk EXCEPT ![c] = k], k.pc = "finish" => k.channel \notin Channels,
           NEW o \in Orders, NEW ch \in Channels
    PROVE  RecordsNothing(o, ch)
<1>1. PaidSame(o, ch) /\ sentBack[<<o, ch>>] \in Nat
  BY NothingPaid, SentTyped
<1>2. Finishing(o, ch)' \subseteq Finishing(o, ch)
  <2>1. ~(k.pc = "finish" /\ k.order = o /\ k.channel = ch)
    OBVIOUS
  <2>2. Finishing(o, ch)' = Finishing(o, ch) \ {c}
    BY <2>1, OneClerkMoves
  <2> QED BY <2>2
<1> QED BY <1>1, <1>2 DEF RecordsNothing

LEMMA SentStep ==
    ASSUME RefundInv, attempts \in [Orders -> Seq(Attempt)], Refunding!RefundNext,
           NEW p \in Orders, NEW ch \in Channels
    PROVE  Sends(p, ch) \/ Records(p, ch) \/ RecordsNothing(p, ch)
<1> DEFINE Result == Sends(p, ch) \/ Records(p, ch) \/ RecordsNothing(p, ch)
<1>0. ChangesRefunds /\ sentBack[<<p, ch>>] \in Nat
  BY RefundChanges, SentTyped
<1>1. ASSUME NEW c \in Clerks, NEW k, clerk' = [clerk EXCEPT ![c] = k],
             k.pc = "finish" => k.channel \notin Channels, UNCHANGED <<returned, sentBack>>
      PROVE  Result
  BY <1>0, <1>1, QuietStep
<1>2. ASSUME NEW c \in Clerks, NEW o \in Orders,
             \/ Refunding!LoadForRefund(c, o)
             \/ \E i \in DOMAIN refunds[o] : Refunding!LoadForApprove(c, o, i)
      PROVE  Result
  <2>1. CASE Refunding!LoadForRefund(c, o)
    <3>1. PICK k : k = [pc |-> "countClaims", order |-> o, channel |-> "none", refund |-> 0]
      OBVIOUS
    <3>2. k.pc # "finish"
      BY <3>1
    <3> QED BY <1>1, <2>1, <3>1, <3>2 DEF Refunding!LoadForRefund, Refunding!Begin
  <2>2. ASSUME NEW i \in DOMAIN refunds[o], Refunding!LoadForApprove(c, o, i) PROVE Result
    <3>1. PICK ca, pc : ca = refunds[o][i].channel /\ pc = Refunding!ApproveBranch(ca)
      OBVIOUS
    <3>2. PICK k : k = [pc |-> pc, order |-> o, channel |-> ca, refund |-> i]
      OBVIOUS
    <3>3. k.pc = "finish" => k.channel \in {"free", "offline"}
      BY <3>1, <3>2 DEF Refunding!ApproveBranch
    <3>4. k.pc = "finish" => k.channel \notin Channels
      BY <3>3, ChannelAssumption
    <3> QED BY <1>1, <2>2, <3>1, <3>2, <3>4 DEF Refunding!LoadForApprove, Refunding!Begin
  <2> QED BY <1>2, <2>1, <2>2
<1>3. ASSUME NEW c \in Clerks, Refunding!Return(c), UNCHANGED <<returned, sentBack>>
      PROVE  Result
  <2>1. Refunding!Free.pc # "finish"
    BY DEF Refunding!Free
  <2> QED BY <1>1, <1>3, <2>1 DEF Refunding!Return
<1>4. ASSUME NEW c \in Clerks, NEW pc \in {"countRefunds", "readChannel"}, Refunding!GoTo(c, pc),
             UNCHANGED <<returned, sentBack>>
      PROVE  Result
  <2>1. PICK k : k = [clerk[c] EXCEPT !.pc = pc]
    OBVIOUS
  <2>2. k.pc # "finish"
    BY <1>4, <2>1, RefundUnfolded DEF Refunding!Clerk
  <2> QED BY <1>1, <1>4, <2>1, <2>2 DEF Refunding!GoTo
<1>5. ASSUME NEW c \in Clerks, NEW o \in Orders, Refunding!ReadChannel(c, o) PROVE Result
  <2>1. PICK ca : clerk' = [clerk EXCEPT ![c].pc = "insert", ![c].channel = ca]
    BY <1>5 DEF Refunding!ReadChannel
  <2>2. PICK k : k = [clerk[c] EXCEPT !.pc = "insert", !.channel = ca]
    OBVIOUS
  <2>3. k.pc # "finish"
    BY <2>2, RefundUnfolded DEF Refunding!Clerk
  <2>4. clerk' = [clerk EXCEPT ![c] = k] /\ UNCHANGED <<returned, sentBack>>
    BY <1>5, <2>1, <2>2 DEF Refunding!ReadChannel
  <2> QED BY <1>1, <2>3, <2>4
<1>6. ASSUME NEW c \in Clerks,
             \/ Refunding!Abort(c)
             \/ \E o \in Orders :
                   \/ Refunding!CountClaims(c, o) \/ Refunding!CountRefunds(c, o)
                   \/ Refunding!InsertRefund(c, o) \/ Refunding!MarkRefundFailed(c, o)
      PROVE  Result
  BY <1>3, <1>4, <1>6 DEF Refunding!Abort, Refunding!CountClaims, Refunding!CountRefunds,
       Refunding!InsertRefund, Refunding!MarkRefundFailed
<1>7. ASSUME NEW o \in Orders, NEW i \in DOMAIN refunds[o], Refunding!RejectRefund(o, i) PROVE Result
  <2>1. UNCHANGED <<clerk, returned, sentBack>>
    BY <1>7 DEF Refunding!RejectRefund
  <2>2. PaidSame(p, ch)
    BY <1>0, <2>1, NothingPaid
  <2>3. Finishing(p, ch)' = Finishing(p, ch)
    BY <2>1 DEF Finishing
  <2>4. sentBack'[<<p, ch>>] >= sentBack[<<p, ch>>]
    BY <1>0, <2>1
  <2> QED BY <2>2, <2>3, <2>4 DEF RecordsNothing
<1>8. ASSUME NEW c \in Clerks, NEW o \in Orders,
             Refunding!CallChannelSucceeds(c, o) \/ Refunding!CallChannelFails(c, o)
      PROVE  Result
  <2>1. PICK ca \in Channels : clerk[c].pc = "callChannel" /\ clerk[c].order = o /\ clerk[c].channel = ca
    BY <1>8, RefundUnfolded
       DEF Refunding!CallChannelSucceeds, Refunding!CallChannelFails, Refunding!At, ClerkKnows
  <2>2. PaidSame(p, ch)
    BY <1>0, <1>8, NothingPaid DEF Refunding!CallChannelSucceeds, Refunding!CallChannelFails
  <2>3. PICK oc, pch \in Orders \X Channels : oc = <<o, ca>> /\ pch = <<p, ch>>
    OBVIOUS
  <2>4. ASSUME Refunding!ChannelRefunds(o, ca)
        PROVE  sentBack'[pch] = IF pch = oc THEN sentBack[pch] + 1 ELSE sentBack[pch]
    <3>1. sentBack' = [sentBack EXCEPT ![oc] = @ + 1]
      BY <2>3, <2>4 DEF Refunding!ChannelRefunds
    <3> QED BY <3>1, RefundUnfolded
  <2>5. sentBack'[pch] >= sentBack[pch] /\ sentBack[pch] \in Nat
    BY <1>0, <1>8, <2>1, <2>3, <2>4 DEF Refunding!CallChannelSucceeds, Refunding!CallChannelFails
  <2>6. PICK pc \in {"finish", "markFailed"} :
            Refunding!GoTo(c, pc) /\ (pc = "finish" => Refunding!ChannelRefunds(o, ca))
    BY <1>8, <2>1 DEF Refunding!CallChannelSucceeds, Refunding!CallChannelFails
  <2>7. PICK k : k = [clerk[c] EXCEPT !.pc = pc]
    OBVIOUS
  <2>8. k.pc = pc /\ k.order = o /\ k.channel = ca
    BY <2>1, <2>7, RefundUnfolded DEF Refunding!Clerk
  <2>9. clerk' = [clerk EXCEPT ![c] = k]
    BY <2>6, <2>7 DEF Refunding!GoTo
  <2>10. CASE pc = "finish" /\ p = o /\ ch = ca
    <3>1. Finishing(p, ch)' = Finishing(p, ch) \cup {c}
      BY <2>8, <2>9, <2>10, OneClerkMoves
    <3>2. sentBack'[pch] = sentBack[pch] + 1
      BY <2>3, <2>4, <2>6, <2>10
    <3> QED BY <2>2, <2>3, <3>1, <3>2 DEF Sends
  <2>11. CASE ~(pc = "finish" /\ p = o /\ ch = ca)
    <3>1. ~(k.pc = "finish" /\ k.order = p /\ k.channel = ch)
      BY <2>8, <2>11
    <3>2. Finishing(p, ch)' = Finishing(p, ch) \ {c}
      <4>1. clerk'[c] = k /\ \A d \in Clerks : d # c => clerk'[d] = clerk[d]
        BY <2>9, RefundUnfolded
      <4> QED BY <3>1, <4>1 DEF Finishing
    <3> QED BY <2>2, <2>3, <2>5, <3>2 DEF RecordsNothing
  <2> QED BY <2>10, <2>11
\* The end of an approval pays the request in the channel of the clerk, or nothing.
<1>9. ASSUME NEW c \in Clerks, NEW o \in Orders,
             Refunding!RefundToBalance(c, o) \/ Refunding!FinishCertOrderRefund(c, o)
      PROVE  Result
  <2>1. /\ clerk[c].order = o /\ clerk[c].pc \in {"finish", "toBalance"}
        /\ UNCHANGED sentBack /\ Refunding!Return(c)
    BY <1>9 DEF Refunding!RefundToBalance, Refunding!FinishCertOrderRefund, Refunding!At
  <2>2. Finishing(p, ch)' = Finishing(p, ch) \ {c} /\ sentBack'[<<p, ch>>] = sentBack[<<p, ch>>]
    <3>1. Refunding!Free.pc # "finish"
      BY DEF Refunding!Free
    <3>2. PICK k : k = Refunding!Free
      OBVIOUS
    <3>3. clerk' = [clerk EXCEPT ![c] = k]
      BY <2>1, <3>2 DEF Refunding!Return
    <3>4. ~(k.pc = "finish" /\ k.order = p /\ k.channel = ch)
      BY <3>1, <3>2
    <3>5. Finishing(p, ch)' = Finishing(p, ch) \ {c}
      BY <3>3, <3>4, OneClerkMoves
    <3> QED BY <2>1, <3>5
  <2>3. CASE PaidSame(p, ch)
    BY <1>0, <2>2, <2>3 DEF RecordsNothing
  <2>4. CASE refunds' = refunds
    BY <2>3, <2>4 DEF PaidSame
  <2> DEFINE i == clerk[c].refund
  <2>5. CASE Refunding!CanFinish(o, i)
    <3>1. i \in DOMAIN refunds[o] /\ PaysRefund(o, i)
      BY <1>9, <2>1, <2>5, RecordPays, RefundUnfolded
         DEF Refunding!RefundToBalance, Refunding!FinishCertOrderRefund, Refunding!At
    <3>2. /\ refunds[o][i].channel = clerk[c].channel
          /\ clerk[c].pc = "toBalance" => clerk[c].channel \in {"balance", "none"}
      BY <2>1, RefundUnfolded DEF ClerkKnows
    <3>3. CASE p # o \/ ch # clerk[c].channel
      <4>1. ASSUME p # o PROVE PaidSame(p, ch)
        BY <3>1, <4>1, RefundUnfolded DEF PaidSame, PaysRefund, Decides
      <4>2. ASSUME p = o PROVE PaidSame(p, ch)
        <5>1. refunds[o][i].channel \notin {ch}
          BY <3>2, <3>3, <4>2
        <5>2. PaidThrough(refunds'[o], {ch}) = PaidThrough(refunds[o], {ch})
          BY <3>1, <5>1, PaidOnce
        <5> QED BY <4>2, <5>2 DEF PaidSame
      <4>3. PaidSame(p, ch)
        BY <4>1, <4>2
      <4> QED BY <2>3, <4>3
    <3>4. CASE p = o /\ ch = clerk[c].channel
      <4>1. clerk[c].pc = "finish"
        BY <2>1, <3>2, <3>4, ChannelAssumption, NoneAssumption
      <4>2. c \in Finishing(p, ch)
        BY <2>1, <3>4, <4>1 DEF Finishing
      <4>3. Cardinality(PaidThrough(refunds'[p], {ch})) = Cardinality(PaidThrough(refunds[p], {ch})) + 1
        <5>1. refunds[o][i].channel \in {ch}
          BY <3>2, <3>4
        <5>2. Cardinality(PaidThrough(refunds'[o], {ch})) = Cardinality(PaidThrough(refunds[o], {ch})) + 1
          BY <3>1, <5>1, PaidOnce
        <5> QED BY <3>4, <5>2
      <4> QED BY <2>2, <4>2, <4>3 DEF Records
    <3> QED BY <3>3, <3>4
  <2> QED BY <1>9, <2>4, <2>5 DEF Refunding!RefundToBalance, Refunding!FinishCertOrderRefund
<1> QED BY <1>2, <1>5, <1>6, <1>7, <1>8, <1>9 DEF Refunding!RefundNext, Refunding!Statement

LEMMA SentIsCountedStep ==
    ASSUME LInv, LInv', SentIsCounted, [LifecycleNext]_lifecycleVars
    PROVE  SentIsCounted'
<1> SUFFICES ASSUME NEW o \in Orders, NEW ch \in Channels
             PROVE  Cardinality(PaidThrough(refunds'[o], {ch})) + Cardinality(Finishing(o, ch)')
                       <= sentBack'[<<o, ch>>]
  BY DEF SentIsCounted
<1>1. Cardinality(PaidThrough(refunds[o], {ch})) + Cardinality(Finishing(o, ch)) <= sentBack[<<o, ch>>]
  BY DEF SentIsCounted
<1>2. /\ IsFiniteSet(Finishing(o, ch)) /\ Cardinality(Finishing(o, ch)) \in Nat
      /\ sentBack[<<o, ch>>] \in Nat /\ Cardinality(PaidThrough(refunds[o], {ch})) \in Nat
  <2>1. Finishing(o, ch) \subseteq Clerks
    BY DEF Finishing
  <2>2. IsFiniteSet(Finishing(o, ch))
    BY <2>1, ClerksAssumption, FS_Subset
  <2>3. RefundInv
    BY DEF LInv
  <2> QED BY <2>2, <2>3, FS_CardinalityType, SentTyped, RefundUnfolded, PaidThroughFinite
<1>3. CASE UNCHANGED <<refunds, clerk, sentBack>>
  BY <1>1, <1>3 DEF Finishing
<1>4. CASE Sends(o, ch)
  <2>1. PICK c \in Clerks : Finishing(o, ch)' = Finishing(o, ch) \cup {c}
    BY <1>4 DEF Sends
  <2>2. Cardinality(Finishing(o, ch) \cup {c}) \in
           {Cardinality(Finishing(o, ch)), Cardinality(Finishing(o, ch)) + 1}
    BY <1>2, FS_AddElement
  <2>3. PICK n \in Nat : n = Cardinality(Finishing(o, ch)')
    BY <1>2, <2>1, <2>2
  <2>4. n <= Cardinality(Finishing(o, ch)) + 1
    BY <1>2, <2>1, <2>2, <2>3
  <2>5. /\ PaidThrough(refunds'[o], {ch}) = PaidThrough(refunds[o], {ch})
        /\ sentBack'[<<o, ch>>] = sentBack[<<o, ch>>] + 1
    BY <1>4 DEF Sends, PaidSame
  <2> QED BY <1>1, <1>2, <2>3, <2>4, <2>5
<1>5. CASE Records(o, ch)
  <2>1. PICK c \in Finishing(o, ch) : Finishing(o, ch)' = Finishing(o, ch) \ {c}
    BY <1>5 DEF Records
  <2>2. Cardinality(Finishing(o, ch) \ {c}) = Cardinality(Finishing(o, ch)) - 1
    BY <1>2, FS_RemoveElement
  <2>3. PICK n \in Int : n = Cardinality(Finishing(o, ch)') /\ n = Cardinality(Finishing(o, ch)) - 1
    BY <1>2, <2>1, <2>2
  <2>4. /\ Cardinality(PaidThrough(refunds'[o], {ch})) = Cardinality(PaidThrough(refunds[o], {ch})) + 1
        /\ sentBack'[<<o, ch>>] = sentBack[<<o, ch>>]
    BY <1>5 DEF Records
  <2> QED BY <1>1, <1>2, <2>3, <2>4
<1>6. CASE RecordsNothing(o, ch)
  <2>1. PICK S \in SUBSET Finishing(o, ch) : S = Finishing(o, ch)'
    BY <1>6 DEF RecordsNothing
  <2>2. Cardinality(S) <= Cardinality(Finishing(o, ch)) /\ Cardinality(S) \in Nat
    BY <1>2, FS_Subset, FS_CardinalityType
  <2>3. sentBack'[<<o, ch>>] \in Nat
    <3>1. \A oc \in Orders \X Channels : sentBack'[oc] \in Nat
      BY DEF LInv, RefundInv, Refunding!RefundTypeOK
    <3> QED BY <3>1
  <2> QED BY <1>1, <1>2, <1>6, <2>1, <2>2, <2>3 DEF RecordsNothing, PaidSame
<1>7. CASE Refunding!RefundNext
  <2>1. RefundInv /\ attempts \in [Orders -> Seq(Attempt)]
    BY DEF LInv, Inv, TypeInv, CheckoutTypeOK, StoreTypeOK
  <2> QED BY <1>4, <1>5, <1>6, <1>7, <2>1, SentStep
<1> QED BY <1>3, <1>7 DEF LifecycleNext, lifecycleVars

LEMMA SentIsCountedInit == ASSUME LifecycleInit PROVE SentIsCounted
<1> SUFFICES ASSUME NEW o \in Orders, NEW ch \in Channels
             PROVE  Cardinality(PaidThrough(refunds[o], {ch})) + Cardinality(Finishing(o, ch))
                       <= sentBack[<<o, ch>>]
  BY DEF SentIsCounted
<1>1. /\ refunds[o] = <<>> /\ sentBack[<<o, ch>>] = 0
      /\ \A c \in Clerks : clerk[c].pc = "idle"
  BY DEF LifecycleInit, Refunding!RefundInit, Refunding!Free
<1>2. PaidThrough(refunds[o], {ch}) = {} /\ Finishing(o, ch) = {}
  BY <1>1 DEF PaidThrough, Finishing
<1>3. Cardinality({}) = 0
  BY FS_EmptySet
<1>4. Cardinality(PaidThrough(refunds[o], {ch})) = 0 /\ Cardinality(Finishing(o, ch)) = 0
  BY <1>2, <1>3
<1> QED BY <1>1, <1>4

-----------------------------------------------------------------------------
(* Theorems *)

\* Rows, handlers, workers and clerks stay what the tables and the code say they are, with
\* all three desks at work on the same orders.
THEOREM LifecycleTypes == LifecycleSpec => []LifecycleTypeOK
<1>1. LInv => LifecycleTypeOK
  BY DEF LInv, Inv, TypeInv, FInv, RefundInv, LifecycleTypeOK
<1> QED BY <1>1, LifecycleInvariant, PTL

\* An order that was sold stays sold, one that was cancelled stays cancelled, and each is
\* booked once: applications, approvals, rejections and refunds (ApplyCertOrder,
\* ApproveApplication, RejectApplication, ApproveRefund) do not open it again.
THEOREM LifecycleIsOrderBook == LifecycleSpec => LifecycleImplementsOrderBook
<1>1. LifecycleInit => Book!BookInit
  BY RefinesInit DEF LifecycleInit
<1>2. ASSUME LInv, LInv', [LifecycleNext]_lifecycleVars
      PROVE  [Book!BookNext]_(Book!bookVars)
  <2>1. ASSUME \A o \in Orders : Phase(o)' = Phase(o), UNCHANGED <<attempts, reported, booked>>
        PROVE  UNCHANGED Book!bookVars
    <3>1. \A o \in Orders : Funded(o)' = Funded(o)
      BY <2>1 DEF Funded, PaidRows
    <3> QED BY <2>1, <3>1 DEF Book!bookVars
  <2>2. CASE [CheckoutNext]_checkoutVars
    BY <1>2, <2>2, RefinesStep DEF LInv
  <2>3. CASE FulfilmentNext /\ UNCHANGED channelVars
    BY <1>2, <2>1, <2>3, IssuingStep DEF LInv, channelVars
  <2>4. CASE Refunding!RefundNext /\ UNCHANGED <<req, channelVars, apps, work, misread>>
    BY <1>2, <2>1, <2>4, RefundKeepsInvariant DEF channelVars
  <2> QED BY <1>2, <2>2, <2>3, <2>4 DEF LifecycleNext, lifecycleVars, checkoutVars
<1> QED BY <1>1, <1>2, LifecycleInvariant, PTL
        DEF LifecycleSpec, LifecycleImplementsOrderBook, ImplementsOrderBook, Book!BookSpec

\* The CA signs for sold and booked orders only, whatever order the requests of users,
\* administrators and channels are executed in (validateApplication).
THEOREM OnlySoldAlwaysIssued == LifecycleSpec => []OnlySoldIsIssued
<1>1. LInv => OnlySoldIsIssued
  <2>1. \A o \in Orders : Sold(o) => status[o] \notin {"pending_payment", "cancelled"}
    BY DEF Sold, Phase
  <2> QED BY <2>1 DEF LInv, AppsOnSold, BookedWhenSold, OnlySoldIsIssued, Sold
<1> QED BY <1>1, LifecycleInvariant, PTL

\* Nothing changes a decided refund request, and every request that becomes paid has its
\* record in consume_records (ApproveRefund, RejectRefund), two approvals side by side included.
THEOREM RefundAlwaysDecidedOnce == LifecycleSpec => RefundIsDecidedOnce
<1> DEFINE All == AllChannels \cup {"none"}
           Paid(o) == Refunding!RefundsIn(o, {"paid"})
           Decided ==
              \A o \in Orders :
                 /\ \A i \in Refunding!RefundsIn(o, {"paid", "failed"}) : refunds'[o][i] = refunds[o][i]
                 /\ returned'[o] - returned[o]
                       = Cardinality({i \in DOMAIN refunds'[o] : refunds'[o][i].state = "paid"})
                           - Cardinality(Paid(o))
<1>1. ASSUME RefundInv
      PROVE  \A o \in Orders : /\ Paid(o) = PaidThrough(refunds[o], All)
                               /\ Cardinality(Paid(o)) \in Nat
  <2> SUFFICES ASSUME NEW o \in Orders
               PROVE  Paid(o) = PaidThrough(refunds[o], All) /\ Cardinality(Paid(o)) \in Nat
    OBVIOUS
  <2>1. refunds[o] \in Seq(Refunding!RefundRequest)
        /\ \A i \in DOMAIN refunds[o] : refunds[o][i] \in Refunding!RefundRequest
    BY <1>1, RefundUnfolded
  <2>2. Paid(o) = PaidThrough(refunds[o], All)
    BY <2>1 DEF PaidThrough, Refunding!RefundsIn, Refunding!RefundRequest, Refunding!AllChannels,
                AllChannels
  <2> QED BY <2>1, <2>2, PaidThroughFinite
<1>2. ASSUME RefundInv, UNCHANGED <<refunds, returned>> PROVE Decided
  <2>1. \A o \in Orders : returned[o] \in Nat /\ Cardinality(Paid(o)) \in Nat
    BY <1>1, <1>2, RefundUnfolded
  <2>2. \A o \in Orders : Paid(o) = {i \in DOMAIN refunds'[o] : refunds'[o][i].state = "paid"}
    BY <1>2 DEF Refunding!RefundsIn
  <2> QED BY <1>2, <2>1, <2>2 DEF Refunding!RefundsIn
<1>3. ASSUME RefundInv, RefundInv', ChangesRefunds, RequestsEvolve PROVE Decided
  <2> SUFFICES ASSUME NEW o \in Orders
               PROVE  returned'[o] - returned[o] = Cardinality(Paid(o)') - Cardinality(Paid(o))
    BY <1>3 DEF RequestsEvolve, Refunding!RefundsIn
  <2>1. /\ Paid(o) = PaidThrough(refunds[o], All) /\ Cardinality(Paid(o)) \in Nat
        /\ returned \in [Orders -> Nat]
    BY <1>1, <1>3, RefundUnfolded
  <2>2. /\ \A i \in DOMAIN refunds'[o] : refunds'[o][i].channel \in All
        /\ refunds'[o] \in Seq(Refunding!RefundRequest)
    <3>1. refunds' \in [Orders -> Seq(Refunding!RefundRequest)]
      BY <1>3 DEF RefundInv, Refunding!RefundTypeOK
    <3>2. refunds'[o] \in Seq(Refunding!RefundRequest)
      BY <3>1
    <3>3. \A i \in DOMAIN refunds'[o] : refunds'[o][i] \in Refunding!RefundRequest
      BY <3>2
    <3> QED BY <3>2, <3>3 DEF Refunding!RefundRequest, Refunding!AllChannels, AllChannels
  <2>3. Paid(o)' = PaidThrough(refunds'[o], All)
    BY <2>2 DEF PaidThrough, Refunding!RefundsIn
  <2>4. CASE ~\E p \in Orders : \E i \in DOMAIN refunds[p] : PaysRefund(p, i)
    <3>1. /\ PaidThrough(refunds'[o], All) = PaidThrough(refunds[o], All)
          /\ returned' = returned
      BY <1>3, <2>4, PaidStays DEF ChangesRefunds, LeavesRefunds, OpensRefund, FailsRefund
    <3> QED BY <2>1, <2>3, <3>1
  <2>5. ASSUME NEW p \in Orders, NEW i \in DOMAIN refunds[p], PaysRefund(p, i)
        PROVE  returned'[o] - returned[o] = Cardinality(Paid(o)') - Cardinality(Paid(o))
    <3>1. CASE o # p
      <4>1. refunds'[o] = refunds[o]
        BY <1>3, <2>5, <3>1, PaidOnce
      <4> QED BY <2>1, <2>3, <2>5, <3>1, <4>1 DEF PaysRefund
    <3>2. CASE o = p
      <4>1. refunds[o][i].channel \in All
        <5>1. refunds[o][i] \in Refunding!RefundRequest
          BY <1>3, <2>5, <3>2, RefundUnfolded
        <5> QED BY <5>1 DEF Refunding!RefundRequest, Refunding!AllChannels, AllChannels
      <4>2. Cardinality(PaidThrough(refunds'[o], All)) = Cardinality(PaidThrough(refunds[o], All)) + 1
        BY <1>3, <2>5, <3>2, <4>1, PaidOnce
      <4> QED BY <2>1, <2>3, <2>5, <3>2, <4>2 DEF PaysRefund
    <3> QED BY <3>1, <3>2
  <2> QED BY <2>4, <2>5
<1>4. LInv /\ LInv' /\ [LifecycleNext]_lifecycleVars => [Decided]_lifecycleVars
  <2> SUFFICES ASSUME LInv, LInv', [LifecycleNext]_lifecycleVars PROVE Decided
    OBVIOUS
  <2>1. CASE UNCHANGED <<refunds, returned>>
    BY <1>2, <2>1 DEF LInv
  <2>2. CASE Refunding!RefundNext /\ UNCHANGED <<req, channelVars, apps, work, misread>>
    BY <1>3, <2>2, RefundKeepsInvariant DEF LInv
  <2> QED BY <2>1, <2>2 DEF LifecycleNext, lifecycleVars
<1> QED BY <1>4, LifecycleInvariant, PTL DEF LifecycleSpec, RefundIsDecidedOnce

\* Whichever desks work on a user's orders at the same time, the balance is what its opening,
\* payments and refunds made it, and total_consume covers the purchases made since the account
\* was opened and not returned: a purchase or refund before it was opened changed no row.
THEOREM AccountAlwaysExplained == LifecycleSpec => []AccountExplained
<1> DEFINE Explained == BalanceIsExplained /\ PurchasesAreCounted
<1>1. LifecycleInit => Explained
  BY AccountStarts
<1>2. LInv /\ LInv' /\ Explained /\ [LifecycleNext]_lifecycleVars => Explained'
  BY BalanceIsExplainedStep, PurchasesAreCountedStep
<1>3. Explained => AccountExplained
  BY DEF BalanceIsExplained, PurchasesAreCounted, AccountExplained
<1> QED BY <1>1, <1>2, <1>3, LifecycleInvariant, PTL DEF LifecycleSpec

\* No refund is shown as paid without one the channel executed for the same order: also not
\* when two approvals, or an approval and a rejection, overtake one another (ApproveRefund).
THEOREM PaidRefundAlwaysSent == LifecycleSpec => []PaidRefundWasSent
<1>1. LifecycleInit => SentIsCounted
  BY SentIsCountedInit
<1>2. LInv /\ LInv' /\ SentIsCounted /\ [LifecycleNext]_lifecycleVars => SentIsCounted'
  BY SentIsCountedStep
<1>3. LInv /\ SentIsCounted => PaidRefundWasSent
  <2> SUFFICES ASSUME LInv, SentIsCounted, NEW o \in Orders, NEW ch \in Channels
               PROVE  Cardinality(PaidThrough(refunds[o], {ch})) <= sentBack[<<o, ch>>]
    BY PaidRefundsUnfolded DEF PaidRefundWasSent
  <2>1. Finishing(o, ch) \subseteq Clerks /\ RefundInv
    BY DEF Finishing, LInv
  <2>2. IsFiniteSet(Finishing(o, ch))
    BY <2>1, ClerksAssumption, FS_Subset
  <2>3. /\ Cardinality(Finishing(o, ch)) \in Nat /\ sentBack[<<o, ch>>] \in Nat
        /\ Cardinality(PaidThrough(refunds[o], {ch})) \in Nat
    BY <2>1, <2>2, FS_CardinalityType, SentTyped, RefundUnfolded, PaidThroughFinite
  <2>4. Cardinality(PaidThrough(refunds[o], {ch})) + Cardinality(Finishing(o, ch)) <= sentBack[<<o, ch>>]
    BY DEF SentIsCounted
  <2> QED BY <2>3, <2>4
<1> QED BY <1>1, <1>2, <1>3, LifecycleInvariant, PTL DEF LifecycleSpec

-----------------------------------------------------------------------------
(* Subscription plans *)

\* A page works on an order that was sold, and completes one that has its subscription.
PageKnows(p) ==
    p.pc # "idle" => /\ p.order \in Orders /\ Sold(p.order)
                     /\ p.pc = "complete" => granted[p.order] = 1

PlanTypeOK ==
    /\ granted \in [Orders -> Nat] /\ offered \in BOOLEAN /\ deleting \in BOOLEAN
    /\ page \in [Pages -> Page]

PlanInv ==
    /\ Inv /\ BookedWhenSold
    /\ PlanTypeOK /\ SubscriptionsMatchOrders
    /\ \A g \in Pages : PageKnows(page[g])

LEMMA PlanStarts == ASSUME ActivationInit PROVE PlanInv
<1>1. Inv /\ BookedWhenSold
  BY InvInit, BookedInit DEF ActivationInit, BookedOnSale
<1>2. \A o \in Orders : status[o] = "pending_payment"
  BY DEF ActivationInit, CheckoutInit, StoreInit
<1>3. PlanTypeOK
  BY DEF ActivationInit, PlanTypeOK, Shown, Page
<1>4. SubscriptionsMatchOrders
  BY <1>2 DEF ActivationInit, SubscriptionsMatchOrders
<1>5. \A g \in Pages : PageKnows(page[g])
  BY DEF ActivationInit, PageKnows, Shown
<1> QED BY <1>1, <1>3, <1>4, <1>5 DEF PlanInv

\* What a step keeps if no order is unsold, no subscription is lost, and the pages that
\* move know what they do.
LEMMA PlanKept ==
    ASSUME PlanInv, Inv', BookedWhenSold', PlanTypeOK',
           \A o \in Orders :
              /\ Sold(o) => Sold(o)'
              /\ granted'[o] = granted[o] \/ (granted'[o] = 1 /\ Sold(o))
              /\ status'[o] = "completed" => status[o] = "completed" \/ granted[o] = 1,
           \A g \in Pages : \/ page'[g] = page[g] \/ page'[g].pc = "idle"
                            \/ /\ page'[g].order \in Orders /\ Sold(page'[g].order)
                               /\ page'[g].pc = "complete" => granted'[page'[g].order] = 1
    PROVE  PlanInv'
<1>1. \A o \in Orders : granted[o] = 1 => granted'[o] = 1
  OBVIOUS
<1>2. SubscriptionsMatchOrders'
  <2> SUFFICES ASSUME NEW o \in Orders
               PROVE  /\ granted'[o] <= 1
                      /\ granted'[o] = 1 => Phase(o)' = "sold"
                      /\ status'[o] = "completed" => granted'[o] = 1
    BY DEF SubscriptionsMatchOrders
  <2>1. /\ granted[o] <= 1 /\ (granted[o] = 1 => Sold(o))
        /\ status[o] = "completed" => granted[o] = 1
    BY DEF PlanInv, SubscriptionsMatchOrders, Sold
  <2>2. granted'[o] = 1 => Sold(o)'
    BY <2>1
  <2> QED BY <1>1, <2>1, <2>2 DEF Sold
<1>3. ASSUME NEW g \in Pages PROVE PageKnows(page[g])'
  <2>1. CASE page'[g] = page[g]
    <3>1. page[g].pc # "idle" => /\ page[g].order \in Orders /\ Sold(page[g].order)
                                 /\ page[g].pc = "complete" => granted[page[g].order] = 1
      BY DEF PlanInv, PageKnows
    <3>2. \A o \in Orders : Sold(o) => Sold(o)'
      OBVIOUS
    <3>3. CASE page[g].pc # "idle"
      <4>1. PICK o \in Orders : o = page[g].order /\ Sold(o) /\ (page[g].pc = "complete" => granted[o] = 1)
        BY <3>1, <3>3
      <4>2. Sold(o)' /\ page'[g].order = o /\ (page'[g].pc = "complete" => granted'[o] = 1)
        BY <1>1, <2>1, <4>1
      <4> QED BY <4>2 DEF PageKnows, Sold, Phase
    <3> QED BY <2>1, <3>3 DEF PageKnows
  <2>2. CASE page'[g].pc = "idle"
    BY <2>2 DEF PageKnows
  <2>3. CASE /\ page'[g].order \in Orders /\ Sold(page'[g].order)
             /\ page'[g].pc = "complete" => granted'[page'[g].order] = 1
    <3>1. PICK o \in Orders : o = page'[g].order /\ Sold(o) /\ Sold(o)'
      BY <2>3
    <3> QED BY <2>3, <3>1 DEF PageKnows, Sold, Phase
  <2> QED BY <2>1, <2>2, <2>3
<1> QED BY <1>2, <1>3 DEF PlanInv

\* One statement of a page on an order it works on.
LEMMA PageStep ==
    ASSUME PlanInv, NEW g \in Pages, NEW o \in Orders,
           SelectPaid(g, o) \/ PageStatement(g, o)
    PROVE  PlanInv'
<1> USE DEF checkoutVars, storeVars, channelVars
<1>1. /\ PlanTypeOK /\ page \in [Pages -> Page] /\ granted \in [Orders -> Nat]
      /\ status \in [Orders -> OrderStatus] /\ Inv /\ StoreTypeOK
  BY DEF PlanInv, PlanTypeOK, Inv, TypeInv, CheckoutTypeOK, StoreTypeOK
<1>2. /\ UNCHANGED <<attempts, booked, available, consumed, accounts, adrift, req, channelVars,
                   offered, deleting>>
      /\ status' = status \/ (status[o] = "paid" /\ status' = [status EXCEPT ![o] = "completed"])
      /\ granted' = granted \/ (granted[o] = 0 /\ granted' = [granted EXCEPT ![o] = 1])
  BY DEF SelectPaid, PageStatement, LookForGrant, LoadPlan, InsertGrant, CompletePlanOrder
<1>3. StoreTypeOK'
  <2>1. "completed" \in OrderStatus
    BY DEF OrderStatus
  <2> QED BY <1>1, <1>2, <2>1 DEF StoreTypeOK
<1>4. Inv'
  BY <1>1, <1>2, <1>3, InvStays
<1>5. \A n \in Orders : Phase(n)' = Phase(n)
  BY <1>1, <1>2 DEF Phase
<1>6. BookedWhenSold'
  BY <1>2, <1>5 DEF PlanInv, BookedWhenSold
<1>7. PICK p \in Page : /\ page' = [page EXCEPT ![g] = p]
                        /\ \/ p.pc = "idle"
                           \/ /\ p.order = o /\ Sold(o)
                              /\ p.pc = "complete" => granted'[o] = 1
  <2>2. CASE SelectPaid(g, o)
    <3>1. [pc |-> "look", order |-> o] \in Page
      BY DEF Page
    <3> QED BY <2>2, <3>1 DEF SelectPaid, Sold, Phase
  <2>3. CASE PageStatement(g, o)
    <3>1. page[g].order = o /\ page[g].pc \in {"look", "plan", "insert", "complete"} /\ page[g] \in Page
      BY <1>1, <2>3 DEF PageStatement, LookForGrant, LoadPlan, InsertGrant, CompletePlanOrder, PageAt
    <3>2. Sold(o) /\ granted[o] <= 1 /\ granted[o] \in Nat
      BY <1>1, <3>1 DEF PlanInv, PageKnows, SubscriptionsMatchOrders
    <3>3. \A pc \in {"look", "plan", "insert", "complete"} : PageGoesTo(g, pc) =>
             \E p \in Page : page' = [page EXCEPT ![g] = p] /\ p.pc = pc /\ p.order = o
      <4> TAKE pc \in {"look", "plan", "insert", "complete"}
      <4>1. [page[g] EXCEPT !.pc = pc] \in Page
        BY <3>1 DEF Page
      <4>2. [page[g] EXCEPT !.pc = pc].pc = pc /\ [page[g] EXCEPT !.pc = pc].order = o
        BY <3>1 DEF Page
      <4> QED BY <4>1, <4>2 DEF PageGoesTo
    <3>4. Shown \in Page /\ Shown.pc = "idle"
      BY DEF Shown, Page
    <3>5. \/ PageIsDone(g)
          \/ PageGoesTo(g, "plan") \/ PageGoesTo(g, "insert")
          \/ PageGoesTo(g, "complete") /\ granted'[o] = 1
      <4>1. CASE LookForGrant(g, o)
        BY <3>2, <4>1 DEF LookForGrant
      <4>2. CASE InsertGrant(g, o)
        BY <1>1, <4>2 DEF InsertGrant
      <4> QED BY <2>3, <4>1, <4>2 DEF PageStatement, LoadPlan, CompletePlanOrder
    <3> QED BY <3>2, <3>3, <3>4, <3>5 DEF PageIsDone
  <2> QED BY <2>2, <2>3
<1>8. PlanTypeOK' /\ page'[g] = p /\ \A h \in Pages \ {g} : page'[h] = page[h]
  BY <1>1, <1>2, <1>7 DEF PlanTypeOK
<1>9. granted' # granted => Sold(o)
  <2>1. granted' # granted => PageAt(g, "insert", o)
    BY <1>2 DEF SelectPaid, PageStatement, LookForGrant, LoadPlan, InsertGrant, CompletePlanOrder
  <2> QED BY <2>1 DEF PlanInv, PageKnows, PageAt
<1>10. status' # status => granted[o] = 1
  <2>1. status' # status => PageAt(g, "complete", o)
    BY <1>2 DEF SelectPaid, PageStatement, LookForGrant, LoadPlan, InsertGrant, CompletePlanOrder
  <2> QED BY <2>1 DEF PlanInv, PageKnows, PageAt
<1>11. \A n \in Orders :
          /\ Sold(n) => Sold(n)'
          /\ granted'[n] = granted[n] \/ (granted'[n] = 1 /\ Sold(n))
          /\ status'[n] = "completed" => status[n] = "completed" \/ granted[n] = 1
  BY <1>1, <1>2, <1>5, <1>9, <1>10 DEF Sold
<1>12. \A h \in Pages : \/ page'[h] = page[h] \/ page'[h].pc = "idle"
                       \/ /\ page'[h].order \in Orders /\ Sold(page'[h].order)
                          /\ page'[h].pc = "complete" => granted'[page'[h].order] = 1
  BY <1>7, <1>8
<1> QED BY <1>4, <1>6, <1>8, <1>11, <1>12, PlanKept

\* Every step: of the cashier, of a page, of the administrator, and a refund.
LEMMA PlanStep ==
    ASSUME PlanInv, [ActivationNext]_activationVars
    PROVE  PlanInv'
<1> USE DEF checkoutVars, storeVars, channelVars, planVars
<1>1. /\ PlanTypeOK /\ page \in [Pages -> Page] /\ granted \in [Orders -> Nat]
      /\ status \in [Orders -> OrderStatus] /\ Inv /\ StoreTypeOK
  BY DEF PlanInv, PlanTypeOK, Inv, TypeInv, CheckoutTypeOK, StoreTypeOK
<1>2. CASE [CheckoutNext]_checkoutVars /\ UNCHANGED planVars
  <2>1. Inv'
    BY <1>2, InvStep DEF PlanInv
  <2>2. /\ BookedWhenSold'
        /\ \A o \in Orders :
              \/ status'[o] = status[o]
              \/ status[o] = "pending_payment" /\ status'[o] \in {"paid", "cancelled"}
    BY <1>2, <2>1, BookedStep DEF PlanInv
  <2>3. PlanTypeOK'
    BY <1>1, <1>2 DEF PlanTypeOK
  <2>4. \A o \in Orders : /\ Sold(o) => Sold(o)'
                          /\ status'[o] = "completed" => status[o] = "completed"
    BY <2>2 DEF Sold, Phase
  <2>5. UNCHANGED <<granted, page>>
    BY <1>2
  <2>6. BookedWhenSold'
    BY <2>2
  <2> QED BY <2>1, <2>3, <2>4, <2>5, <2>6, PlanKept
<1>3. CASE \E g \in Pages, o \in Orders : SelectPaid(g, o) \/ PageStatement(g, o)
  BY <1>3, PageStep
<1>4. CASE \E g \in Pages : PageFails(g)
  <2>1. PICK g \in Pages : page' = [page EXCEPT ![g] = Shown]
    BY <1>4 DEF PageFails, PageIsDone
  <2>2. UNCHANGED <<checkoutVars, granted, offered, deleting>>
    BY <1>4 DEF PageFails
  <2>3. Shown \in Page /\ Shown.pc = "idle"
    BY DEF Shown, Page
  <2>4. StoreTypeOK' /\ BookedWhenSold' /\ \A o \in Orders : Phase(o)' = Phase(o)
    BY <1>1, <2>2 DEF StoreTypeOK, PlanInv, BookedWhenSold, Phase
  <2>5. Inv'
    BY <1>1, <2>2, <2>4, InvStays
  <2>6. PlanTypeOK' /\ \A h \in Pages : page'[h] = page[h] \/ page'[h].pc = "idle"
    BY <1>1, <2>1, <2>2, <2>3 DEF PlanTypeOK
  <2> QED BY <2>2, <2>4, <2>5, <2>6, PlanKept DEF Sold
<1>5. CASE CountSubscriptions \/ DeletePlan
  <2>1. UNCHANGED <<checkoutVars, granted, page>> /\ offered' \in BOOLEAN /\ deleting' \in BOOLEAN
    BY <1>1, <1>5 DEF CountSubscriptions, DeletePlan, PlanTypeOK
  <2>2. StoreTypeOK' /\ PlanTypeOK' /\ BookedWhenSold' /\ \A o \in Orders : Phase(o)' = Phase(o)
    BY <1>1, <2>1 DEF StoreTypeOK, PlanTypeOK, PlanInv, BookedWhenSold, Phase
  <2>3. Inv'
    BY <1>1, <2>1, <2>2, InvStays
  <2> QED BY <2>1, <2>2, <2>3, PlanKept DEF Sold
<1>6. ASSUME NEW o \in Orders, RefundPlanOrder(o) PROVE PlanInv'
  <2>1. /\ status[o] = "paid" /\ status' = [status EXCEPT ![o] = "refunded"]
        /\ UNCHANGED <<attempts, booked, accounts, adrift, req, channelVars, planVars>>
    BY <1>6 DEF RefundPlanOrder
  <2>2. StoreTypeOK'
    <3>1. Amount[o] \in Nat /\ "refunded" \in OrderStatus
      BY AmountAssumption DEF OrderStatus
    <3>2. status' \in [Orders -> OrderStatus]
      BY <1>1, <2>1, <3>1
    <3>3. consumed' = consumed \/ consumed' = [consumed EXCEPT ![Owner[o]] = @ - Amount[o]]
      BY <1>6, Zenon DEF RefundPlanOrder
    <3>4. available' = available \/ available' = [available EXCEPT ![Owner[o]] = @ + Amount[o]]
      BY <1>6, Zenon DEF RefundPlanOrder
    <3>5. available' \in [Users -> Nat] /\ consumed' \in [Users -> Int]
      <4>1. available \in [Users -> Nat] /\ consumed \in [Users -> Int]
        BY <1>1 DEF StoreTypeOK
      <4> QED BY <3>1, <3>3, <3>4, <4>1
    <3> QED BY <1>1, <2>1, <3>2, <3>5 DEF StoreTypeOK
  <2>3. \A n \in Orders : Phase(n)' = Phase(n)
    BY <1>1, <2>1 DEF Phase
  <2>4. Inv' /\ BookedWhenSold' /\ PlanTypeOK'
    BY <1>1, <2>1, <2>2, <2>3, InvStays DEF PlanInv, BookedWhenSold, PlanTypeOK
  <2>5. \A n \in Orders : status'[n] = "completed" => status[n] = "completed"
    BY <1>1, <2>1
  <2> QED BY <2>1, <2>3, <2>4, <2>5, PlanKept DEF Sold
<1> QED BY <1>2, <1>3, <1>4, <1>5, <1>6 DEF ActivationNext, PlanNext, activationVars

\* The fields of orders, pages and plans keep their types whatever the pages do.
THEOREM PlanTypes == ActivationSpec => []ActivationTypeOK
<1>1. PlanInv => ActivationTypeOK
  BY DEF PlanInv, PlanTypeOK, ActivationTypeOK, Inv, TypeInv
<1> QED BY <1>1, PlanStarts, PlanStep, PTL DEF ActivationSpec

\* An order has at most one subscription, only if it was sold, and is shown as completed only
\* with one, however many payment pages activate it at the same time (ActivatePaidPlanOrders).
THEOREM SubscriptionsAlwaysMatch == ActivationSpec => []SubscriptionsMatchOrders
<1>1. PlanInv => SubscriptionsMatchOrders
  BY DEF PlanInv
<1> QED BY <1>1, PlanStarts, PlanStep, PTL DEF ActivationSpec
=============================================================================
