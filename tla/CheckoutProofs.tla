--------------------------- MODULE CheckoutProofs ---------------------------
(* Theorems about the cashier for every number of orders, users, channels, *)
(* handlers and attempts: types, the safety properties, and that it        *)
(* implements OrderBook.  Each step changes the payment attempts in one of *)
(* five ways (RowStep), and the invariants about attempts are shown once   *)
(* for each way.  A step concerns at most one order, and for that order it *)
(* is a sale, a cancellation, an arrival of money, or nothing OrderBook    *)
(* can see.                                                                *)
EXTENDS Checkout, SumLemmas

-----------------------------------------------------------------------------
(* What the statements on payment_attempts keep *)

LEMMA AttemptNew ==
    ASSUME NEW ch \in AllChannels, NEW st \in AttemptState,
           NEW txn \in TxnNo
    PROVE  NewAttempt(ch, st, txn) \in Attempt
BY DEF NewAttempt, Attempt

LEMMA NoTxnIsTxnNo == NoTxn \in TxnNo /\ References \subseteq TxnNo /\ Payment \subseteq TxnNo
BY MaxPaysAssumption DEF TxnNo, Payment

LEMMA ClosePendingType ==
    ASSUME NEW rows \in Seq(Attempt)
    PROVE  /\ ClosePending(rows) \in Seq(Attempt)
           /\ DOMAIN ClosePending(rows) = DOMAIN rows
           /\ \A i \in DOMAIN rows :
                 /\ rows[i].state = "pending" => ClosePending(rows)[i] = [rows[i] EXCEPT !.state = "closed"]
                 /\ rows[i].state # "pending" => ClosePending(rows)[i] = rows[i]
<1>1. \A i \in DOMAIN rows : rows[i] \in Attempt
  OBVIOUS
<1>2. \A i \in DOMAIN rows : [rows[i] EXCEPT !.state = "closed"] \in Attempt
  BY <1>1 DEF Attempt, AttemptState
<1> QED BY <1>1, <1>2 DEF ClosePending

LEMMA CloseRowType ==
    ASSUME NEW rows \in Seq(Attempt), NEW i \in DOMAIN rows
    PROVE  CloseRow(rows, i) \in Seq(Attempt) /\ DOMAIN CloseRow(rows, i) = DOMAIN rows
<1>1. rows[i] \in Attempt
  OBVIOUS
<1>2. [rows[i] EXCEPT !.state = "closed"] \in Attempt
  BY <1>1 DEF Attempt, AttemptState
<1> QED BY <1>1, <1>2 DEF CloseRow

LEMMA MarkPaidType ==
    ASSUME NEW rows \in Seq(Attempt), NEW i \in DOMAIN rows, NEW txn \in Payment
    PROVE  MarkPaid(rows, i, txn) \in Seq(Attempt) /\ DOMAIN MarkPaid(rows, i, txn) = DOMAIN rows
<1>1. rows[i] \in Attempt
  OBVIOUS
<1>2. [rows[i] EXCEPT !.state = "paid", !.txn = txn] \in Attempt
  BY <1>1, NoTxnIsTxnNo DEF Attempt, AttemptState
<1> QED BY <1>1, <1>2 DEF MarkPaid

LEMMA SetSessionNoType ==
    ASSUME NEW rows \in Seq(Attempt), NEW i \in DOMAIN rows, NEW no \in TxnNo
    PROVE  /\ SetSessionNo(rows, i, no) \in Seq(Attempt)
           /\ DOMAIN SetSessionNo(rows, i, no) = DOMAIN rows
           /\ \A j \in DOMAIN rows : j # i => SetSessionNo(rows, i, no)[j] = rows[j]
           /\ SetSessionNo(rows, i, no)[i] = [rows[i] EXCEPT !.txn = no]
<1>1. rows[i] \in Attempt
  OBVIOUS
<1>2. [rows[i] EXCEPT !.txn = no] \in Attempt
  BY <1>1 DEF Attempt
<1> QED BY <1>1, <1>2 DEF SetSessionNo

LEMMA SessionNumberType ==
    ASSUME NEW o \in Orders, NEW ch \in Channels, NEW n \in Nat
    PROVE  SessionNumber(o, ch, n) \in TxnNo
BY DEF SessionNumber, TxnNo
-----------------------------------------------------------------------------
(* Type correctness.  It needs to know that a handler which carries a row carries a *)
(* row of the order it handles: rows are appended and updated, never deleted.       *)

RowInHand(r) ==
    /\ r.pc # "idle" => r.order \in Orders
    /\ r.pc \in {"createLink", "recordLink", "closeFailed", "settleCallback"} =>
          r.row \in DOMAIN attempts[r.order]
    /\ r.pc = "recordLink" => r.channel \in Numbered
    /\ r.pc = "settleCallback" => r.txn \in Payment

RowsInHand == \A h \in Handlers : RowInHand(req[h])

TypeInv == CheckoutTypeOK /\ RowsInHand

\* The rows of orders are kept: none is deleted.
RowsKept ==
    /\ attempts' \in [Orders -> Seq(Attempt)]
    /\ \A o \in Orders : DOMAIN attempts[o] \subseteq DOMAIN attempts'[o]

LEMMA UpdateKeepsRows ==
    ASSUME attempts \in [Orders -> Seq(Attempt)],
           NEW o \in Orders, NEW rows \in Seq(Attempt),
           DOMAIN attempts[o] \subseteq DOMAIN rows,
           attempts' = [attempts EXCEPT ![o] = rows]
    PROVE  RowsKept
BY DEF RowsKept

LEMMA AppendKeepsRows ==
    ASSUME attempts \in [Orders -> Seq(Attempt)],
           NEW o \in Orders, NEW row \in Attempt,
           attempts' = [attempts EXCEPT ![o] = Append(@, row)]
    PROVE  RowsKept /\ Len(attempts'[o]) = Len(attempts[o]) + 1
<1>1. /\ Append(attempts[o], row) \in Seq(Attempt)
      /\ DOMAIN attempts[o] \subseteq DOMAIN Append(attempts[o], row)
  OBVIOUS
<1>2. RowsKept
  BY <1>1, UpdateKeepsRows
<1>3. attempts'[o] = Append(attempts[o], row)
  OBVIOUS
<1> QED BY <1>2, <1>3

\* A step keeps the handlers well formed when the one that moves stays well formed.
LEMMA HandlerMoves ==
    ASSUME TypeInv, RowsKept, NEW h \in Handlers, NEW r \in Request,
           req' = [req EXCEPT ![h] = r], RowInHand(r)'
    PROVE  req' \in [Handlers -> Request] /\ RowsInHand'
<1>1. req' \in [Handlers -> Request]
  BY DEF TypeInv, CheckoutTypeOK
<1>2. ASSUME NEW g \in Handlers PROVE RowInHand(req[g])'
  <2>1. CASE g = h
    BY <2>1 DEF TypeInv, CheckoutTypeOK
  <2>2. CASE g # h
    <3>1. req'[g] = req[g] /\ RowInHand(req[g])
      BY <2>2 DEF TypeInv, CheckoutTypeOK, RowsInHand
    <3>2. req[g].pc # "idle" => DOMAIN attempts[req[g].order] \subseteq DOMAIN attempts'[req[g].order]
      BY <3>1 DEF RowsKept, RowInHand
    <3> QED BY <3>1, <3>2 DEF RowInHand
  <2> QED BY <2>1, <2>2
<1> QED BY <1>1, <1>2 DEF RowsInHand

LEMMA HandlersStay ==
    ASSUME TypeInv, RowsKept, UNCHANGED req
    PROVE  req' \in [Handlers -> Request] /\ RowsInHand'
BY DEF TypeInv, CheckoutTypeOK, RowsInHand, RowInHand, RowsKept

LEMMA HandlerReturns ==
    ASSUME TypeInv, RowsKept, NEW h \in Handlers, Return(h)
    PROVE  req' \in [Handlers -> Request] /\ RowsInHand'
<1>1. Idle \in Request /\ RowInHand(Idle)'
  BY NoTxnIsTxnNo DEF Idle, Request, PCs, AllChannels, RowInHand
<1> QED BY <1>1, HandlerMoves DEF Return

\* The handler goes on to pc with the row it has, if it needs one.
LEMMA HandlerGoesOn ==
    ASSUME TypeInv, RowsKept, NEW h \in Handlers, NEW pc \in PCs \ {"settleCallback"},
           GoTo(h, pc), req[h].pc # "idle",
           pc \in {"createLink", "recordLink", "closeFailed"} => req[h].pc = "createLink",
           pc = "recordLink" => req[h].channel \in Numbered
    PROVE  req' \in [Handlers -> Request] /\ RowsInHand'
<1>1. req[h] \in Request /\ RowInHand(req[h])
  BY DEF TypeInv, CheckoutTypeOK, RowsInHand
<1>2. [req[h] EXCEPT !.pc = pc] \in Request
  BY <1>1 DEF Request
<1>3. PICK r \in Request : r = [req[h] EXCEPT !.pc = pc]
  BY <1>2
<1>4. r.pc = pc /\ r.order = req[h].order /\ r.row = req[h].row /\ r.channel = req[h].channel
  BY <1>1, <1>3 DEF Request
<1>5. RowInHand(r)'
  BY <1>1, <1>4 DEF RowInHand, RowsKept
<1>6. req' = [req EXCEPT ![h] = r]
  BY <1>3 DEF GoTo
<1> QED BY <1>5, <1>6, HandlerMoves

\* The handler starts with the record given to Begin.
LEMMA HandlerBegins ==
    ASSUME TypeInv, RowsKept, NEW h \in Handlers, NEW pc \in PCs \ {"idle", "createLink", "recordLink", "closeFailed"},
           NEW o \in Orders, NEW ch \in AllChannels, NEW i \in Nat,
           NEW txn \in TxnNo,
           pc = "settleCallback" => i \in DOMAIN attempts[o] /\ txn \in Payment,
           Begin(h, pc, o, ch, i, txn)
    PROVE  req' \in [Handlers -> Request] /\ RowsInHand'
<1> DEFINE r == [pc |-> pc, order |-> o, channel |-> ch, row |-> i, txn |-> txn]
<1>1. r \in Request
  BY DEF Request
<1>2. RowInHand(r)'
  BY DEF RowInHand, RowsKept
<1>3. req' = [req EXCEPT ![h] = r]
  BY DEF Begin
<1> HIDE DEF r
<1> QED BY <1>1, <1>2, <1>3, HandlerMoves

LEMMA TypeAfter ==
    ASSUME RowsKept, req' \in [Handlers -> Request] /\ RowsInHand',
           status' \in [Orders -> OrderStatus], booked' \in [Orders -> Nat],
           available' \in [Users -> Nat], consumed' \in [Users -> Int],
           accounts' \subseteq Users, adrift' \subseteq Orders \X Nat,
           links' \in [Orders \X Channels -> Nat],
           reported' \subseteq Payment, acked' \subseteq Payment, unbooked' \subseteq Payment
    PROVE  TypeInv'
BY DEF TypeInv, CheckoutTypeOK, StoreTypeOK, RowsKept

LEMMA RowsUnchanged ==
    ASSUME TypeInv, UNCHANGED attempts
    PROVE  RowsKept
BY DEF TypeInv, CheckoutTypeOK, StoreTypeOK, RowsKept

LEMMA TypeUnfolded ==
    ASSUME TypeInv
    PROVE  /\ status \in [Orders -> OrderStatus]
           /\ attempts \in [Orders -> Seq(Attempt)]
           /\ booked \in [Orders -> Nat]
           /\ available \in [Users -> Nat]
           /\ consumed \in [Users -> Int]
           /\ req \in [Handlers -> Request]
           /\ links \in [Orders \X Channels -> Nat]
           /\ accounts \subseteq Users /\ adrift \subseteq Orders \X Nat
           /\ reported \subseteq Payment /\ acked \subseteq Payment /\ unbooked \subseteq Payment
           /\ \A h \in Handlers : RowInHand(req[h])
BY DEF TypeInv, CheckoutTypeOK, StoreTypeOK, RowsInHand

\* The parts of a settlement.
LEMMA SettleTypes ==
    ASSUME TypeInv, NEW o \in Orders
    PROVE  /\ SettleStatus(o) => status' \in [Orders -> OrderStatus]
           /\ SettleBooking(o) => booked' \in [Orders -> Nat]
           /\ CountConsumed(o) => consumed' \in [Users -> Int] /\ adrift' \subseteq Orders \X Nat
           /\ SettleCertOrderPaidTx(o) =>
                 /\ status' \in [Orders -> OrderStatus]
                 /\ booked' \in [Orders -> Nat]
                 /\ consumed' \in [Users -> Int] /\ adrift' \subseteq Orders \X Nat
<1>1. SettleStatus(o) => status' \in [Orders -> OrderStatus]
  BY TypeUnfolded DEF SettleStatus, OrderStatus
<1>2. SettleBooking(o) => booked' \in [Orders -> Nat]
  BY TypeUnfolded DEF SettleBooking
<1>3. CountConsumed(o) => consumed' \in [Users -> Int] /\ adrift' \subseteq Orders \X Nat
  BY TypeUnfolded, OwnerAssumption, AmountAssumption DEF CountConsumed
<1> QED BY <1>1, <1>2, <1>3, TypeUnfolded DEF SettleCertOrderPaidTx

LEMMA SettleCertOrderPaidType ==
    ASSUME TypeInv, NEW h \in Handlers, NEW o \in Orders, NEW ch \in AllChannels,
           NEW txn \in TxnNo,
           SettleCertOrderPaid(h, o, ch, txn)
    PROVE  TypeInv'
<1>1. RowsKept
  <2>1. CASE Settleable(o) /\ TxnFree(o, Len(attempts[o]) + 1, ch, txn)
    <3>1. NewAttempt(ch, "paid", txn) \in Attempt
      BY AttemptNew DEF AttemptState
    <3> QED BY <2>1, <3>1, AppendKeepsRows, TypeUnfolded DEF SettleCertOrderPaid
  <2>2. CASE ~(Settleable(o) /\ TxnFree(o, Len(attempts[o]) + 1, ch, txn))
    BY <2>2, RowsUnchanged DEF SettleCertOrderPaid
  <2> QED BY <2>1, <2>2
<1>2. req' \in [Handlers -> Request] /\ RowsInHand'
  BY <1>1, HandlerReturns DEF SettleCertOrderPaid
<1>3. /\ status' \in [Orders -> OrderStatus]
      /\ booked' \in [Orders -> Nat]
      /\ consumed' \in [Users -> Int] /\ adrift' \subseteq Orders \X Nat
  BY TypeUnfolded, SettleTypes DEF SettleCertOrderPaid
<1> QED BY <1>1, <1>2, <1>3, TypeAfter, TypeUnfolded DEF SettleCertOrderPaid, channelVars

THEOREM InitType == CheckoutInit => TypeInv
<1> SUFFICES ASSUME CheckoutInit PROVE TypeInv
  OBVIOUS
<1>1. StoreTypeOK
  BY OpeningBalanceAssumption DEF CheckoutInit, StoreInit, StoreTypeOK, OrderStatus
<1>2. req \in [Handlers -> Request] /\ RowsInHand
  BY NoTxnIsTxnNo DEF CheckoutInit, Idle, Request, PCs, AllChannels, RowsInHand, RowInHand
<1>3. /\ links \in [Orders \X Channels -> Nat]
      /\ reported \subseteq Payment /\ acked \subseteq Payment /\ unbooked \subseteq Payment
  BY DEF CheckoutInit
<1> QED BY <1>1, <1>2, <1>3 DEF TypeInv, CheckoutTypeOK

\* The three operations that only read: they change the handler alone.
LEMMA LoadType ==
    ASSUME TypeInv, NEW h \in Handlers, NEW o \in Orders
    PROVE  /\ \A ch \in Channels \cup {"balance"} : LoadForPayment(h, o, ch) => TypeInv'
           /\ \A ref \in References : LoadForOffline(h, o, ref) => TypeInv'
           /\ LoadForCancel(h, o) => TypeInv'
<1>1. ASSUME NEW ch \in Channels \cup {"balance"}, LoadForPayment(h, o, ch) PROVE TypeInv'
  <2>1. RowsKept
    BY <1>1, RowsUnchanged DEF LoadForPayment, storeVars
  <2>2. PICK pc \in {"settleFree", "payBalance", "closeOld"} : Begin(h, pc, o, ch, 0, NoTxn)
    BY <1>1 DEF LoadForPayment
  <2>3. req' \in [Handlers -> Request] /\ RowsInHand'
    BY <2>1, <2>2, HandlerBegins, NoTxnIsTxnNo DEF PCs, AllChannels
  <2> QED BY <1>1, <2>1, <2>3, TypeAfter, TypeUnfolded DEF LoadForPayment, storeVars, channelVars
<1>2. ASSUME NEW ref \in References, LoadForOffline(h, o, ref) PROVE TypeInv'
  <2>1. RowsKept
    BY <1>2, RowsUnchanged DEF LoadForOffline, storeVars
  <2>2. PICK ch \in {"free", "offline"} : Begin(h, "closeForOffline", o, ch, 0, ref)
    BY <1>2 DEF LoadForOffline
  <2>3. req' \in [Handlers -> Request] /\ RowsInHand'
    BY <2>1, <2>2, HandlerBegins, NoTxnIsTxnNo DEF PCs, AllChannels
  <2> QED BY <1>2, <2>1, <2>3, TypeAfter, TypeUnfolded DEF LoadForOffline, storeVars, channelVars
<1>3. ASSUME LoadForCancel(h, o) PROVE TypeInv'
  <2>1. RowsKept
    BY <1>3, RowsUnchanged DEF LoadForCancel, storeVars
  <2>2. req' \in [Handlers -> Request] /\ RowsInHand'
    BY <1>3, <2>1, HandlerBegins, NoTxnIsTxnNo DEF LoadForCancel, PCs, AllChannels
  <2> QED BY <1>3, <2>1, <2>2, TypeAfter, TypeUnfolded DEF LoadForCancel, storeVars, channelVars
<1> QED BY <1>1, <1>2, <1>3

\* Counting one up keeps a function into Nat, also outside of its domain.
LEMMA CountingUp ==
    ASSUME NEW S, NEW f \in [S -> Nat], NEW x
    PROVE  [f EXCEPT ![x] = @ + 1] \in [S -> Nat]
<1>1. CASE x \in S
  BY <1>1
<1>2. CASE x \notin S
  BY <1>2
<1> QED BY <1>1, <1>2

LEMMA OpenSessionType ==
    ASSUME TypeInv, NEW o, NEW ch, OpenSession(o, ch)
    PROVE  links' \in [Orders \X Channels -> Nat]
BY CountingUp, TypeUnfolded DEF OpenSession

\* The statements of a handler, in the order of the program.
LEMMA StatementType ==
    ASSUME TypeInv, NEW h \in Handlers, NEW o \in Orders, Statement(h, o)
    PROVE  TypeInv'
<1> DEFINE Handlers2 == req' \in [Handlers -> Request] /\ RowsInHand'
<1>0. ClosePending(attempts[o]) \in Seq(Attempt) /\ DOMAIN attempts[o] \subseteq DOMAIN ClosePending(attempts[o])
  BY TypeUnfolded, ClosePendingType
<1>1. CASE SettleFree(h, o)
  BY <1>1, SettleCertOrderPaidType, NoTxnIsTxnNo DEF SettleFree, AllChannels
<1>2. CASE PayCertOrderWithBalance(h, o)
  <2>1. RowsKept
    <3>1. NewAttempt("balance", "paid", NoTxn) \in Attempt
      BY AttemptNew, NoTxnIsTxnNo DEF AttemptState, AllChannels
    <3> QED BY <1>2, <3>1, AppendKeepsRows, RowsUnchanged, TypeUnfolded
            DEF PayCertOrderWithBalance, storeVars
  <2>2. Handlers2
    BY <1>2, <2>1, HandlerReturns DEF PayCertOrderWithBalance
  <2>3. available' \in [Users -> Nat]
    <3>1. available[Owner[o]] \in Nat /\ Amount[o] \in Nat /\ Owner[o] \in Users
      BY TypeUnfolded, OwnerAssumption, AmountAssumption
    <3>2. CASE available[Owner[o]] >= Amount[o]
      <4>1. available[Owner[o]] - Amount[o] \in Nat
        BY <3>1, <3>2
      <4> QED BY <1>2, <3>1, <4>1, TypeUnfolded DEF PayCertOrderWithBalance, storeVars
    <3>3. CASE ~(available[Owner[o]] >= Amount[o])
      BY <1>2, <3>3, TypeUnfolded DEF PayCertOrderWithBalance, storeVars
    <3> QED BY <3>2, <3>3
  <2>4. /\ status' \in [Orders -> OrderStatus]
        /\ booked' \in [Orders -> Nat]
        /\ consumed' \in [Users -> Int] /\ adrift' \subseteq Orders \X Nat
    BY <1>2, TypeUnfolded, SettleTypes DEF PayCertOrderWithBalance, storeVars
  <2> QED BY <1>2, <2>1, <2>2, <2>3, <2>4, TypeAfter, TypeUnfolded DEF PayCertOrderWithBalance, channelVars
<1>3. CASE CloseOld(h, o)
  <2>1. RowsKept
    BY <1>0, <1>3, UpdateKeepsRows, TypeUnfolded DEF CloseOld
  <2>2. Handlers2
    BY <1>3, <2>1, HandlerGoesOn DEF CloseOld, At, PCs
  <2> QED BY <1>3, <2>1, <2>2, TypeAfter, TypeUnfolded DEF CloseOld, channelVars
<1>4. CASE InsertAttempt(h, o)
  <2>1. CASE PendingFree(o)
    <3>1. NewAttempt(req[h].channel, "pending", NoTxn) \in Attempt
      BY AttemptNew, TypeUnfolded, NoTxnIsTxnNo DEF AttemptState, Request
    <3>2. RowsKept /\ Len(attempts'[o]) = Len(attempts[o]) + 1
      BY <1>4, <2>1, <3>1, AppendKeepsRows, TypeUnfolded DEF InsertAttempt
    <3>3. [req[h] EXCEPT !.pc = "createLink", !.row = Len(attempts[o]) + 1] \in Request
      <4>1. req[h] \in Request /\ Len(attempts[o]) + 1 \in Nat
        BY TypeUnfolded
      <4> QED BY <4>1 DEF Request, PCs
    <3>4. PICK r \in Request : r = [req[h] EXCEPT !.pc = "createLink", !.row = Len(attempts[o]) + 1]
      BY <3>3
    <3>5. r.pc = "createLink" /\ r.order = o /\ r.row = Len(attempts[o]) + 1
      BY <1>4, <3>4, TypeUnfolded DEF Request, InsertAttempt, At
    <3>6. r.row \in DOMAIN attempts'[o]
      BY <3>2, <3>5, TypeUnfolded DEF RowsKept
    <3>7. RowInHand(r)'
      BY <3>5, <3>6 DEF RowInHand
    <3>8. req' = [req EXCEPT ![h] = r]
      BY <1>4, <2>1, <3>4 DEF InsertAttempt
    <3>9. Handlers2
      BY <3>2, <3>7, <3>8, HandlerMoves
    <3> QED BY <1>4, <3>2, <3>9, TypeAfter, TypeUnfolded DEF InsertAttempt, channelVars
  <2>2. CASE ~PendingFree(o)
    <3>1. RowsKept
      BY <1>4, <2>2, RowsUnchanged DEF InsertAttempt
    <3>2. Handlers2
      BY <1>4, <2>2, <3>1, HandlerReturns DEF InsertAttempt
    <3> QED BY <1>4, <3>1, <3>2, TypeAfter, TypeUnfolded DEF InsertAttempt, channelVars
  <2> QED BY <2>1, <2>2
<1>5. CASE CreateLink(h, o)
  <2>1. RowsKept
    BY <1>5, RowsUnchanged DEF CreateLink, storeVars
  <2>2. Handlers2
    BY <1>5, <2>1, HandlerReturns, HandlerGoesOn DEF CreateLink, At, PCs
  <2>3. links' \in [Orders \X Channels -> Nat]
    BY <1>5, OpenSessionType, TypeUnfolded DEF CreateLink
  <2> QED BY <1>5, <2>1, <2>2, <2>3, TypeAfter, TypeUnfolded DEF CreateLink, storeVars
<1>13. CASE RecordLink(h, o)
  <2> DEFINE no == SessionNumber(o, req[h].channel, links[<<o, req[h].channel>>] + 1)
  <2>1. req[h].row \in DOMAIN attempts[o] /\ o \in Orders
    BY <1>13, TypeUnfolded DEF RecordLink, At, RowInHand
  <2>5. no \in TxnNo
    <3>1. req[h].channel \in Channels
      BY <1>13, NumberedAssumption, TypeUnfolded DEF RecordLink, RowInHand, At
    <3> QED BY <2>1, <3>1, SessionNumberType, TypeUnfolded
  <2>2. RowsKept
    <3>1. CASE UNCHANGED attempts
      BY <3>1, RowsUnchanged
    <3>2. CASE attempts' = [attempts EXCEPT ![o] = SetSessionNo(@, req[h].row, no)]
      BY <2>1, <2>5, <3>2, SetSessionNoType, UpdateKeepsRows, TypeUnfolded
    <3>3. UNCHANGED attempts \/ attempts' = [attempts EXCEPT ![o] = SetSessionNo(@, req[h].row, no)]
      BY <1>13 DEF RecordLink
    <3> QED BY <3>1, <3>2, <3>3
  <2>3. Handlers2
    BY <1>13, <2>2, HandlerReturns DEF RecordLink
  <2>4. links' \in [Orders \X Channels -> Nat]
    BY <1>13, OpenSessionType DEF RecordLink
  <2> QED BY <1>13, <2>2, <2>3, <2>4, TypeAfter, TypeUnfolded DEF RecordLink
<1>6. CASE CreateLinkFails(h, o)
  <2>1. RowsKept
    BY <1>6, RowsUnchanged DEF CreateLinkFails, storeVars
  <2>2. Handlers2
    BY <1>6, <2>1, HandlerGoesOn DEF CreateLinkFails, At, PCs
  <2> QED BY <1>6, <2>1, <2>2, TypeAfter, TypeUnfolded DEF CreateLinkFails, storeVars, channelVars
<1>7. CASE CloseFailed(h, o)
  <2>1. RowsKept
    <3>1. req[h].row \in DOMAIN attempts[o]
      BY <1>7, TypeUnfolded DEF CloseFailed, At, RowInHand
    <3> QED BY <1>7, <3>1, CloseRowType, UpdateKeepsRows, TypeUnfolded DEF CloseFailed
  <2>2. Handlers2
    BY <1>7, <2>1, HandlerReturns DEF CloseFailed
  <2> QED BY <1>7, <2>1, <2>2, TypeAfter, TypeUnfolded DEF CloseFailed, channelVars
<1>8. CASE CloseForOffline(h, o)
  <2>1. RowsKept
    BY <1>0, <1>8, UpdateKeepsRows, TypeUnfolded DEF CloseForOffline
  <2>2. Handlers2
    BY <1>8, <2>1, HandlerGoesOn DEF CloseForOffline, At, PCs
  <2> QED BY <1>8, <2>1, <2>2, TypeAfter, TypeUnfolded DEF CloseForOffline, channelVars
<1>9. CASE SettleOffline(h, o)
  BY <1>9, SettleCertOrderPaidType, TypeUnfolded DEF SettleOffline, Request
<1>10. CASE CancelStatus(h, o)
  <2>1. RowsKept
    BY <1>10, RowsUnchanged DEF CancelStatus
  <2>2. Handlers2
    BY <1>10, <2>1, HandlerGoesOn, HandlerReturns DEF CancelStatus, At, PCs
  <2>3. status' \in [Orders -> OrderStatus]
    BY <1>10, TypeUnfolded DEF CancelStatus, OrderStatus
  <2> QED BY <1>10, <2>1, <2>2, <2>3, TypeAfter, TypeUnfolded DEF CancelStatus, channelVars
<1>11. CASE CloseCancelled(h, o)
  <2>1. RowsKept
    BY <1>0, <1>11, UpdateKeepsRows, TypeUnfolded DEF CloseCancelled
  <2>2. Handlers2
    BY <1>11, <2>1, HandlerReturns DEF CloseCancelled
  <2> QED BY <1>11, <2>1, <2>2, TypeAfter, TypeUnfolded DEF CloseCancelled, channelVars
<1>12. CASE SettleCallback(h, o)
  <2>1. req[h].row \in DOMAIN attempts[o] /\ req[h].txn \in Payment
    BY <1>12, TypeUnfolded DEF SettleCallback, At, RowInHand
  <2>2. RowsKept
    BY <1>12, <2>1, MarkPaidType, UpdateKeepsRows, RowsUnchanged, TypeUnfolded DEF SettleCallback
  <2>3. Handlers2
    BY <1>12, <2>2, HandlerReturns DEF SettleCallback
  <2>4. /\ status' \in [Orders -> OrderStatus]
        /\ booked' \in [Orders -> Nat]
        /\ consumed' \in [Users -> Int] /\ adrift' \subseteq Orders \X Nat
        /\ acked' \subseteq Payment /\ unbooked' \subseteq Payment
    BY <1>12, <2>1, TypeUnfolded, SettleTypes DEF SettleCallback
  <2> QED BY <1>12, <2>2, <2>3, <2>4, TypeAfter, TypeUnfolded DEF SettleCallback
<1> QED
  BY <1>1, <1>2, <1>3, <1>4, <1>5, <1>6, <1>7, <1>8, <1>9, <1>10, <1>11, <1>12, <1>13 DEF Statement, Settle

LEMMA DisputeType ==
    ASSUME NEW rows \in Seq(Attempt), NEW i \in DOMAIN rows
    PROVE  /\ [rows EXCEPT ![i].disputed = TRUE] \in Seq(Attempt)
           /\ DOMAIN [rows EXCEPT ![i].disputed = TRUE] = DOMAIN rows
<1>1. [rows[i] EXCEPT !.disputed = TRUE] \in Attempt
  <2>1. rows[i] \in Attempt
    OBVIOUS
  <2> QED BY <2>1 DEF Attempt
<1> QED BY <1>1

LEMMA LoadForCallbackType ==
    ASSUME TypeInv, NEW h \in Handlers, NEW p \in Payment, LoadForCallback(h, p)
    PROVE  TypeInv'
<1> DEFINE o == p[1]
           ch == p[2]
<1>1. o \in Orders /\ ch \in Channels /\ ch \in AllChannels
  BY DEF Payment, AllChannels
<1>2. PICK i \in DOMAIN attempts[o] :
          CASE attempts[o][i].state = "pending" ->
                  /\ Begin(h, "settleCallback", o, ch, i, p)
                  /\ UNCHANGED <<attempts, acked>>
            [] attempts[o][i].state = "paid" ->
                  /\ req[h] = Idle
                  /\ acked' = acked \cup {p}
                  /\ UNCHANGED <<req, attempts>>
            [] OTHER ->
                  /\ req[h] = Idle
                  /\ attempts' = [attempts EXCEPT ![o][i].disputed = TRUE]
                  /\ UNCHANGED <<req, acked>>
  BY DEF LoadForCallback
<1>3. UNCHANGED <<status, booked, available, consumed, accounts, adrift, links, reported, unbooked>>
  BY DEF LoadForCallback
<1>4. attempts[o] \in Seq(Attempt) /\ i \in Nat
  BY <1>1, TypeUnfolded
<1> HIDE DEF o, ch
<1>5. CASE attempts[o][i].state = "pending"
  <2>1. RowsKept
    BY <1>2, <1>5, RowsUnchanged
  <2>2. req' \in [Handlers -> Request] /\ RowsInHand'
    BY <1>1, <1>2, <1>4, <1>5, <2>1, HandlerBegins, NoTxnIsTxnNo DEF PCs
  <2> QED BY <1>2, <1>3, <1>5, <2>1, <2>2, TypeAfter, TypeUnfolded
<1>6. CASE attempts[o][i].state = "paid"
  <2>1. RowsKept
    BY <1>2, <1>6, RowsUnchanged
  <2>2. req' \in [Handlers -> Request] /\ RowsInHand'
    BY <1>2, <1>6, <2>1, HandlersStay
  <2> QED BY <1>2, <1>3, <1>6, <2>1, <2>2, TypeAfter, TypeUnfolded
<1>7. CASE attempts[o][i].state \notin {"pending", "paid"}
  <2>1. RowsKept
    BY <1>1, <1>2, <1>4, <1>7, DisputeType, UpdateKeepsRows, TypeUnfolded
  <2>2. req' \in [Handlers -> Request] /\ RowsInHand'
    BY <1>2, <1>7, <2>1, HandlersStay
  <2> QED BY <1>2, <1>3, <1>7, <2>1, <2>2, TypeAfter, TypeUnfolded
<1> QED BY <1>5, <1>6, <1>7

LEMMA EnvironmentType ==
    ASSUME TypeInv
    PROVE  /\ \A h \in Handlers : Abort(h) => TypeInv'
           /\ \A p \in Payment : UserPays(p) => TypeInv'
           /\ \A u \in Users : OpenAccount(u) => TypeInv'
<1>1. ASSUME NEW h \in Handlers, Abort(h) PROVE TypeInv'
  <2>1. RowsKept
    BY <1>1, RowsUnchanged DEF Abort, storeVars
  <2>2. req' \in [Handlers -> Request] /\ RowsInHand'
    BY <1>1, <2>1, HandlerReturns DEF Abort
  <2> QED BY <1>1, <2>1, <2>2, TypeAfter, TypeUnfolded DEF Abort, storeVars, channelVars
<1>2. ASSUME NEW p \in Payment, UserPays(p) PROVE TypeInv'
  <2>1. RowsKept
    BY <1>2, RowsUnchanged DEF UserPays, storeVars
  <2>2. req' \in [Handlers -> Request] /\ RowsInHand'
    BY <1>2, <2>1, HandlersStay DEF UserPays
  <2> QED BY <1>2, <2>1, <2>2, TypeAfter, TypeUnfolded DEF UserPays, storeVars
<1>3. ASSUME NEW u \in Users, OpenAccount(u) PROVE TypeInv'
  <2>1. RowsKept
    BY <1>3, RowsUnchanged DEF OpenAccount
  <2>2. req' \in [Handlers -> Request] /\ RowsInHand'
    BY <1>3, <2>1, HandlersStay DEF OpenAccount
  <2>3. available' \in [Users -> Nat]
    BY <1>3, TypeUnfolded, OpeningBalanceAssumption DEF OpenAccount
  <2> QED BY <1>3, <2>1, <2>2, <2>3, TypeAfter, TypeUnfolded DEF OpenAccount, channelVars
<1> QED BY <1>1, <1>2, <1>3

LEMMA StutterType == ASSUME TypeInv, UNCHANGED checkoutVars PROVE TypeInv'
<1>1. RowsKept
  BY RowsUnchanged DEF checkoutVars, storeVars
<1>2. req' \in [Handlers -> Request] /\ RowsInHand'
  BY <1>1, HandlersStay DEF checkoutVars
<1> QED BY <1>1, <1>2, TypeAfter, TypeUnfolded DEF checkoutVars, storeVars, channelVars

LEMMA StepType == TypeInv /\ [CheckoutNext]_checkoutVars => TypeInv'
<1> SUFFICES ASSUME TypeInv, [CheckoutNext]_checkoutVars PROVE TypeInv'
  OBVIOUS
<1> QED BY LoadType, StatementType, LoadForCallbackType, EnvironmentType, StutterType DEF CheckoutNext

\* Whatever the numbers of orders, users, channels and concurrent handlers, the tables
\* keep their types, and a handler never carries the number of a row that is not there.
THEOREM TypeCorrect == CheckoutSpec => [](CheckoutTypeOK /\ RowsInHand)
<1>1. CheckoutInit => TypeInv
  BY InitType
<1>2. TypeInv /\ [CheckoutNext]_checkoutVars => TypeInv'
  BY StepType
<1> QED BY <1>1, <1>2, PTL DEF CheckoutSpec, TypeInv


-----------------------------------------------------------------------------
(* The ways a step changes payment_attempts *)

\* Rows leave the state they are in, but none is paid, opened or moved.
Closes(rows, new) ==
    /\ DOMAIN new = DOMAIN rows
    /\ \A i \in DOMAIN rows :
          \/ new[i] = rows[i]
          \/ /\ rows[i].state # "paid"
             /\ new[i].state \notin {"paid", "pending"}
             /\ new[i].channel = rows[i].channel
             /\ new[i].txn = rows[i].txn

\* The price of o is taken out of the balance of its owner, who can afford it.
Deducts(o) ==
    /\ Owner[o] \in accounts /\ available[Owner[o]] >= Amount[o]
    /\ available' = [available EXCEPT ![Owner[o]] = @ - Amount[o]]

\* One row is added: an open one if there was none, or a paid one of no channel.
Adds(o, new) ==
    \E row \in Attempt :
        /\ new = Append(attempts[o], row)
        /\ TxnFree(o, Len(attempts[o]) + 1, row.channel, row.txn)
        /\ \/ row.state = "pending" /\ row.txn = NoTxn /\ PendingFree(o)
           \/ row.state = "paid" /\ row.channel \notin Channels
        /\ row.state = "paid" /\ row.channel = "balance" => Deducts(o)

\* An open row is paid by a reported payment that paid no other row.
Books(o, new) ==
    \E i \in DOMAIN attempts[o], p \in Payment :
        /\ attempts[o][i].state = "pending"
        /\ p \in ReportedBy(o, attempts[o][i].channel)
        /\ TxnFree(o, i, attempts[o][i].channel, p)
        /\ new = [attempts[o] EXCEPT ![i] = [@ EXCEPT !.state = "paid", !.txn = p]]

\* The number of the session that is opened next.
NextNumber(o, ch) == SessionNumber(o, ch, links[<<o, ch>>] + 1)

\* The number of a session is recorded, whatever the row has become.
Renumbers(o, new) ==
    \E i \in DOMAIN attempts[o] :
        LET ch == attempts[o][i].channel
        IN  /\ ch \in Numbered
            /\ links'[<<o, ch>>] = links[<<o, ch>>] + 1
            /\ DOMAIN new = DOMAIN attempts[o]
            /\ \A j \in DOMAIN attempts[o] : j # i => new[j] = attempts[o][j]
            /\ new[i] = [attempts[o][i] EXCEPT !.txn = NextNumber(o, ch)]

ChangesRows(o, new) ==
    Closes(attempts[o], new) \/ Adds(o, new) \/ Books(o, new) \/ Renumbers(o, new)

RowStep ==
    \/ UNCHANGED attempts
    \/ \E o \in Orders : \E new \in Seq(Attempt) :
          attempts' = [attempts EXCEPT ![o] = new] /\ ChangesRows(o, new)

\* What channels report and hand out grows.
ReportsKept ==
    /\ reported \subseteq reported'
    /\ \A oc \in Orders \X Channels : links[oc] <= links'[oc]

-----------------------------------------------------------------------------
(* A callback that is about to be booked pays the row it was loaded for, and a   *)
(* session number is recorded on the row it was opened for; a sale without a     *)
(* channel is free or confirmed by an administrator.                             *)

FitsItsRow(r) ==
    /\ r.pc \in {"createLink", "recordLink", "settleCallback"} =>
          r.channel = attempts[r.order][r.row].channel
    /\ r.pc = "settleCallback" => r.txn \in ReportedBy(r.order, r.channel)

NamesItsSource(r) ==
    /\ r.pc = "settleFree" => Amount[r.order] = 0
    /\ r.pc \in {"closeForOffline", "settleOffline"} =>
          r.channel = IF Amount[r.order] = 0 THEN "free" ELSE "offline"

InHand == \A h \in Handlers : FitsItsRow(req[h]) /\ NamesItsSource(req[h])

-----------------------------------------------------------------------------
(* Every step is a RowStep *)

LEMMA ClosePendingCloses ==
    ASSUME NEW rows \in Seq(Attempt)
    PROVE  ClosePending(rows) \in Seq(Attempt) /\ Closes(rows, ClosePending(rows))
<1>1. \A i \in DOMAIN rows : rows[i] \in Attempt
  OBVIOUS
<1>2. \A i \in DOMAIN rows :
         LET r == [rows[i] EXCEPT !.state = "closed"]
         IN  r.state = "closed" /\ r.channel = rows[i].channel /\ r.txn = rows[i].txn
  BY <1>1 DEF Attempt
<1> QED BY <1>2, ClosePendingType DEF Closes

LEMMA CloseRowCloses ==
    ASSUME NEW rows \in Seq(Attempt), NEW i \in DOMAIN rows
    PROVE  CloseRow(rows, i) \in Seq(Attempt) /\ Closes(rows, CloseRow(rows, i))
<1>1. CloseRow(rows, i) \in Seq(Attempt) /\ DOMAIN CloseRow(rows, i) = DOMAIN rows
  BY CloseRowType
<1>2. LET r == [rows[i] EXCEPT !.state = "closed"]
      IN  r.state = "closed" /\ r.channel = rows[i].channel /\ r.txn = rows[i].txn
  <2>1. rows[i] \in Attempt
    OBVIOUS
  <2> QED BY <2>1 DEF Attempt
<1>3. \A j \in DOMAIN rows : j # i => CloseRow(rows, i)[j] = rows[j]
  BY DEF CloseRow
<1>4. rows[i].state = "pending" => CloseRow(rows, i)[i] = [rows[i] EXCEPT !.state = "closed"]
  BY DEF CloseRow
<1>5. rows[i].state # "pending" => CloseRow(rows, i)[i] = rows[i]
  BY DEF CloseRow
<1> QED BY <1>1, <1>2, <1>3, <1>4, <1>5 DEF Closes

LEMMA DisputeCloses ==
    ASSUME NEW rows \in Seq(Attempt), NEW i \in DOMAIN rows, rows[i].state \notin {"pending", "paid"}
    PROVE  /\ [rows EXCEPT ![i].disputed = TRUE] \in Seq(Attempt)
           /\ Closes(rows, [rows EXCEPT ![i].disputed = TRUE])
<1> DEFINE new == [rows EXCEPT ![i].disputed = TRUE]
<1>1. new \in Seq(Attempt) /\ DOMAIN new = DOMAIN rows
  BY DisputeType
<1>2. rows[i] \in Attempt
  OBVIOUS
<1>3. new[i].state = rows[i].state /\ new[i].channel = rows[i].channel /\ new[i].txn = rows[i].txn
  BY <1>2 DEF Attempt
<1>4. \A j \in DOMAIN rows : j # i => new[j] = rows[j]
  OBVIOUS
<1> QED BY <1>1, <1>3, <1>4 DEF Closes

\* A row that is added already paid: by the balance, by hand, or free of charge.
LEMMA PaidRowAdds ==
    ASSUME TypeInv, NEW o \in Orders, NEW ch \in {"free", "balance", "offline"},
           NEW txn \in TxnNo, TxnFree(o, Len(attempts[o]) + 1, ch, txn),
           ch = "balance" => Deducts(o),
           attempts' = [attempts EXCEPT ![o] = Append(@, NewAttempt(ch, "paid", txn))]
    PROVE  RowStep
<1>1. NewAttempt(ch, "paid", txn) \in Attempt
  BY AttemptNew DEF AttemptState, AllChannels
<1>2. PICK row \in Attempt : row = NewAttempt(ch, "paid", txn)
  BY <1>1
<1>3. row.channel = ch /\ row.state = "paid" /\ row.txn = txn
  BY <1>2 DEF NewAttempt
<1>4. Adds(o, Append(attempts[o], row))
  BY <1>3, ChannelAssumption DEF Adds
<1>5. Append(attempts[o], row) \in Seq(Attempt)
  BY TypeUnfolded
<1> QED BY <1>2, <1>4, <1>5 DEF RowStep, ChangesRows

\* A step that closes open rows of o.
LEMMA CloseStep ==
    ASSUME TypeInv, NEW o \in Orders,
           attempts' = [attempts EXCEPT ![o] = ClosePending(@)]
    PROVE  RowStep
BY ClosePendingCloses, TypeUnfolded DEF RowStep, ChangesRows

LEMMA SettleRows ==
    ASSUME TypeInv, NEW h \in Handlers, NEW o \in Orders, NEW ch \in {"free", "offline"},
           NEW txn \in TxnNo, SettleCertOrderPaid(h, o, ch, txn)
    PROVE  RowStep
BY PaidRowAdds DEF SettleCertOrderPaid, RowStep

LEMMA StatementRows ==
    ASSUME TypeInv, InHand, NEW h \in Handlers, NEW o \in Orders, Statement(h, o)
    PROVE  RowStep
<1>1. CASE SettleFree(h, o)
  BY <1>1, SettleRows, NoTxnIsTxnNo DEF SettleFree
<1>2. CASE PayCertOrderWithBalance(h, o)
  BY <1>2, PaidRowAdds, NoTxnIsTxnNo
     DEF PayCertOrderWithBalance, TxnFree, RowStep, storeVars, Deducts
<1>3. CASE CloseOld(h, o)
  BY <1>3, CloseStep DEF CloseOld
<1>4. CASE InsertAttempt(h, o)
  <2>1. CASE PendingFree(o)
    <3>1. NewAttempt(req[h].channel, "pending", NoTxn) \in Attempt
      BY AttemptNew, TypeUnfolded, NoTxnIsTxnNo DEF AttemptState, Request
    <3>2. PICK row \in Attempt : row = NewAttempt(req[h].channel, "pending", NoTxn)
      BY <3>1
    <3>3. row.state = "pending" /\ row.txn = NoTxn
      BY <3>2 DEF NewAttempt
    <3>4. Adds(o, Append(attempts[o], row))
      BY <2>1, <3>3 DEF Adds, TxnFree
    <3>5. Append(attempts[o], row) \in Seq(Attempt)
      BY TypeUnfolded
    <3> QED BY <1>4, <2>1, <3>2, <3>4, <3>5 DEF RowStep, ChangesRows, InsertAttempt
  <2>2. CASE ~PendingFree(o)
    BY <1>4, <2>2 DEF InsertAttempt, RowStep
  <2> QED BY <2>1, <2>2
<1>5. CASE CreateLink(h, o)
  BY <1>5 DEF CreateLink, storeVars, RowStep
<1>6. CASE CreateLinkFails(h, o)
  BY <1>6 DEF CreateLinkFails, storeVars, RowStep
<1>7. CASE CloseFailed(h, o)
  <2>1. req[h].row \in DOMAIN attempts[o]
    BY <1>7, TypeUnfolded DEF CloseFailed, At, RowInHand
  <2> QED BY <1>7, <2>1, CloseRowCloses, TypeUnfolded DEF CloseFailed, RowStep, ChangesRows
<1>8. CASE CloseForOffline(h, o)
  BY <1>8, CloseStep DEF CloseForOffline
<1>9. CASE SettleOffline(h, o)
  <2>1. req[h].channel \in {"free", "offline"} /\ req[h].txn \in TxnNo
    BY <1>9, TypeUnfolded DEF SettleOffline, At, InHand, NamesItsSource, Request
  <2> QED BY <1>9, <2>1, SettleRows DEF SettleOffline
<1>10. CASE CancelStatus(h, o)
  BY <1>10 DEF CancelStatus, RowStep
<1>11. CASE CloseCancelled(h, o)
  BY <1>11, CloseStep DEF CloseCancelled
<1>12. CASE SettleCallback(h, o)
  <2> DEFINE i == req[h].row
             p == req[h].txn
  <2>1. /\ i \in DOMAIN attempts[o]
        /\ p \in Payment
        /\ req[h].channel = attempts[o][i].channel
        /\ p \in ReportedBy(o, attempts[o][i].channel)
    BY <1>12, TypeUnfolded DEF SettleCallback, At, RowInHand, InHand, FitsItsRow
  <2>2. \/ UNCHANGED attempts
        \/ /\ attempts' = [attempts EXCEPT ![o] = MarkPaid(@, i, p)]
           /\ attempts[o][i].state # "pending" \/ TxnFree(o, i, req[h].channel, p)
    BY <1>12 DEF SettleCallback
  <2>3. attempts \in [Orders -> Seq(Attempt)]
    BY TypeUnfolded
  <2> HIDE DEF i, p
  <2>4. CASE UNCHANGED attempts
    BY <2>4 DEF RowStep, ChangesRows
  <2>5. CASE attempts' = [attempts EXCEPT ![o] = MarkPaid(@, i, p)] /\ attempts[o][i].state # "pending"
    <3>1. MarkPaid(attempts[o], i, p) = attempts[o]
      BY <2>5 DEF MarkPaid
    <3> QED BY <2>3, <2>5, <3>1 DEF RowStep, ChangesRows
  <2>6. CASE /\ attempts' = [attempts EXCEPT ![o] = MarkPaid(@, i, p)]
             /\ attempts[o][i].state = "pending" /\ TxnFree(o, i, req[h].channel, p)
    <3>1. PICK new \in Seq(Attempt) : new = MarkPaid(attempts[o], i, p)
      BY <2>1, <2>3, MarkPaidType
    <3>2. new = [attempts[o] EXCEPT ![i] = [@ EXCEPT !.state = "paid", !.txn = p]]
      BY <2>6, <3>1 DEF MarkPaid
    <3>3. Books(o, new)
      BY <2>1, <2>6, <3>2 DEF Books
    <3> QED BY <2>6, <3>1, <3>3 DEF RowStep, ChangesRows
  <2> QED BY <2>2, <2>4, <2>5, <2>6
<1>13. CASE RecordLink(h, o)
  <2> DEFINE i  == req[h].row
             ch == req[h].channel
             no == NextNumber(o, ch)
  <2>1. /\ i \in DOMAIN attempts[o] /\ ch = attempts[o][i].channel
        /\ ch \in Numbered /\ ch \in Channels
    BY <1>13, NumberedAssumption, TypeUnfolded DEF RecordLink, At, RowInHand, InHand, FitsItsRow
  <2>2. attempts[o] \in Seq(Attempt) /\ no \in TxnNo
    BY <2>1, SessionNumberType, TypeUnfolded DEF NextNumber
  <2>3. links'[<<o, ch>>] = links[<<o, ch>>] + 1
    BY <1>13, <2>1, TypeUnfolded DEF RecordLink, OpenSession
  <2>4. attempts' \in {attempts, [attempts EXCEPT ![o] = SetSessionNo(@, i, no)]}
    BY <1>13 DEF RecordLink, NextNumber
  <2> HIDE DEF i, ch, no
  <2>5. PICK new \in Seq(Attempt) : new = SetSessionNo(attempts[o], i, no)
    BY <2>1, <2>2, SetSessionNoType
  <2>6. /\ DOMAIN new = DOMAIN attempts[o]
        /\ \A j \in DOMAIN attempts[o] : j # i => new[j] = attempts[o][j]
        /\ new[i] = [attempts[o][i] EXCEPT !.txn = no]
    BY <2>1, <2>2, <2>5, SetSessionNoType
  <2>7. Renumbers(o, new)
    BY <2>1, <2>3, <2>6 DEF Renumbers, no
  <2> QED BY <2>4, <2>5, <2>7 DEF RowStep, ChangesRows
<1> QED
  BY <1>1, <1>2, <1>3, <1>4, <1>5, <1>6, <1>7, <1>8, <1>9, <1>10, <1>11, <1>12, <1>13 DEF Statement, Settle

LEMMA LoadForCallbackRows ==
    ASSUME TypeInv, NEW h \in Handlers, NEW p \in Payment, LoadForCallback(h, p)
    PROVE  RowStep
<1>1. p[1] \in Orders
  BY DEF Payment
<1>2. PICK i \in DOMAIN attempts[p[1]] :
          \/ UNCHANGED attempts
          \/ /\ attempts[p[1]][i].state \notin {"pending", "paid"}
             /\ attempts' = [attempts EXCEPT ![p[1]][i].disputed = TRUE]
  BY DEF LoadForCallback
<1>3. CASE UNCHANGED attempts
  BY <1>3 DEF RowStep, ChangesRows
<1>4. CASE /\ attempts[p[1]][i].state \notin {"pending", "paid"}
           /\ attempts' = [attempts EXCEPT ![p[1]][i].disputed = TRUE]
  <2>1. PICK o \in Orders : o = p[1]
    BY <1>1
  <2>2. PICK new \in Seq(Attempt) : new = [attempts[o] EXCEPT ![i].disputed = TRUE] /\ Closes(attempts[o], new)
    BY <1>4, <2>1, DisputeCloses, TypeUnfolded
  <2>3. attempts' = [attempts EXCEPT ![o] = new]
    BY <1>4, <2>1, <2>2
  <2> QED BY <2>2, <2>3 DEF RowStep, ChangesRows
<1> QED BY <1>2, <1>3, <1>4

LEMMA StepRows ==
    ASSUME TypeInv, InHand, [CheckoutNext]_checkoutVars
    PROVE  RowStep
<1>1. ASSUME NEW h \in Handlers, NEW o \in Orders,
             \/ \E ch \in Channels \cup {"balance"} : LoadForPayment(h, o, ch)
             \/ \E ref \in References : LoadForOffline(h, o, ref)
             \/ LoadForCancel(h, o)
      PROVE  RowStep
  BY <1>1 DEF LoadForPayment, LoadForOffline, LoadForCancel, storeVars, RowStep
<1>2. ASSUME NEW h \in Handlers, Abort(h) PROVE RowStep
  BY <1>2 DEF Abort, storeVars, RowStep
<1>3. ASSUME NEW p \in Payment, UserPays(p) PROVE RowStep
  BY <1>3 DEF UserPays, storeVars, RowStep
<1>5. ASSUME NEW u \in Users, OpenAccount(u) PROVE RowStep
  BY <1>5 DEF OpenAccount, RowStep
<1>4. CASE UNCHANGED checkoutVars
  BY <1>4 DEF checkoutVars, storeVars, RowStep
<1> QED BY <1>1, <1>2, <1>3, <1>4, <1>5, StatementRows, LoadForCallbackRows DEF CheckoutNext

-----------------------------------------------------------------------------
(* What a RowStep keeps *)

\* A row keeps its place and its channel, is never opened again, and once paid it
\* stays paid and what is to be kept of it does not change.
RowsEvolve ==
    /\ RowsKept
    /\ \A o \in Orders : \A i \in DOMAIN attempts[o] :
          /\ attempts'[o][i].channel = attempts[o][i].channel
          /\ attempts'[o][i].state = "pending" => attempts[o][i].state = "pending"
          /\ attempts[o][i].state = "paid" =>
                attempts'[o][i].state = "paid" /\ Kept(attempts'[o][i]) = Kept(attempts[o][i])

LEMMA StepEvolves ==
    ASSUME TypeInv, RowStep
    PROVE  RowsEvolve
<1>0. attempts \in [Orders -> Seq(Attempt)]
  BY TypeUnfolded
<1>1. CASE UNCHANGED attempts
  BY <1>0, <1>1 DEF RowsEvolve, RowsKept
<1>2. ASSUME NEW o \in Orders, NEW new \in Seq(Attempt), attempts' = [attempts EXCEPT ![o] = new],
             ChangesRows(o, new)
      PROVE  RowsEvolve
  <2>1. /\ DOMAIN attempts[o] \subseteq DOMAIN new
        /\ \A i \in DOMAIN attempts[o] :
              /\ new[i].channel = attempts[o][i].channel
              /\ new[i].state = "pending" => attempts[o][i].state = "pending"
              /\ attempts[o][i].state = "paid" =>
                    new[i].state = "paid" /\ Kept(new[i]) = Kept(attempts[o][i])
    <3>1. CASE Closes(attempts[o], new)
      BY <3>1 DEF Closes
    <3>2. CASE Adds(o, new)
      BY <1>0, <3>2 DEF Adds
    <3>3. CASE Books(o, new)
      <4>1. PICK i \in DOMAIN attempts[o], p \in Payment :
                /\ attempts[o][i].state = "pending"
                /\ new = [attempts[o] EXCEPT ![i] = [@ EXCEPT !.state = "paid", !.txn = p]]
        BY <3>3 DEF Books
      <4>2. attempts[o][i] \in Attempt
        BY <1>0
      <4>3. [attempts[o][i] EXCEPT !.state = "paid", !.txn = p].channel = attempts[o][i].channel
        BY <4>2 DEF Attempt
      <4>4. [attempts[o][i] EXCEPT !.state = "paid", !.txn = p].state = "paid"
        BY <4>2 DEF Attempt
      <4>5. DOMAIN new = DOMAIN attempts[o] /\ new[i] = [attempts[o][i] EXCEPT !.state = "paid", !.txn = p]
        BY <4>1
      <4>6. \A j \in DOMAIN attempts[o] : j # i => new[j] = attempts[o][j]
        BY <4>1
      <4> QED BY <4>1, <4>3, <4>4, <4>5, <4>6
    <3>4. CASE Renumbers(o, new)
      <4>1. PICK i \in DOMAIN attempts[o] :
                /\ attempts[o][i].channel \in Numbered
                /\ DOMAIN new = DOMAIN attempts[o]
                /\ \A j \in DOMAIN attempts[o] : j # i => new[j] = attempts[o][j]
                /\ new[i] = [attempts[o][i] EXCEPT !.txn = NextNumber(o, attempts[o][i].channel)]
        BY <3>4 DEF Renumbers
      <4>2. attempts[o][i] \in Attempt
        BY <1>0
      <4>3. new[i].channel = attempts[o][i].channel /\ new[i].state = attempts[o][i].state
        BY <4>1, <4>2 DEF Attempt
      <4>4. [new[i] EXCEPT !.txn = NoTxn] = [attempts[o][i] EXCEPT !.txn = NoTxn]
        BY <4>1, <4>2 DEF Attempt
      <4>5. Kept(new[i]) = Kept(attempts[o][i])
        BY <4>1, <4>3, <4>4 DEF Kept
      <4> QED BY <4>1, <4>3, <4>5
    <3> QED BY <1>2, <3>1, <3>2, <3>3, <3>4 DEF ChangesRows
  <2>2. RowsKept
    BY <1>0, <1>2, <2>1, UpdateKeepsRows
  <2>3. attempts'[o] = new /\ \A n \in Orders \ {o} : attempts'[n] = attempts[n]
    BY <1>0, <1>2
  <2> QED BY <2>1, <2>2, <2>3 DEF RowsEvolve
<1> QED BY <1>1, <1>2 DEF RowStep, ChangesRows

LEMMA OnePendingStep ==
    ASSUME TypeInv, RowStep, OnePendingAttempt
    PROVE  OnePendingAttempt'
<1>0. attempts \in [Orders -> Seq(Attempt)]
  BY TypeUnfolded
<1>1. CASE UNCHANGED attempts
  BY <1>1 DEF OnePendingAttempt
<1>2. ASSUME NEW o \in Orders, NEW new \in Seq(Attempt), attempts' = [attempts EXCEPT ![o] = new],
             ChangesRows(o, new)
      PROVE  OnePendingAttempt'
  <2>1. RowsEvolve
    BY <1>2, StepEvolves
  <2>2. attempts'[o] = new /\ \A n \in Orders \ {o} : attempts'[n] = attempts[n]
    BY <1>0, <1>2
  <2>3. ASSUME NEW i \in DOMAIN new, NEW j \in DOMAIN new,
               new[i].state = "pending", new[j].state = "pending"
        PROVE  i = j
    <3>1. CASE Adds(o, new)
      <4>1. PICK row \in Attempt : /\ new = Append(attempts[o], row)
                                   /\ row.state = "pending" => PendingFree(o)
        BY <3>1 DEF Adds
      <4>2. /\ attempts[o] \in Seq(Attempt)
            /\ DOMAIN new = 1 .. Len(attempts[o]) + 1
            /\ new[Len(attempts[o]) + 1] = row
            /\ \A k \in DOMAIN attempts[o] : new[k] = attempts[o][k]
            /\ DOMAIN attempts[o] = 1 .. Len(attempts[o])
        BY <1>0, <4>1
      <4>3. CASE row.state = "pending"
        BY <2>3, <4>1, <4>2, <4>3 DEF PendingFree
      <4>4. CASE row.state # "pending"
        <5>1. i \in DOMAIN attempts[o] /\ j \in DOMAIN attempts[o]
          BY <2>3, <4>2, <4>4
        <5> QED BY <2>3, <4>2, <5>1 DEF OnePendingAttempt
      <4> QED BY <4>3, <4>4
    <3>2. CASE Closes(attempts[o], new) \/ Books(o, new) \/ Renumbers(o, new)
      <4>1. DOMAIN new = DOMAIN attempts[o]
        BY <3>2 DEF Closes, Books, Renumbers
      <4> QED BY <2>1, <2>2, <2>3, <4>1 DEF RowsEvolve, OnePendingAttempt
    <3> QED BY <1>2, <3>1, <3>2 DEF ChangesRows
  <2> QED BY <2>2, <2>3 DEF OnePendingAttempt
<1> QED BY <1>1, <1>2 DEF RowStep, ChangesRows

\* The paid row of a payment that a channel reported for order o.
Reports(o, row) ==
    row.state = "paid" /\ row.channel \in Channels =>
        \/ row.txn \in ReportedBy(o, row.channel)
        \/ /\ row.channel \in Numbered /\ ReportedBy(o, row.channel) # {}
           /\ \E n \in 1..links[<<o, row.channel>>] : row.txn = SessionNumber(o, row.channel, n)

LEMMA ReportsUnfolded ==
    PaidRowIsReported <=> \A o \in Orders : \A i \in DOMAIN attempts[o] : Reports(o, attempts[o][i])
BY DEF PaidRowIsReported, PaidRows, Reports

LEMMA ReportedByKept ==
    ASSUME ReportsKept, NEW o, NEW ch
    PROVE  ReportedBy(o, ch) \subseteq ReportedBy(o, ch)'
BY DEF ReportsKept, ReportedBy

LEMMA ReportsStay ==
    ASSUME TypeInv, TypeInv', ReportsKept, NEW o \in Orders, NEW row \in Attempt, Reports(o, row)
    PROVE  Reports(o, row)'
<1>1. CASE row.state = "paid" /\ row.channel \in Channels
  <2>1. ReportedBy(o, row.channel) \subseteq ReportedBy(o, row.channel)'
    BY ReportedByKept
  <2>2. /\ links[<<o, row.channel>>] \in Nat /\ links'[<<o, row.channel>>] \in Nat
        /\ links[<<o, row.channel>>] <= links'[<<o, row.channel>>]
    BY <1>1, TypeUnfolded DEF ReportsKept, TypeInv, CheckoutTypeOK
  <2>3. 1..links[<<o, row.channel>>] \subseteq 1..links'[<<o, row.channel>>]
    BY <2>2
  <2> QED BY <1>1, <2>1, <2>3 DEF Reports
<1>2. CASE ~(row.state = "paid" /\ row.channel \in Channels)
  BY <1>2 DEF Reports
<1> QED BY <1>1, <1>2

Renumbered(o, i, row) ==
    /\ i \in DOMAIN attempts[o]
    /\ row.channel = attempts[o][i].channel /\ row.channel \in Numbered
    /\ row.state = attempts[o][i].state /\ row.txn = NextNumber(o, row.channel)
    /\ links'[<<o, row.channel>>] = links[<<o, row.channel>>] + 1

\* A row after the step: it was there before, or it was closed, added, booked or numbered.
LEMMA RowAfter ==
    ASSUME TypeInv, TypeInv', RowStep,
           NEW o \in Orders, NEW i \in DOMAIN attempts'[o], NEW row, row = attempts'[o][i]
    PROVE  /\ row \in Attempt
           /\ \/ i \in DOMAIN attempts[o] /\ row = attempts[o][i]
              \/ /\ i \in DOMAIN attempts[o]
                 /\ row.state \notin {"paid", "pending"}
                 /\ row.channel = attempts[o][i].channel
                 /\ row.txn = attempts[o][i].txn
              \/ /\ i \notin DOMAIN attempts[o]
                 /\ TxnFree(o, i, row.channel, row.txn)
                 /\ \/ row.channel \notin Channels
                    \/ row.state = "pending" /\ row.txn = NoTxn
              \/ /\ i \in DOMAIN attempts[o]
                 /\ row.state = "paid" /\ row.txn \in ReportedBy(o, row.channel)
                 /\ row.channel = attempts[o][i].channel
                 /\ TxnFree(o, i, row.channel, row.txn)
              \/ Renumbered(o, i, row)
<1>0. /\ attempts \in [Orders -> Seq(Attempt)]
      /\ attempts' \in [Orders -> Seq(Attempt)]
  BY TypeUnfolded DEF TypeInv, CheckoutTypeOK, StoreTypeOK
<1>1. row \in Attempt
  BY <1>0
<1>2. CASE attempts'[o] = attempts[o]
  BY <1>1, <1>2
<1>3. ASSUME attempts'[o] # attempts[o]
      PROVE  \E new \in Seq(Attempt) :
                /\ attempts'[o] = new
                /\ ChangesRows(o, new)
  BY <1>0, <1>3 DEF RowStep, ChangesRows
<1>4. ASSUME NEW new \in Seq(Attempt), attempts'[o] = new, Closes(attempts[o], new)
      PROVE  /\ i \in DOMAIN attempts[o]
             /\ \/ row = attempts[o][i]
                \/ /\ row.state \notin {"paid", "pending"}
                   /\ row.channel = attempts[o][i].channel
                   /\ row.txn = attempts[o][i].txn
  BY <1>4 DEF Closes
<1>5. ASSUME NEW new \in Seq(Attempt), attempts'[o] = new, Adds(o, new)
      PROVE  \/ i \in DOMAIN attempts[o] /\ row = attempts[o][i]
             \/ /\ i \notin DOMAIN attempts[o]
                /\ TxnFree(o, i, row.channel, row.txn)
                /\ \/ row.channel \notin Channels
                   \/ row.state = "pending" /\ row.txn = NoTxn
  <2>1. PICK r \in Attempt : /\ new = Append(attempts[o], r)
                             /\ TxnFree(o, Len(attempts[o]) + 1, r.channel, r.txn)
                             /\ \/ r.channel \notin Channels
                                \/ r.state = "pending" /\ r.txn = NoTxn
    BY <1>5 DEF Adds
  <2>2. /\ attempts[o] \in Seq(Attempt)
        /\ DOMAIN attempts[o] = 1 .. Len(attempts[o])
        /\ DOMAIN new = 1 .. Len(attempts[o]) + 1
        /\ new[Len(attempts[o]) + 1] = r
        /\ \A k \in DOMAIN attempts[o] : new[k] = attempts[o][k]
    BY <1>0, <2>1
  <2>3. CASE i \in DOMAIN attempts[o]
    BY <1>5, <2>2, <2>3
  <2>4. CASE i \notin DOMAIN attempts[o]
    <3>1. i = Len(attempts[o]) + 1
      BY <1>5, <2>2, <2>4
    <3>2. row = r
      BY <1>5, <2>2, <3>1
    <3> QED BY <2>1, <2>4, <3>1, <3>2
  <2> QED BY <2>3, <2>4
<1>6. ASSUME NEW new \in Seq(Attempt), attempts'[o] = new, Books(o, new)
      PROVE  /\ i \in DOMAIN attempts[o]
             /\ \/ row = attempts[o][i]
                \/ /\ row.state = "paid" /\ row.txn \in ReportedBy(o, row.channel)
                   /\ row.channel = attempts[o][i].channel
                   /\ TxnFree(o, i, row.channel, row.txn)
  <2>1. PICK k \in DOMAIN attempts[o], p \in Payment :
           /\ p \in ReportedBy(o, attempts[o][k].channel)
           /\ TxnFree(o, k, attempts[o][k].channel, p)
           /\ new = [attempts[o] EXCEPT ![k] = [@ EXCEPT !.state = "paid", !.txn = p]]
    BY <1>6 DEF Books
  <2>2. attempts[o][k] \in Attempt
    BY <1>0
  <2>3. i \in DOMAIN attempts[o]
    BY <1>6, <2>1
  <2>4. CASE i # k
    BY <1>6, <2>1, <2>3, <2>4
  <2>5. CASE i = k
    <3>1. row = [attempts[o][k] EXCEPT !.state = "paid", !.txn = p]
      BY <1>6, <2>1, <2>5
    <3>2. row.state = "paid" /\ row.txn = p /\ row.channel = attempts[o][k].channel
      BY <2>2, <3>1 DEF Attempt
    <3> QED BY <2>1, <2>3, <2>5, <3>2
  <2> QED BY <2>4, <2>5
<1>7. ASSUME NEW new \in Seq(Attempt), attempts'[o] = new, Renumbers(o, new)
      PROVE  (i \in DOMAIN attempts[o] /\ row = attempts[o][i]) \/ Renumbered(o, i, row)
  <2>1. PICK k \in DOMAIN attempts[o] :
           /\ attempts[o][k].channel \in Numbered
           /\ links'[<<o, attempts[o][k].channel>>] = links[<<o, attempts[o][k].channel>>] + 1
           /\ DOMAIN new = DOMAIN attempts[o]
           /\ \A j \in DOMAIN attempts[o] : j # k => new[j] = attempts[o][j]
           /\ new[k] = [attempts[o][k] EXCEPT !.txn = NextNumber(o, attempts[o][k].channel)]
    BY <1>7 DEF Renumbers
  <2>2. i \in DOMAIN attempts[o]
    BY <1>7, <2>1
  <2>3. CASE i # k
    BY <1>7, <2>1, <2>2, <2>3
  <2>4. CASE i = k
    <3>1. /\ row = [attempts[o][k] EXCEPT !.txn = NextNumber(o, attempts[o][k].channel)]
          /\ attempts[o][k] \in Attempt
      BY <1>0, <1>7, <2>1, <2>4
    <3>2. /\ row.channel = attempts[o][k].channel /\ row.state = attempts[o][k].state
          /\ row.txn = NextNumber(o, attempts[o][k].channel)
      BY <3>1 DEF Attempt
    <3> QED BY <2>1, <2>2, <2>4, <3>2 DEF Renumbered
  <2> QED BY <2>3, <2>4
<1> QED BY <1>1, <1>2, <1>3, <1>4, <1>5, <1>6, <1>7 DEF ChangesRows

LEMMA PaidRowIsReportedStep ==
    ASSUME TypeInv, TypeInv', RowStep, ReportsKept, PaidRowIsReported
    PROVE  PaidRowIsReported'
<1> SUFFICES ASSUME NEW o \in Orders, NEW i \in DOMAIN attempts'[o], NEW row, row = attempts'[o][i]
             PROVE  Reports(o, row)'
  BY DEF PaidRowIsReported, PaidRows, Reports
<1>1. row \in Attempt
  BY RowAfter
<1>2. i \in DOMAIN attempts[o] => Reports(o, attempts[o][i])
  BY ReportsUnfolded
<1>3. CASE Renumbered(o, i, row)
  <2>1. CASE row.state = "paid"
    <3>1. row.channel \in Channels /\ ReportedBy(o, row.channel) # {}
      BY <1>2, <1>3, <2>1, NumberedAssumption DEF Reports, Renumbered
    <3>2. ReportedBy(o, row.channel)' # {}
      BY <3>1, ReportedByKept
    <3>3. links[<<o, row.channel>>] + 1 \in 1..links'[<<o, row.channel>>]
      BY <1>3, <3>1, TypeUnfolded DEF Renumbered
    <3>4. \E n \in 1..links'[<<o, row.channel>>] : row.txn = SessionNumber(o, row.channel, n)
      BY <1>3, <3>3 DEF Renumbered, NextNumber
    <3> QED BY <1>3, <3>2, <3>4 DEF Reports, Renumbered
  <2>2. CASE row.state # "paid"
    BY <2>2 DEF Reports
  <2> QED BY <2>1, <2>2
<1>4. CASE ~Renumbered(o, i, row)
  <2>1. Reports(o, row)
    BY <1>2, <1>4, RowAfter DEF Reports
  <2> QED BY <1>1, <2>1, ReportsStay
<1> QED BY <1>3, <1>4

\* A number on the row of a channel has been given to a session, or is that of a payment,
\* and no session is paid before it is opened.
Issued(row) ==
    row.channel \in Channels /\ row.txn \notin {NoTxn, SessionNo} =>
        /\ row.txn \in Orders \X Channels \X Nat
        /\ row.txn[3] <= links[<<row.txn[1], row.txn[2]>>]

NumbersIssued ==
    /\ \A p \in reported : p[3] <= links[<<p[1], p[2]>>]
    /\ \A o \in Orders : \A i \in DOMAIN attempts[o] : Issued(attempts[o][i])

LEMMA IssuedStays ==
    ASSUME TypeInv, TypeInv', ReportsKept, NEW row, Issued(row)
    PROVE  Issued(row)'
<1> SUFFICES ASSUME row.channel \in Channels, row.txn \notin {NoTxn, SessionNo}
             PROVE  /\ row.txn \in Orders \X Channels \X Nat
                    /\ row.txn[3] <= links'[<<row.txn[1], row.txn[2]>>]
  BY DEF Issued
<1>1. row.txn \in Orders \X Channels \X Nat /\ row.txn[3] <= links[<<row.txn[1], row.txn[2]>>]
  BY DEF Issued
<1>2. PICK oc \in Orders \X Channels : oc = <<row.txn[1], row.txn[2]>>
  BY <1>1
<1>3. links[oc] \in Nat /\ links'[oc] \in Nat /\ links[oc] <= links'[oc] /\ row.txn[3] \in Nat
  BY <1>1, TypeUnfolded DEF ReportsKept, TypeInv, CheckoutTypeOK
<1> QED BY <1>1, <1>2, <1>3

LEMMA NumbersIssuedStep ==
    ASSUME TypeInv, TypeInv', RowStep, ReportsKept, NumbersIssued,
           \A p \in reported' : p \in reported \/ p[3] <= links[<<p[1], p[2]>>]
    PROVE  NumbersIssued'
<1>1. ASSUME NEW p \in reported' PROVE p[3] <= links'[<<p[1], p[2]>>]
  <2>1. p \in Payment /\ p[3] <= links[<<p[1], p[2]>>]
    BY <1>1 DEF NumbersIssued, TypeInv, CheckoutTypeOK
  <2>2. PICK oc \in Orders \X Channels : oc = <<p[1], p[2]>>
    BY <2>1 DEF Payment
  <2>3. links[oc] \in Nat /\ links'[oc] \in Nat /\ links[oc] <= links'[oc] /\ p[3] \in Int
    BY <2>1, TypeUnfolded, MaxPaysAssumption DEF ReportsKept, TypeInv, CheckoutTypeOK, Payment
  <2> QED BY <2>1, <2>2, <2>3
<1>2. ASSUME NEW o \in Orders, NEW i \in DOMAIN attempts'[o], NEW row, row = attempts'[o][i]
      PROVE  Issued(row)'
  <2>1. i \in DOMAIN attempts[o] => Issued(attempts[o][i])
    BY DEF NumbersIssued
  <2>2. CASE Renumbered(o, i, row)
    <3>1. /\ row.channel \in Channels
          /\ row.txn = SessionNumber(o, row.channel, links[<<o, row.channel>>] + 1)
          /\ links'[<<o, row.channel>>] = links[<<o, row.channel>>] + 1
          /\ links[<<o, row.channel>>] \in Nat
      BY <2>2, NumberedAssumption, TypeUnfolded DEF Renumbered, NextNumber
    <3>2. CASE row.channel \in Approving
      <4>1. row.txn = <<o, row.channel, links[<<o, row.channel>>] + 1>>
        BY <3>1, <3>2 DEF SessionNumber
      <4>2. /\ row.txn \in Orders \X Channels \X Nat
            /\ row.txn[1] = o /\ row.txn[2] = row.channel
            /\ row.txn[3] = links'[<<o, row.channel>>]
        <5>1. PICK n \in Nat : n = links[<<o, row.channel>>] + 1
          BY <3>1
        <5>2. row.txn = <<o, row.channel, n>> /\ links'[<<o, row.channel>>] = n
          BY <3>1, <4>1, <5>1
        <5>3. PICK ch \in Channels : ch = row.channel
          BY <3>1
        <5>4. <<o, ch, n>> \in Orders \X Channels \X Nat
          OBVIOUS
        <5> QED BY <5>2, <5>3, <5>4
      <4>3. links'[<<row.txn[1], row.txn[2]>>] = row.txn[3] /\ row.txn[3] \in Nat
        BY <3>1, <4>1, <4>2
      <4>4. row.txn[3] <= links'[<<row.txn[1], row.txn[2]>>]
        BY <4>3
      <4> QED BY <4>2, <4>4 DEF Issued
    <3>3. CASE row.channel \notin Approving
      <4>1. row.txn = SessionNo
        BY <3>1, <3>3 DEF SessionNumber
      <4> QED BY <4>1 DEF Issued
    <3> QED BY <3>2, <3>3
  <2>3. CASE row.txn \in ReportedBy(o, row.channel)
    <3>1. row.txn \in Payment /\ row.txn[3] <= links[<<row.txn[1], row.txn[2]>>]
      BY <2>3, TypeUnfolded DEF ReportedBy, NumbersIssued
    <3>2. row.txn \in Orders \X Channels \X Nat
      BY <3>1, MaxPaysAssumption DEF Payment
    <3>3. Issued(row)
      BY <3>1, <3>2 DEF Issued
    <3> QED BY <3>3, IssuedStays
  <2>4. CASE /\ i \in DOMAIN attempts[o]
             /\ row.channel = attempts[o][i].channel /\ row.txn = attempts[o][i].txn
    <3>1. Issued(row)
      BY <2>1, <2>4 DEF Issued
    <3> QED BY <3>1, IssuedStays
  <2>5. CASE row.channel \notin Channels \/ row.txn = NoTxn
    BY <2>5 DEF Issued
  <2> QED BY <1>2, <2>2, <2>3, <2>4, <2>5, RowAfter
<1> QED BY <1>1, <1>2 DEF NumbersIssued

\* Where a row of the next state has the number and the identity of an earlier one.
Known(o, i, row) ==
    /\ i \in DOMAIN attempts[o]
    /\ row.txn = attempts[o][i].txn
    /\ row.channel = attempts[o][i].channel

LEMMA OneRowChanges ==
    ASSUME TypeInv, RowStep,
           NEW o \in Orders, NEW i \in DOMAIN attempts'[o], ~Known(o, i, attempts'[o][i]),
           NEW n \in Orders, NEW j \in DOMAIN attempts'[n], ~Known(n, j, attempts'[n][j])
    PROVE  o = n /\ i = j
<1>0. attempts \in [Orders -> Seq(Attempt)]
  BY TypeUnfolded
<1>1. \A m \in Orders : attempts'[m] # attempts[m] =>
          \E new \in Seq(Attempt) :
             /\ attempts' = [attempts EXCEPT ![m] = new]
             /\ ChangesRows(m, new)
  BY <1>0 DEF RowStep, ChangesRows
<1>2. attempts'[o] # attempts[o] /\ attempts'[n] # attempts[n]
  BY DEF Known
<1>3. PICK new \in Seq(Attempt) :
             /\ attempts' = [attempts EXCEPT ![o] = new]
             /\ ChangesRows(o, new)
  BY <1>1, <1>2
<1>4. o = n /\ attempts'[o] = new
  BY <1>0, <1>2, <1>3
<1>5. CASE Closes(attempts[o], new)
  BY <1>4, <1>5 DEF Closes, Known
<1>6. CASE Adds(o, new)
  <2>1. \A k \in DOMAIN new : k # Len(attempts[o]) + 1 => Known(o, k, new[k])
    BY <1>0, <1>6 DEF Adds, Known
  <2> QED BY <1>4, <2>1
<1>7. CASE Books(o, new)
  <2>1. PICK k \in DOMAIN attempts[o] :
            /\ DOMAIN new = DOMAIN attempts[o]
            /\ \A m \in DOMAIN attempts[o] : m # k => new[m] = attempts[o][m]
    BY <1>7 DEF Books
  <2> QED BY <1>4, <2>1 DEF Known
<1>8. CASE Renumbers(o, new)
  <2>1. PICK k \in DOMAIN attempts[o] :
            /\ DOMAIN new = DOMAIN attempts[o]
            /\ \A m \in DOMAIN attempts[o] : m # k => new[m] = attempts[o][m]
    BY <1>8 DEF Renumbers
  <2> QED BY <1>4, <2>1 DEF Known
<1> QED BY <1>3, <1>5, <1>6, <1>7, <1>8 DEF ChangesRows

\* No row has the number of the next session yet.
LEMMA NextNumberFree ==
    ASSUME TypeInv, NumbersIssued, NEW o \in Orders, NEW i, NEW row, Renumbered(o, i, row),
           row.txn \notin {NoTxn, SessionNo}
    PROVE  TxnFree(o, i, row.channel, row.txn)
<1>1. /\ row.channel \in Channels /\ links[<<o, row.channel>>] \in Nat
      /\ row.txn = <<o, row.channel, links[<<o, row.channel>>] + 1>>
  BY NumberedAssumption, TypeUnfolded DEF Renumbered, NextNumber, SessionNumber
<1>2. ASSUME NEW n \in Orders, NEW j \in DOMAIN attempts[n],
             attempts[n][j].channel = row.channel, attempts[n][j].txn = row.txn
      PROVE  FALSE
  <2>1. row.txn[3] <= links[<<row.txn[1], row.txn[2]>>]
    BY <1>1, <1>2 DEF NumbersIssued, Issued
  <2>2. row.txn[1] = o /\ row.txn[2] = row.channel /\ row.txn[3] = links[<<o, row.channel>>] + 1
    BY <1>1
  <2> QED BY <1>1, <2>1, <2>2
<1> QED BY <1>2 DEF TxnFree

LEMMA TradeBookedOnceStep ==
    ASSUME TypeInv, TypeInv', RowStep, NumbersIssued, TradeBookedOnce
    PROVE  TradeBookedOnce'
<1> SUFFICES ASSUME NEW o \in Orders, NEW n \in Orders,
                    NEW i \in DOMAIN attempts'[o], NEW j \in DOMAIN attempts'[n],
                    NEW row, row = attempts'[o][i], NEW other, other = attempts'[n][j],
                    row.txn \notin {NoTxn, SessionNo},
                    row.txn = other.txn, row.channel = other.channel
             PROVE  o = n /\ i = j
  BY DEF TradeBookedOnce
<1>1. /\ Known(o, i, row) \/ TxnFree(o, i, row.channel, row.txn)
      /\ Known(n, j, other) \/ TxnFree(n, j, other.channel, other.txn)
  BY RowAfter, NextNumberFree DEF Known
<1>2. CASE Known(o, i, row) /\ Known(n, j, other)
  <2>1. /\ i \in DOMAIN attempts[o] /\ j \in DOMAIN attempts[n]
        /\ attempts[o][i].txn \notin {NoTxn, SessionNo}
        /\ attempts[o][i].txn = attempts[n][j].txn
        /\ attempts[o][i].channel = attempts[n][j].channel
    BY <1>2 DEF Known
  <2> QED BY <2>1 DEF TradeBookedOnce
<1>3. /\ Known(o, i, row) /\ TxnFree(n, j, other.channel, other.txn) => o = n /\ i = j
      /\ TxnFree(o, i, row.channel, row.txn) /\ Known(n, j, other) => o = n /\ i = j
  BY DEF TxnFree, Known
<1>4. CASE ~Known(o, i, row) /\ ~Known(n, j, other)
  BY <1>4, OneRowChanges
<1> QED BY <1>1, <1>2, <1>3, <1>4

-----------------------------------------------------------------------------
(* What handlers carry stays true until they use it *)

LEMMA ReportsStep ==
    ASSUME TypeInv, [CheckoutNext]_checkoutVars
    PROVE  /\ ReportsKept
           /\ \A p \in reported' : p \in reported \/ p[3] <= links[<<p[1], p[2]>>]
<1>0. links \in [Orders \X Channels -> Nat] /\ \A oc \in Orders \X Channels : links[oc] \in Nat
  BY TypeUnfolded
<1>1. /\ reported \subseteq reported'
      /\ \A p \in reported' : p \in reported \/ p[3] <= links[<<p[1], p[2]>>]
  <2>1. ASSUME NEW p \in Payment, UserPays(p)
        PROVE  reported' = reported \cup {p} /\ p[3] <= links[<<p[1], p[2]>>]
    BY <2>1 DEF UserPays
  <2>2. ASSUME NEW h \in Handlers, NEW o \in Orders, Statement(h, o) PROVE UNCHANGED reported
    BY <2>2 DEF Statement, Settle, SettleFree, PayCertOrderWithBalance, CloseOld, InsertAttempt, CreateLink, RecordLink,
                CreateLinkFails, CloseFailed, CloseForOffline, SettleOffline, CancelStatus,
                CloseCancelled, SettleCallback, SettleCertOrderPaid, channelVars
  <2>3. UNCHANGED reported \/ \E p \in Payment : UserPays(p)
    BY <2>2 DEF CheckoutNext, LoadForPayment, LoadForOffline, LoadForCancel, LoadForCallback,
                Abort, OpenAccount, checkoutVars, channelVars
  <2> QED BY <2>1, <2>3
<1>2. ASSUME NEW o, NEW ch, OpenSession(o, ch)
      PROVE  \A oc \in Orders \X Channels : links[oc] <= links'[oc]
  BY <1>0, <1>2 DEF OpenSession
<1>3. UNCHANGED links \/ \E o, ch : OpenSession(o, ch)
  <2>1. ASSUME NEW h \in Handlers, NEW o \in Orders, Statement(h, o)
        PROVE  UNCHANGED links \/ \E ch : OpenSession(o, ch)
    BY <2>1 DEF Statement, Settle, SettleFree, PayCertOrderWithBalance, CloseOld, InsertAttempt, CreateLink, RecordLink,
                CreateLinkFails, CloseFailed, CloseForOffline, SettleOffline, CancelStatus,
                CloseCancelled, SettleCallback, SettleCertOrderPaid, channelVars
  <2> QED BY <2>1 DEF CheckoutNext, LoadForPayment, LoadForOffline, LoadForCancel, LoadForCallback,
                      Abort, UserPays, OpenAccount, checkoutVars, channelVars
<1>4. \A oc \in Orders \X Channels : links[oc] <= links'[oc]
  <2>1. UNCHANGED links => \A oc \in Orders \X Channels : links[oc] <= links'[oc]
    BY <1>0
  <2> QED BY <1>2, <1>3, <2>1
<1> QED BY <1>1, <1>4 DEF ReportsKept

LEMMA FitsItsRowKept ==
    ASSUME TypeInv, TypeInv', RowsEvolve, ReportsKept, NEW r \in Request, RowInHand(r), FitsItsRow(r)
    PROVE  FitsItsRow(r)'
<1>1. ASSUME r.pc \in {"createLink", "recordLink", "settleCallback"}
      PROVE  r.channel = attempts'[r.order][r.row].channel
  <2>1. r.order \in Orders /\ r.row \in DOMAIN attempts[r.order]
    BY <1>1 DEF RowInHand
  <2> QED BY <1>1, <2>1 DEF RowsEvolve, FitsItsRow
<1>2. ASSUME r.pc = "settleCallback" PROVE r.txn \in ReportedBy(r.order, r.channel)'
  BY <1>2, ReportedByKept DEF FitsItsRow
<1> QED BY <1>1, <1>2 DEF FitsItsRow, ReportedBy

LEMMA InHandMoves ==
    ASSUME TypeInv, TypeInv', RowsEvolve, ReportsKept, InHand,
           NEW h \in Handlers, NEW r, req' = [req EXCEPT ![h] = r],
           FitsItsRow(r)', NamesItsSource(r)
    PROVE  InHand'
<1> SUFFICES ASSUME NEW g \in Handlers PROVE FitsItsRow(req[g])' /\ NamesItsSource(req[g])'
  BY DEF InHand
<1>1. CASE g = h
  <2>1. req'[g] = r
    BY <1>1, TypeUnfolded
  <2> QED BY <2>1 DEF FitsItsRow, NamesItsSource
<1>2. CASE g # h
  <2>1. PICK q \in Request : q = req[g] /\ q = req'[g]
    BY <1>2, TypeUnfolded
  <2>2. RowInHand(q) /\ FitsItsRow(q) /\ NamesItsSource(q)
    BY <2>1, TypeUnfolded DEF InHand
  <2>3. FitsItsRow(q)'
    BY <2>2, FitsItsRowKept
  <2> QED BY <2>1, <2>2, <2>3 DEF FitsItsRow, NamesItsSource
<1> QED BY <1>1, <1>2

LEMMA InHandStays ==
    ASSUME TypeInv, TypeInv', RowsEvolve, ReportsKept, InHand, UNCHANGED req
    PROVE  InHand'
<1> SUFFICES ASSUME NEW g \in Handlers PROVE FitsItsRow(req[g])' /\ NamesItsSource(req[g])'
  BY DEF InHand
<1>1. PICK q \in Request : q = req[g] /\ q = req'[g]
  BY TypeUnfolded
<1>2. RowInHand(q) /\ FitsItsRow(q) /\ NamesItsSource(q)
  BY <1>1, TypeUnfolded DEF InHand
<1>3. FitsItsRow(q)'
  BY <1>2, FitsItsRowKept
<1> QED BY <1>1, <1>2, <1>3 DEF FitsItsRow, NamesItsSource

\* The handler stops, or goes on to a statement that relies on nothing it carries.
LEMMA InHandReturns ==
    ASSUME TypeInv, TypeInv', RowsEvolve, ReportsKept, InHand, NEW h \in Handlers, Return(h)
    PROVE  InHand'
<1>1. FitsItsRow(Idle)' /\ NamesItsSource(Idle)
  BY DEF Idle, FitsItsRow, NamesItsSource
<1> QED BY <1>1, InHandMoves DEF Return

LEMMA InHandGoesOn ==
    ASSUME TypeInv, TypeInv', RowsEvolve, ReportsKept, InHand, NEW h \in Handlers,
           NEW pc \in {"insert", "closeFailed", "settleOffline", "closeCancelled"}, GoTo(h, pc),
           pc = "settleOffline" => req[h].pc = "closeForOffline"
    PROVE  InHand'
<1>1. req[h] \in Request
  BY TypeUnfolded
<1>2. PICK r : r = [req[h] EXCEPT !.pc = pc]
  OBVIOUS
<1>3. r.pc = pc /\ r.order = req[h].order /\ r.channel = req[h].channel
  BY <1>1, <1>2 DEF Request
<1>4. FitsItsRow(r)'
  BY <1>3 DEF FitsItsRow
<1>5. NamesItsSource(r)
  BY <1>3 DEF NamesItsSource, InHand
<1> QED BY <1>2, <1>4, <1>5, InHandMoves DEF GoTo

LEMMA InHandStep ==
    ASSUME TypeInv, TypeInv', InHand, [CheckoutNext]_checkoutVars
    PROVE  InHand'
<1>0. RowsEvolve /\ ReportsKept
  BY StepRows, StepEvolves, ReportsStep
<1>1. ASSUME NEW h \in Handlers, NEW o \in Orders, NEW ch \in Channels \cup {"balance"},
             LoadForPayment(h, o, ch)
      PROVE  InHand'
  <2>1. PICK pc \in {"settleFree", "payBalance", "closeOld"} :
            /\ Begin(h, pc, o, ch, 0, NoTxn)
            /\ pc = "settleFree" => Amount[o] = 0
    BY <1>1 DEF LoadForPayment
  <2>2. PICK r : r = [pc |-> pc, order |-> o, channel |-> ch, row |-> 0, txn |-> NoTxn]
    OBVIOUS
  <2>3. FitsItsRow(r)' /\ NamesItsSource(r)
    BY <2>1, <2>2 DEF FitsItsRow, NamesItsSource
  <2> QED BY <1>0, <2>1, <2>2, <2>3, InHandMoves DEF Begin
<1>2. ASSUME NEW h \in Handlers, NEW o \in Orders, NEW ref \in References, LoadForOffline(h, o, ref)
      PROVE  InHand'
  <2>1. PICK r : r = [pc |-> "closeForOffline", order |-> o,
                      channel |-> IF Amount[o] = 0 THEN "free" ELSE "offline", row |-> 0, txn |-> ref]
    OBVIOUS
  <2>2. FitsItsRow(r)' /\ NamesItsSource(r)
    BY <2>1 DEF FitsItsRow, NamesItsSource
  <2> QED BY <1>0, <1>2, <2>1, <2>2, InHandMoves DEF Begin, LoadForOffline
<1>3. ASSUME NEW h \in Handlers, NEW o \in Orders, LoadForCancel(h, o)
      PROVE  InHand'
  <2>1. PICK r : r = [pc |-> "cancel", order |-> o, channel |-> "free", row |-> 0, txn |-> NoTxn]
    OBVIOUS
  <2>2. FitsItsRow(r)' /\ NamesItsSource(r)
    BY <2>1 DEF FitsItsRow, NamesItsSource
  <2> QED BY <1>0, <1>3, <2>1, <2>2, InHandMoves DEF Begin, LoadForCancel
<1>4. ASSUME NEW h \in Handlers, NEW o \in Orders, Statement(h, o)
      PROVE  InHand'
  <2>1. CASE \/ SettleFree(h, o) \/ PayCertOrderWithBalance(h, o) \/ RecordLink(h, o)
             \/ CloseFailed(h, o) \/ SettleOffline(h, o) \/ CloseCancelled(h, o) \/ SettleCallback(h, o)
    <3>1. Return(h)
      BY <2>1 DEF SettleFree, PayCertOrderWithBalance, RecordLink, CloseFailed, SettleOffline,
                  CloseCancelled, SettleCallback, SettleCertOrderPaid
    <3> QED BY <1>0, <3>1, InHandReturns
  <2>2. CASE \/ CloseOld(h, o) \/ CreateLinkFails(h, o) \/ CloseForOffline(h, o) \/ CancelStatus(h, o)
    BY <1>0, <2>2, InHandGoesOn, InHandReturns
    DEF CloseOld, CreateLinkFails, CloseForOffline, CancelStatus, At
  <2>3. CASE InsertAttempt(h, o)
    <3>1. CASE Return(h)
      BY <1>0, <3>1, InHandReturns
    <3>2. CASE req' = [req EXCEPT ![h].pc = "createLink", ![h].row = Len(attempts[o]) + 1]
      <4>1. PICK r : r = [req[h] EXCEPT !.pc = "createLink", !.row = Len(attempts[o]) + 1]
        OBVIOUS
      <4>2. /\ r.pc = "createLink" /\ r.order = o
            /\ r.row = Len(attempts[o]) + 1 /\ r.channel = req[h].channel
        BY <2>3, <4>1, TypeUnfolded DEF Request, InsertAttempt, At
      <4>3. attempts'[o][Len(attempts[o]) + 1].channel = req[h].channel
        <5>1. \A x, y : Return(h) => req'[h].pc = "idle"
          BY TypeUnfolded DEF Return, Idle
        <5>2. req'[h].pc = "createLink"
          BY <3>2, <4>1, <4>2, TypeUnfolded
        <5>3. attempts' = [attempts EXCEPT ![o] =
                              Append(@, NewAttempt(req[h].channel, "pending", NoTxn))]
          BY <2>3, <5>1, <5>2 DEF InsertAttempt
        <5>4. NewAttempt(req[h].channel, "pending", NoTxn) \in Attempt
          BY AttemptNew, TypeUnfolded, NoTxnIsTxnNo DEF AttemptState, Request
        <5>5. PICK row \in Attempt : row = NewAttempt(req[h].channel, "pending", NoTxn)
          BY <5>4
        <5>6. row.channel = req[h].channel
          BY <5>5 DEF NewAttempt
        <5>7. attempts'[o] = Append(attempts[o], row) /\ attempts[o] \in Seq(Attempt)
          BY <5>3, <5>5, TypeUnfolded
        <5> QED BY <5>6, <5>7
      <4>4. FitsItsRow(r)' /\ NamesItsSource(r)
        BY <4>2, <4>3 DEF FitsItsRow, NamesItsSource
      <4> QED BY <1>0, <3>2, <4>1, <4>4, InHandMoves
    <3> QED BY <2>3, <3>1, <3>2 DEF InsertAttempt
  <2>4. CASE CreateLink(h, o)
    <3>1. CASE Return(h)
      BY <1>0, <3>1, InHandReturns
    <3>2. CASE req[h].channel \in Numbered /\ GoTo(h, "recordLink")
      <4>1. PICK r : r = [req[h] EXCEPT !.pc = "recordLink"]
        OBVIOUS
      <4>2. /\ r.pc = "recordLink" /\ r.order = o /\ req[h].order = o
            /\ r.row = req[h].row /\ r.channel = req[h].channel
        BY <2>4, <4>1, TypeUnfolded DEF Request, CreateLink, At
      <4>3. r.channel = attempts[o][r.row].channel
        BY <2>4, <4>2 DEF CreateLink, At, InHand, FitsItsRow
      <4>4. UNCHANGED attempts
        BY <2>4 DEF CreateLink, storeVars
      <4>5. FitsItsRow(r)' /\ NamesItsSource(r)
        BY <3>2, <4>2, <4>3, <4>4 DEF FitsItsRow, NamesItsSource
      <4> QED BY <1>0, <3>2, <4>1, <4>5, InHandMoves DEF GoTo
    <3> QED BY <2>4, <3>1, <3>2 DEF CreateLink
  <2> QED BY <1>4, <2>1, <2>2, <2>3, <2>4 DEF Statement, Settle
<1>5. ASSUME NEW h \in Handlers, NEW p \in Payment, LoadForCallback(h, p)
      PROVE  InHand'
  <2>1. PICK i \in DOMAIN attempts[p[1]] :
           \/ UNCHANGED req
           \/ Begin(h, "settleCallback", p[1], p[2], i, p) /\ IsLatest(p[1], p[2], i) /\ UNCHANGED attempts
    BY <1>5 DEF LoadForCallback
  <2>2. CASE UNCHANGED req
    BY <1>0, <2>2, InHandStays
  <2>3. CASE Begin(h, "settleCallback", p[1], p[2], i, p) /\ IsLatest(p[1], p[2], i) /\ UNCHANGED attempts
    <3>1. p \in ReportedBy(p[1], p[2])'
      BY <1>5 DEF LoadForCallback, ReportedBy
    <3>2. PICK r : r = [pc |-> "settleCallback", order |-> p[1], channel |-> p[2], row |-> i, txn |-> p]
      OBVIOUS
    <3>3. FitsItsRow(r)' /\ NamesItsSource(r)
      BY <2>3, <3>1, <3>2 DEF FitsItsRow, NamesItsSource, IsLatest, ReportedBy
    <3> QED BY <1>0, <2>3, <3>2, <3>3, InHandMoves DEF Begin
  <2> QED BY <2>1, <2>2, <2>3
<1>6. ASSUME NEW h \in Handlers, Abort(h) PROVE InHand'
  BY <1>0, <1>6, InHandReturns DEF Abort
<1>7. ASSUME NEW p \in Payment, UserPays(p) PROVE InHand'
  BY <1>0, <1>7, InHandStays DEF UserPays
<1>9. ASSUME NEW u \in Users, OpenAccount(u) PROVE InHand'
  BY <1>0, <1>9, InHandStays DEF OpenAccount
<1>8. CASE UNCHANGED checkoutVars
  BY <1>0, <1>8, InHandStays DEF checkoutVars
<1> QED BY <1>1, <1>2, <1>3, <1>4, <1>5, <1>6, <1>7, <1>8, <1>9 DEF CheckoutNext

-----------------------------------------------------------------------------
(* The inductive invariant, and the theorems *)

Inv ==
    /\ TypeInv /\ InHand
    /\ OnePendingAttempt /\ PaidRowIsReported
    /\ NumbersIssued /\ TradeBookedOnce

LEMMA InvInit == CheckoutInit => Inv
<1> SUFFICES ASSUME CheckoutInit PROVE Inv
  OBVIOUS
<1>1. TypeInv
  BY InitType
<1>2. InHand
  BY DEF CheckoutInit, InHand, FitsItsRow, NamesItsSource, Idle
<1>3. ASSUME NEW o \in Orders PROVE DOMAIN attempts[o] = {}
  <2>1. attempts[o] \in Seq(Attempt) /\ Len(attempts[o]) = 0
    BY DEF CheckoutInit, StoreInit
  <2> QED BY <2>1
<1>4. reported = {}
  BY DEF CheckoutInit
<1> QED BY <1>1, <1>2, <1>3, <1>4
        DEF Inv, OnePendingAttempt, PaidRowIsReported, PaidRows, TradeBookedOnce, NumbersIssued

LEMMA InvStep == Inv /\ [CheckoutNext]_checkoutVars => Inv'
<1> SUFFICES ASSUME Inv, [CheckoutNext]_checkoutVars PROVE Inv'
  OBVIOUS
<1>1. TypeInv'
  BY StepType DEF Inv
<1>2. /\ RowStep /\ ReportsKept
      /\ \A p \in reported' : p \in reported \/ p[3] <= links[<<p[1], p[2]>>]
  BY StepRows, ReportsStep DEF Inv
<1>3. InHand'
  BY <1>1, InHandStep DEF Inv
<1>4. OnePendingAttempt'
  BY <1>2, OnePendingStep DEF Inv
<1>5. PaidRowIsReported'
  BY <1>1, <1>2, PaidRowIsReportedStep DEF Inv
<1>6. TradeBookedOnce'
  BY <1>1, <1>2, TradeBookedOnceStep DEF Inv
<1>7. NumbersIssued'
  BY <1>1, <1>2, NumbersIssuedStep DEF Inv
<1> QED BY <1>1, <1>3, <1>4, <1>5, <1>6, <1>7 DEF Inv

LEMMA Invariance == CheckoutSpec => []Inv
BY InvInit, InvStep, PTL DEF CheckoutSpec

\* An order never has two open attempts, however many handlers replace the attempt of
\* one another (CreateCertOrderPayment), confirm or cancel.
THEOREM OnePendingAlways == CheckoutSpec => []OnePendingAttempt
<1>1. Inv => OnePendingAttempt
  BY DEF Inv
<1> QED BY <1>1, Invariance, PTL

\* A channel's paid attempt is backed by a payment that the channel reported for its own
\* order, although a callback writes to a row it looked up before its transaction began, and
\* a session number may be recorded over the trade number afterwards.
THEOREM PaidRowAlwaysReported == CheckoutSpec => []PaidRowIsReported
<1>1. Inv => PaidRowIsReported
  BY DEF Inv
<1> QED BY <1>1, Invariance, PTL

\* One trade number or voucher never pays two attempts of a channel, whatever callbacks
\* are repeated and whatever an administrator confirms twice.
THEOREM TradeAlwaysBookedOnce == CheckoutSpec => []TradeBookedOnce
<1>1. Inv => TradeBookedOnce
  BY DEF Inv
<1> QED BY <1>1, Invariance, PTL

\* A paid attempt is never lost or changed by any later step, the transaction_id of
\* channels that number their sessions apart.
THEOREM PaidRowsStay == CheckoutSpec => PaidRowsAreFinal
<1>1. ASSUME Inv, [CheckoutNext]_checkoutVars
      PROVE  \A o \in Orders : \A i \in PaidRows(o) :
                 i \in DOMAIN attempts'[o] /\ Kept(attempts'[o][i]) = Kept(attempts[o][i])
  <2>1. RowsEvolve
    BY <1>1, StepRows, StepEvolves DEF Inv
  <2> QED BY <2>1 DEF RowsEvolve, RowsKept, PaidRows
<1> QED BY <1>1, Invariance, PTL DEF CheckoutSpec, PaidRowsAreFinal

-----------------------------------------------------------------------------
(* The balance and the balance payments *)

\* The rows paid out of the balance, in a table of attempts.
PaidByBalance(rows) ==
    {i \in DOMAIN rows : rows[i].state = "paid" /\ rows[i].channel = "balance"}

BalanceRowsKept == \A o \in Orders : BalanceRows(o)' = BalanceRows(o)

\* A balance payment of o: one more row, and the price is gone from the balance.
BalancePays(o) ==
    /\ Deducts(o)
    /\ \A n \in Orders \ {o} : BalanceRows(n)' = BalanceRows(n)
    /\ Cardinality(BalanceRows(o)') = Cardinality(BalanceRows(o)) + 1

LEMMA BalanceRowsUnfolded ==
    \A o \in Orders : /\ BalanceRows(o) = PaidByBalance(attempts[o])
                      /\ BalanceRows(o)' = PaidByBalance(attempts'[o])
BY DEF BalanceRows, PaidRows, PaidByBalance

LEMMA BalanceRowsFinite ==
    ASSUME NEW rows \in Seq(Attempt)
    PROVE  IsFiniteSet(PaidByBalance(rows)) /\ Cardinality(PaidByBalance(rows)) \in Nat
<1>1. DOMAIN rows = 1 .. Len(rows) /\ Len(rows) \in Nat
  OBVIOUS
<1>2. IsFiniteSet(1 .. Len(rows)) /\ PaidByBalance(rows) \subseteq 1 .. Len(rows)
  BY <1>1, UpToIsFinite DEF PaidByBalance
<1>3. IsFiniteSet(PaidByBalance(rows))
  BY <1>2, FS_Subset
<1> QED BY <1>3, FS_CardinalityType

LEMMA AppendPaidByBalance ==
    ASSUME NEW rows \in Seq(Attempt), NEW row \in Attempt
    PROVE  LET new == PaidByBalance(Append(rows, row))
               old == PaidByBalance(rows)
           IN  IF row.state = "paid" /\ row.channel = "balance"
               THEN Cardinality(new) = Cardinality(old) + 1
               ELSE new = old
<1> DEFINE n == Len(rows) + 1
<1>1. /\ DOMAIN rows = 1 .. Len(rows) /\ Len(rows) \in Nat /\ n \notin DOMAIN rows
      /\ DOMAIN Append(rows, row) = DOMAIN rows \cup {n}
      /\ Append(rows, row)[n] = row
      /\ \A i \in DOMAIN rows : Append(rows, row)[i] = rows[i]
  OBVIOUS
<1>2. CASE row.state = "paid" /\ row.channel = "balance"
  <2>1. /\ PaidByBalance(Append(rows, row)) = PaidByBalance(rows) \cup {n}
        /\ n \notin PaidByBalance(rows)
    BY <1>1, <1>2 DEF PaidByBalance
  <2>2. Cardinality(PaidByBalance(rows) \cup {n}) = Cardinality(PaidByBalance(rows)) + 1
    BY <2>1, BalanceRowsFinite, FS_AddElement
  <2> QED BY <1>2, <2>1, <2>2
<1>3. CASE ~(row.state = "paid" /\ row.channel = "balance")
  <2>1. PaidByBalance(Append(rows, row)) = PaidByBalance(rows)
    BY <1>1, <1>3 DEF PaidByBalance
  <2> QED BY <1>3, <2>1
<1> QED BY <1>2, <1>3

\* A change of the rows pays out of the balance, or leaves its payments alone.
LEMMA RowStepBalance ==
    ASSUME TypeInv, RowStep
    PROVE  BalanceRowsKept \/ \E o \in Orders : BalancePays(o)
<1>1. attempts \in [Orders -> Seq(Attempt)]
  BY TypeUnfolded
<1>2. CASE UNCHANGED attempts
  BY <1>2, BalanceRowsUnfolded DEF BalanceRowsKept
<1>3. ASSUME NEW o \in Orders, NEW new \in Seq(Attempt),
             attempts' = [attempts EXCEPT ![o] = new], ChangesRows(o, new)
      PROVE  BalanceRowsKept \/ BalancePays(o)
  <2>1. /\ attempts[o] \in Seq(Attempt) /\ attempts'[o] = new
        /\ \A n \in Orders \ {o} : attempts'[n] = attempts[n]
        /\ \A i \in DOMAIN attempts[o] : attempts[o][i] \in Attempt
    BY <1>1, <1>3
  <2>2. ASSUME PaidByBalance(new) = PaidByBalance(attempts[o]) PROVE BalanceRowsKept
    BY <2>1, <2>2, BalanceRowsUnfolded DEF BalanceRowsKept
  <2>3. CASE Closes(attempts[o], new)
    <3>1. PaidByBalance(new) = PaidByBalance(attempts[o])
      BY <2>3 DEF Closes, PaidByBalance
    <3> QED BY <2>2, <3>1
  <2>4. CASE Books(o, new)
    <3>1. PICK i \in DOMAIN attempts[o], p \in Payment :
              /\ attempts[o][i].state = "pending"
              /\ p[2] = attempts[o][i].channel
              /\ new = [attempts[o] EXCEPT ![i] = [@ EXCEPT !.state = "paid", !.txn = p]]
      BY <2>4 DEF Books, ReportedBy
    <3>2. attempts[o][i].channel # "balance"
      BY <3>1, ChannelAssumption DEF Payment
    <3>3. /\ DOMAIN new = DOMAIN attempts[o] /\ new[i].channel = attempts[o][i].channel
          /\ \A j \in DOMAIN attempts[o] : j # i => new[j] = attempts[o][j]
      BY <2>1, <3>1 DEF Attempt
    <3>4. PaidByBalance(new) = PaidByBalance(attempts[o])
      BY <3>2, <3>3 DEF PaidByBalance
    <3> QED BY <2>2, <3>4
  <2>5. CASE Renumbers(o, new)
    <3>1. PICK i \in DOMAIN attempts[o] :
              /\ DOMAIN new = DOMAIN attempts[o]
              /\ \A j \in DOMAIN attempts[o] : j # i => new[j] = attempts[o][j]
              /\ new[i] = [attempts[o][i] EXCEPT !.txn = NextNumber(o, attempts[o][i].channel)]
      BY <2>5 DEF Renumbers
    <3>2. new[i].state = attempts[o][i].state /\ new[i].channel = attempts[o][i].channel
      BY <2>1, <3>1 DEF Attempt
    <3>3. PaidByBalance(new) = PaidByBalance(attempts[o])
      BY <3>1, <3>2 DEF PaidByBalance
    <3> QED BY <2>2, <3>3
  <2>6. CASE Adds(o, new)
    <3>1. PICK row \in Attempt : /\ new = Append(attempts[o], row)
                                 /\ row.state = "paid" /\ row.channel = "balance" => Deducts(o)
      BY <2>6 DEF Adds
    <3>2. CASE row.state = "paid" /\ row.channel = "balance"
      <4>1. Cardinality(PaidByBalance(new)) = Cardinality(PaidByBalance(attempts[o])) + 1
        BY <2>1, <3>1, <3>2, AppendPaidByBalance
      <4> QED BY <2>1, <3>1, <3>2, <4>1, BalanceRowsUnfolded DEF BalancePays
    <3>3. CASE ~(row.state = "paid" /\ row.channel = "balance")
      BY <2>1, <2>2, <3>1, <3>3, AppendPaidByBalance
    <3> QED BY <3>2, <3>3
  <2> QED BY <1>3, <2>3, <2>4, <2>5, <2>6 DEF ChangesRows
<1> QED BY <1>2, <1>3 DEF RowStep

\* The balance moves by balance payments only.
LEMMA StepBalance ==
    ASSUME TypeInv, InHand, [CheckoutNext]_checkoutVars
    PROVE  \/ UNCHANGED <<available, accounts>> /\ BalanceRowsKept
           \/ UNCHANGED accounts /\ \E o \in Orders : BalancePays(o)
           \/ BalanceRowsKept /\ \E u \in Users : OpenAccount(u)
<1>1. BalanceRowsKept \/ \E o \in Orders : BalancePays(o)
  BY StepRows, RowStepBalance
<1>2. ASSUME NEW h \in Handlers, NEW o \in Orders, PayCertOrderWithBalance(h, o)
      PROVE  (UNCHANGED available /\ BalanceRowsKept) \/ BalancePays(o)
  <2>1. CASE UNCHANGED <<attempts, available>>
    BY <2>1, BalanceRowsUnfolded DEF BalanceRowsKept
  <2>2. CASE /\ Deducts(o)
             /\ attempts' = [attempts EXCEPT ![o] = Append(@, NewAttempt("balance", "paid", NoTxn))]
    <3>1. attempts \in [Orders -> Seq(Attempt)]
      BY TypeUnfolded
    <3>2. NewAttempt("balance", "paid", NoTxn) \in Attempt
      BY AttemptNew, NoTxnIsTxnNo DEF AttemptState, AllChannels
    <3>3. Cardinality(PaidByBalance(attempts'[o])) = Cardinality(PaidByBalance(attempts[o])) + 1
      <4>1. PICK row \in Attempt : row = NewAttempt("balance", "paid", NoTxn)
        BY <3>2
      <4>2. row.state = "paid" /\ row.channel = "balance"
        BY <4>1 DEF NewAttempt
      <4> QED BY <2>2, <3>1, <4>1, <4>2, AppendPaidByBalance
    <3>4. \A n \in Orders \ {o} : attempts'[n] = attempts[n]
      BY <2>2, <3>1
    <3> QED BY <2>2, <3>3, <3>4, BalanceRowsUnfolded DEF BalancePays
  <2> QED BY <1>2, <2>1, <2>2 DEF PayCertOrderWithBalance, Deducts
<1>3. ASSUME \A h \in Handlers, o \in Orders : ~PayCertOrderWithBalance(h, o),
             \A u \in Users : ~OpenAccount(u)
      PROVE  UNCHANGED available
  <2>1. ASSUME NEW h \in Handlers, NEW o \in Orders, Statement(h, o) PROVE UNCHANGED available
    BY <1>3, <2>1
       DEF Statement, Settle, SettleFree, SettleOffline, SettleCertOrderPaid, CloseOld, InsertAttempt,
           CreateLink, RecordLink, CreateLinkFails, CloseFailed, CloseForOffline, CancelStatus,
           CloseCancelled, SettleCallback, storeVars
  <2> QED BY <1>3, <2>1 DEF CheckoutNext, LoadForPayment, LoadForOffline, LoadForCancel, LoadForCallback,
                            Abort, UserPays, checkoutVars, storeVars
<1>4. UNCHANGED accounts \/ \E u \in Users : OpenAccount(u)
  <2>1. ASSUME NEW h \in Handlers, NEW o \in Orders, Statement(h, o) PROVE UNCHANGED accounts
    BY <2>1
       DEF Statement, Settle, SettleFree, SettleOffline, SettleCertOrderPaid, PayCertOrderWithBalance,
           CloseOld, InsertAttempt, CreateLink, RecordLink, CreateLinkFails, CloseFailed, CloseForOffline,
           CancelStatus, CloseCancelled, SettleCallback, storeVars
  <2> QED BY <2>1 DEF CheckoutNext, LoadForPayment, LoadForOffline, LoadForCancel, LoadForCallback,
                      Abort, UserPays, checkoutVars, storeVars
<1>5. ASSUME NEW u \in Users, OpenAccount(u) PROVE BalanceRowsKept
  BY <1>5, BalanceRowsUnfolded DEF OpenAccount, BalanceRowsKept
<1>6. ASSUME NEW h \in Handlers, NEW o \in Orders, PayCertOrderWithBalance(h, o) PROVE UNCHANGED accounts
  BY <1>6 DEF PayCertOrderWithBalance
<1>7. CASE \E u \in Users : OpenAccount(u)
  BY <1>5, <1>7
<1>8. CASE \E h \in Handlers, o \in Orders : PayCertOrderWithBalance(h, o)
  BY <1>2, <1>6, <1>8
<1>9. CASE /\ \A u \in Users : ~OpenAccount(u)
           /\ \A h \in Handlers, o \in Orders : ~PayCertOrderWithBalance(h, o)
  BY <1>1, <1>3, <1>4, <1>9
<1> QED BY <1>7, <1>8, <1>9

\* The sum of what the orders of u took out of the balance.
Spent(u) == SumFunctionOnSet(BalanceCharges, OrdersOf(u))

LEMMA OrdersOfFinite ==
    ASSUME NEW u \in Users
    PROVE  IsFiniteSet(OrdersOf(u)) /\ OrdersOf(u) \subseteq Orders
BY OrdersAssumption, FS_Subset DEF OrdersOf

LEMMA ChargesType ==
    ASSUME TypeInv
    PROVE  \A o \in Orders : /\ BalanceCharges[o] = Amount[o] * Cardinality(BalanceRows(o))
                             /\ BalanceCharges[o] \in Int /\ Cardinality(BalanceRows(o)) \in Nat
<1>1. ASSUME NEW o \in Orders PROVE Cardinality(BalanceRows(o)) \in Nat
  BY <1>1, BalanceRowsUnfolded, BalanceRowsFinite, TypeUnfolded
<1> QED BY <1>1, AmountAssumption DEF BalanceCharges

LEMMA ChargesTypeNext ==
    ASSUME TypeInv'
    PROVE  \A o \in Orders : /\ BalanceCharges'[o] = Amount[o] * Cardinality(BalanceRows(o)')
                             /\ BalanceCharges'[o] \in Int /\ Cardinality(BalanceRows(o)') \in Nat
<1>1. ASSUME NEW o \in Orders PROVE Cardinality(BalanceRows(o)') \in Nat
  <2>1. attempts'[o] \in Seq(Attempt)
    BY DEF TypeInv, CheckoutTypeOK, StoreTypeOK
  <2> QED BY <2>1, BalanceRowsUnfolded, BalanceRowsFinite
<1> QED BY <1>1, AmountAssumption DEF BalanceCharges

LEMMA BalanceInit == ASSUME CheckoutInit PROVE BalanceExplained
<1> SUFFICES ASSUME NEW u \in Users
             PROVE  available[u] >= 0 /\ available[u] = Opened(u) - Spent(u)
  BY DEF BalanceExplained, Spent
<1>1. TypeInv
  BY InitType
<1>2. \A o \in Orders : BalanceCharges[o] = 0
  <2> SUFFICES ASSUME NEW o \in Orders PROVE BalanceCharges[o] = 0
    OBVIOUS
  <2>1. attempts[o] = <<>>
    BY DEF CheckoutInit, StoreInit
  <2>2. PaidByBalance(attempts[o]) = {}
    BY <2>1 DEF PaidByBalance
  <2>3. Cardinality(BalanceRows(o)) = 0
    BY <2>2, BalanceRowsUnfolded, FS_EmptySet
  <2> QED BY <1>1, <2>3, ChargesType, AmountAssumption
<1>3. Spent(u) = 0
  BY <1>2, OrdersOfFinite, SumOfZeros DEF Spent
<1> QED BY <1>3, OpeningBalanceAssumption DEF CheckoutInit, StoreInit, Opened

\* Every balance payment adds its price to what is explained.
LEMMA BalanceStep ==
    ASSUME TypeInv, TypeInv', InHand, BalanceExplained, [CheckoutNext]_checkoutVars
    PROVE  BalanceExplained'
<1> SUFFICES ASSUME NEW u \in Users
             PROVE  available'[u] >= 0 /\ available'[u] = Opened(u)' - Spent(u)'
  BY DEF BalanceExplained, Spent
<1>1. /\ available[u] = Opened(u) - Spent(u)
      /\ available'[u] \in Nat /\ available[u] \in Nat /\ Opened(u) \in Int
  BY TypeUnfolded, OpeningBalanceAssumption
     DEF BalanceExplained, Spent, Opened, TypeInv, CheckoutTypeOK, StoreTypeOK
<1>2. IsFiniteSet(OrdersOf(u)) /\ OrdersOf(u) \subseteq Orders
  BY OrdersOfFinite
<1>3. Spent(u) = SumFunctionOnSet(BalanceCharges, OrdersOf(u))
      /\ Spent(u)' = SumFunctionOnSet(BalanceCharges', OrdersOf(u))
  BY DEF Spent, OrdersOf
<1>4. \A o \in Orders : Cardinality(BalanceRows(o)') = Cardinality(BalanceRows(o)) =>
                           BalanceCharges'[o] = BalanceCharges[o]
  BY ChargesType, ChargesTypeNext
<1>7. BalanceRowsKept => Spent(u)' = Spent(u)
  <2> HAVE BalanceRowsKept
  <2>1. \A o \in OrdersOf(u) : BalanceCharges[o] = BalanceCharges'[o]
    BY <1>2, <1>4 DEF BalanceRowsKept
  <2> QED BY <1>2, <1>3, <2>1, SumOfSame
<1>5. CASE UNCHANGED <<available, accounts>> /\ BalanceRowsKept
  BY <1>1, <1>5, <1>7 DEF Opened
<1>8. ASSUME NEW v \in Users, OpenAccount(v), BalanceRowsKept
      PROVE  available'[u] = Opened(u)' - Spent(u)'
  <2>1. /\ available \in [Users -> Nat] /\ OpeningBalance[v] \in Nat /\ Spent(u)' = Spent(u)
        /\ SumFunctionOnSet(BalanceCharges, OrdersOf(u)) \in Int
    <3>1. \A o \in OrdersOf(u) : BalanceCharges[o] \in Int
      BY <1>2, ChargesType
    <3> QED BY <1>2, <1>7, <1>8, <3>1, SumType, TypeUnfolded, OpeningBalanceAssumption
  <2>2. Spent(u) \in Int
    BY <1>3, <2>1
  <2>3. CASE u = v
    <3>1. available'[u] = available[u] + OpeningBalance[u]
      BY <1>8, <2>1, <2>3 DEF OpenAccount
    <3>2. Opened(u) = 0 /\ Opened(u)' = OpeningBalance[u]
      BY <1>8, <2>3 DEF Opened, OpenAccount
    <3> QED BY <1>1, <2>1, <2>2, <2>3, <3>1, <3>2
  <2>4. CASE u # v
    <3>1. available'[u] = available[u] /\ Opened(u)' = Opened(u)
      BY <1>8, <2>1, <2>4 DEF OpenAccount, Opened
    <3> QED BY <1>1, <2>1, <3>1
  <2> QED BY <2>3, <2>4
<1>6. ASSUME NEW o \in Orders, BalancePays(o), UNCHANGED accounts
      PROVE  available'[u] = Opened(u)' - Spent(u)'
  <2>5. Opened(u)' = Opened(u)
    BY <1>6 DEF Opened
  <2>1. \A n \in OrdersOf(u) \ {o} : BalanceCharges[n] = BalanceCharges'[n]
    BY <1>2, <1>4, <1>6 DEF BalancePays
  <2>2. Owner[o] \in Users /\ Amount[o] \in Nat /\ available \in [Users -> Nat]
    BY OwnerAssumption, AmountAssumption, TypeUnfolded
  <2>3. CASE o \notin OrdersOf(u)
    <3>1. Spent(u)' = Spent(u)
      BY <1>2, <1>3, <2>1, <2>3, SumOfSame
    <3>2. available'[u] = available[u]
      BY <1>6, <2>2, <2>3 DEF BalancePays, Deducts, OrdersOf
    <3> QED BY <1>1, <2>5, <3>1, <3>2
  <2>4. CASE o \in OrdersOf(u)
    <3>1. BalanceCharges'[o] - BalanceCharges[o] = Amount[o]
      <4>1. /\ BalanceCharges'[o] = Amount[o] * (Cardinality(BalanceRows(o)) + 1)
            /\ BalanceCharges[o] = Amount[o] * Cardinality(BalanceRows(o))
            /\ Cardinality(BalanceRows(o)) \in Nat
        BY <1>6, ChargesType, ChargesTypeNext DEF BalancePays
      <4>2. \A a, b \in Nat : a * (b + 1) - a * b = a
        OBVIOUS
      <4> QED BY <2>2, <4>1, <4>2
    <3>2. \A n \in OrdersOf(u) : BalanceCharges[n] \in Int /\ BalanceCharges'[n] \in Int
      BY <1>2, ChargesType, ChargesTypeNext
    <3>3. Spent(u)' = Spent(u) + Amount[o] /\ Spent(u) \in Int
      BY <1>2, <1>3, <2>1, <2>4, <3>1, <3>2, SumChanges, SumType
    <3>4. available'[u] = available[u] - Amount[o]
      BY <1>6, <2>2, <2>4 DEF BalancePays, Deducts, OrdersOf
    <3> QED BY <1>1, <2>2, <2>5, <3>3, <3>4
  <2> QED BY <2>3, <2>4
<1> QED BY <1>1, <1>5, <1>6, <1>8, StepBalance

\* Whatever handlers race, what is missing from a balance is the price of the orders its owner
\* paid from it, each as often as a payment is on record, and it is never overdrawn.
THEOREM BalanceAlwaysExplained == CheckoutSpec => []BalanceExplained
<1>1. CheckoutInit => BalanceExplained
  BY BalanceInit
<1>2. Inv /\ Inv' /\ BalanceExplained /\ [CheckoutNext]_checkoutVars => BalanceExplained'
  BY BalanceStep DEF Inv
<1> QED BY <1>1, <1>2, Invariance, PTL DEF CheckoutSpec

-----------------------------------------------------------------------------
(* What a step does to the orders, seen from OrderBook *)

Sale(o) ==
    /\ Settleable(o)
    /\ SettleStatus(o)
    /\ SettleBooking(o)
    /\ Amount[o] > 0 => Funded(o)'

Cancellation(o) ==
    /\ Settleable(o)
    /\ status' = [status EXCEPT ![o] = "cancelled"]
    /\ UNCHANGED booked
    /\ Funded(o)' = Funded(o)

Concerns(o) ==
    /\ \A n \in Orders \ {o} : Funded(n)' = Funded(n)
    /\ Funded(o) => Funded(o)'
    /\ UNCHANGED <<status, booked>> \/ Sale(o) \/ Cancellation(o)

\* The books agree with the statuses, ...
BookedWhenSold ==
    \A o \in Orders : booked[o] = IF Phase(o) = "sold" /\ Amount[o] > 0 THEN 1 ELSE 0

\* ... of which these three occur at the cashier.
BookedOnSale ==
    /\ BookedWhenSold
    /\ \A o \in Orders : status[o] \in {"pending_payment", "paid", "cancelled"}

-----------------------------------------------------------------------------
LEMMA FundedKept ==
    ASSUME TypeInv, TypeInv', RowsEvolve, ReportsKept, NEW o \in Orders, Funded(o)
    PROVE  Funded(o)'
<1>1. CASE \E i \in PaidRows(o) : attempts[o][i].channel \in {"balance", "offline"}
  <2>1. PICK i \in DOMAIN attempts[o] : /\ attempts[o][i].state = "paid"
                                        /\ attempts[o][i].channel \in {"balance", "offline"}
    BY <1>1 DEF PaidRows
  <2>2. /\ i \in DOMAIN attempts'[o] /\ attempts'[o][i].state = "paid"
        /\ attempts'[o][i].channel = attempts[o][i].channel
    BY <2>1 DEF RowsEvolve, RowsKept
  <2> QED BY <2>1, <2>2 DEF Funded, PaidRows
<1>2. ASSUME NEW p \in reported, p[1] = o PROVE Funded(o)'
  BY <1>2 DEF ReportsKept, Funded
<1> QED BY <1>1, <1>2 DEF Funded

\* A step that touches the attempts and payments of o only.
LEMMA FundedElsewhere ==
    ASSUME NEW n \in Orders, attempts'[n] = attempts[n],
           \A p : p[1] = n => (p \in reported' <=> p \in reported)
    PROVE  Funded(n)' = Funded(n)
BY DEF Funded, PaidRows

LEMMA ChangesOneOrder ==
    ASSUME TypeInv, TypeInv', RowsEvolve, ReportsKept, NEW o \in Orders, NEW new,
           attempts' = [attempts EXCEPT ![o] = new] \/ UNCHANGED attempts,
           UNCHANGED reported
    PROVE  /\ \A n \in Orders \ {o} : Funded(n)' = Funded(n)
           /\ Funded(o) => Funded(o)'
<1>1. \A n \in Orders \ {o} : attempts'[n] = attempts[n]
  BY TypeUnfolded
<1> QED BY <1>1, FundedElsewhere, FundedKept

\* A paid row out of the balance or by voucher is money for its order.
LEMMA PaidRowFunds ==
    ASSUME TypeInv, NEW o \in Orders, NEW ch \in {"balance", "offline"},
           NEW txn \in TxnNo,
           attempts' = [attempts EXCEPT ![o] = Append(@, NewAttempt(ch, "paid", txn))]
    PROVE  Funded(o)'
<1>1. attempts \in [Orders -> Seq(Attempt)]
  BY TypeUnfolded
<1>2. NewAttempt(ch, "paid", txn) \in Attempt
  BY AttemptNew DEF AttemptState, AllChannels
<1>3. PICK row \in Attempt : row = NewAttempt(ch, "paid", txn)
  BY <1>2
<1>4. row.state = "paid" /\ row.channel = ch
  BY <1>3 DEF NewAttempt
<1>5. attempts'[o] = Append(attempts[o], row) /\ attempts[o] \in Seq(Attempt)
  BY <1>1, <1>3
<1>6. /\ Len(attempts[o]) + 1 \in DOMAIN attempts'[o]
      /\ attempts'[o][Len(attempts[o]) + 1] = row
  BY <1>5
<1> QED BY <1>4, <1>6 DEF Funded, PaidRows

\* A callback in hand is a reported payment.
LEMMA CallbackFunds ==
    ASSUME TypeInv, InHand, NEW h \in Handlers, NEW o \in Orders, At(h, "settleCallback", o)
    PROVE  Funded(o)
<1>1. req[h].txn \in ReportedBy(o, req[h].channel)
  BY DEF At, InHand, FitsItsRow
<1> QED BY <1>1 DEF Funded, ReportedBy

\* A statement that closes, opens or disputes attempts sells nothing.
LEMMA NoSale ==
    ASSUME TypeInv, TypeInv', RowsEvolve, ReportsKept, NEW o \in Orders, NEW new,
           attempts' = [attempts EXCEPT ![o] = new] \/ UNCHANGED attempts,
           UNCHANGED reported, UNCHANGED <<status, booked>>
    PROVE  Concerns(o)
BY ChangesOneOrder DEF Concerns

LEMMA SettleConcerns ==
    ASSUME TypeInv, TypeInv', RowsEvolve, ReportsKept, NEW h \in Handlers, NEW o \in Orders,
           NEW ch \in AllChannels, NEW txn \in TxnNo,
           SettleCertOrderPaid(h, o, ch, txn),
           Amount[o] > 0 => ch \in {"balance", "offline"}
    PROVE  Concerns(o)
<1>1. UNCHANGED reported
  BY DEF SettleCertOrderPaid, channelVars
<1>2. CASE Settleable(o) /\ TxnFree(o, Len(attempts[o]) + 1, ch, txn)
  <2>1. attempts' = [attempts EXCEPT ![o] = Append(@, NewAttempt(ch, "paid", txn))]
    BY <1>2 DEF SettleCertOrderPaid
  <2>2. Settleable(o) /\ SettleStatus(o) /\ SettleBooking(o)
    BY <1>2 DEF SettleCertOrderPaid, SettleCertOrderPaidTx
  <2>3. Amount[o] > 0 => Funded(o)'
    BY <2>1, PaidRowFunds
  <2>4. /\ \A n \in Orders \ {o} : Funded(n)' = Funded(n)
        /\ Funded(o) => Funded(o)'
    BY <1>1, <2>1, ChangesOneOrder
  <2> QED BY <2>2, <2>3, <2>4 DEF Concerns, Sale
<1>3. CASE ~(Settleable(o) /\ TxnFree(o, Len(attempts[o]) + 1, ch, txn))
  BY <1>1, <1>3, NoSale DEF SettleCertOrderPaid
<1> QED BY <1>2, <1>3

LEMMA StatementConcerns ==
    ASSUME TypeInv, TypeInv', InHand, RowsEvolve, ReportsKept,
           NEW h \in Handlers, NEW o \in Orders, Statement(h, o)
    PROVE  Concerns(o)
<1>1. CASE SettleFree(h, o)
  <2>1. ~(Amount[o] > 0)
    BY <1>1 DEF SettleFree, At, InHand, NamesItsSource
  <2> QED BY <1>1, <2>1, SettleConcerns, NoTxnIsTxnNo DEF SettleFree, AllChannels
<1>2. CASE PayCertOrderWithBalance(h, o)
  <2>1. UNCHANGED reported
    BY <1>2 DEF PayCertOrderWithBalance, channelVars
  <2>2. CASE /\ SettleStatus(o)
             /\ SettleBooking(o)
             /\ attempts' = [attempts EXCEPT ![o] = Append(@, NewAttempt("balance", "paid", NoTxn))]
    <3>1. Funded(o)'
      BY <2>2, PaidRowFunds, NoTxnIsTxnNo
    <3>2. \A n \in Orders \ {o} : Funded(n)' = Funded(n)
      BY <2>1, <2>2, ChangesOneOrder
    <3>3. CASE Settleable(o)
      BY <2>2, <3>1, <3>2, <3>3 DEF Concerns, Sale
    <3>4. CASE ~Settleable(o)
      BY <2>2, <3>1, <3>2, <3>4 DEF Concerns, SettleStatus, SettleBooking
    <3> QED BY <3>3, <3>4
  <2>3. CASE UNCHANGED <<status, attempts, booked>>
    BY <2>1, <2>3, NoSale
  <2> QED BY <1>2, <2>2, <2>3 DEF PayCertOrderWithBalance
<1>3. CASE CloseOld(h, o)
  BY <1>3, NoSale DEF CloseOld, channelVars
<1>4. CASE InsertAttempt(h, o)
  BY <1>4, NoSale DEF InsertAttempt, channelVars
<1>5. CASE CreateLink(h, o)
  BY <1>5, NoSale DEF CreateLink, storeVars
<1>13. CASE RecordLink(h, o)
  BY <1>13, NoSale DEF RecordLink
<1>6. CASE CreateLinkFails(h, o)
  BY <1>6, NoSale DEF CreateLinkFails, storeVars, channelVars
<1>7. CASE CloseFailed(h, o)
  BY <1>7, NoSale DEF CloseFailed, channelVars
<1>8. CASE CloseForOffline(h, o)
  BY <1>8, NoSale DEF CloseForOffline, channelVars
<1>9. CASE SettleOffline(h, o)
  <2>1. /\ req[h].channel \in AllChannels /\ req[h].txn \in TxnNo
        /\ Amount[o] > 0 => req[h].channel = "offline"
    BY <1>9, TypeUnfolded DEF SettleOffline, At, InHand, NamesItsSource, Request
  <2> QED BY <1>9, <2>1, SettleConcerns DEF SettleOffline
<1>10. CASE CancelStatus(h, o)
  <2>1. UNCHANGED <<attempts, reported, booked>>
    BY <1>10 DEF CancelStatus, channelVars
  <2>2. \A n \in Orders : Funded(n)' = Funded(n)
    BY <2>1, FundedElsewhere
  <2> QED BY <1>10, <2>1, <2>2 DEF CancelStatus, Concerns, Cancellation
<1>11. CASE CloseCancelled(h, o)
  BY <1>11, NoSale DEF CloseCancelled, channelVars
<1>12. CASE SettleCallback(h, o)
  <2>1. Funded(o) /\ UNCHANGED reported
    BY <1>12, CallbackFunds DEF SettleCallback
  <2>2. CASE UNCHANGED <<status, booked, attempts>>
    BY <2>1, <2>2, NoSale
  <2>3. CASE /\ attempts' = [attempts EXCEPT ![o] = MarkPaid(@, req[h].row, req[h].txn)]
             /\ SettleCertOrderPaidTx(o)
    <3>1. /\ \A n \in Orders \ {o} : Funded(n)' = Funded(n)
          /\ Funded(o)'
      BY <2>1, <2>3, ChangesOneOrder
    <3>2. CASE Settleable(o)
      BY <2>3, <3>1, <3>2 DEF Concerns, Sale, SettleCertOrderPaidTx
    <3>3. CASE ~Settleable(o)
      BY <2>3, <3>1, <3>3 DEF Concerns, SettleCertOrderPaidTx, SettleStatus, SettleBooking
    <3> QED BY <3>2, <3>3
  <2> QED BY <1>12, <2>2, <2>3 DEF SettleCallback
<1> QED
  BY <1>1, <1>2, <1>3, <1>4, <1>5, <1>6, <1>7, <1>8, <1>9, <1>10, <1>11, <1>12, <1>13 DEF Statement, Settle

\* A step that leaves attempts, payments and books alone is a stutter for OrderBook.
Unseen ==
    /\ \A o \in Orders : Funded(o)' = Funded(o)
    /\ UNCHANGED <<status, booked>>

LEMMA StepConcerns ==
    ASSUME Inv, Inv', [CheckoutNext]_checkoutVars
    PROVE  Unseen \/ \E o \in Orders : Concerns(o)
<1>0. /\ TypeInv /\ TypeInv' /\ InHand
      /\ RowsEvolve /\ ReportsKept
  BY StepRows, StepEvolves, ReportsStep DEF Inv
<1>1. CASE UNCHANGED <<attempts, reported, status, booked>>
  BY <1>1, FundedElsewhere DEF Unseen
<1>2. ASSUME NEW h \in Handlers, NEW o \in Orders, Statement(h, o) PROVE Concerns(o)
  BY <1>0, <1>2, StatementConcerns
<1>3. ASSUME NEW h \in Handlers, NEW p \in Payment, LoadForCallback(h, p)
      PROVE  \E o \in Orders : Concerns(o)
  <2>1. PICK o \in Orders : o = p[1]
    BY DEF Payment
  <2>2. PICK i \in DOMAIN attempts[o] :
            \/ UNCHANGED attempts
            \/ attempts' = [attempts EXCEPT ![o][i].disputed = TRUE]
    BY <1>3, <2>1 DEF LoadForCallback
  <2>3. \E new : attempts' = [attempts EXCEPT ![o] = new] \/ UNCHANGED attempts
    BY <2>2
  <2> QED BY <1>0, <1>3, <2>3, NoSale DEF LoadForCallback
<1>4. ASSUME NEW p \in Payment, UserPays(p)
      PROVE  \E o \in Orders : Concerns(o)
  <2>1. PICK o \in Orders : o = p[1]
    BY DEF Payment
  <2>2. UNCHANGED <<attempts, status, booked>> /\ reported' = reported \cup {p}
    BY <1>4 DEF UserPays, storeVars
  <2>3. \A n \in Orders \ {o} : \A q : q[1] = n => (q \in reported' <=> q \in reported)
    BY <2>1, <2>2
  <2> QED BY <1>0, <2>2, <2>3, FundedElsewhere, FundedKept DEF Concerns
<1>5. CheckoutNext =>
          \/ UNCHANGED <<attempts, reported, status, booked>>
          \/ \E h \in Handlers, o \in Orders : Statement(h, o)
          \/ \E h \in Handlers, p \in Payment : LoadForCallback(h, p)
          \/ \E p \in Payment : UserPays(p)
  BY DEF CheckoutNext, LoadForPayment, LoadForOffline, LoadForCancel, Abort, OpenAccount, storeVars,
         channelVars
<1> QED BY <1>1, <1>2, <1>3, <1>4, <1>5 DEF checkoutVars, storeVars, channelVars

-----------------------------------------------------------------------------
(* The statuses and the books move together *)

LEMMA BookedInit == ASSUME CheckoutInit PROVE BookedOnSale
BY DEF CheckoutInit, StoreInit, BookedOnSale, BookedWhenSold, Phase

LEMMA BookedStep ==
    ASSUME Inv, Inv', BookedWhenSold, [CheckoutNext]_checkoutVars
    PROVE  /\ BookedWhenSold'
           /\ \A o \in Orders :
                 \/ status'[o] = status[o]
                 \/ status[o] = "pending_payment" /\ status'[o] \in {"paid", "cancelled"}
<1>1. status \in [Orders -> OrderStatus] /\ booked \in [Orders -> Nat]
  BY TypeUnfolded DEF Inv
<1>2. CASE UNCHANGED <<status, booked>>
  BY <1>2 DEF BookedWhenSold, Phase
<1>3. CASE \E o \in Orders : Sale(o)
  <2>1. PICK o \in Orders : Sale(o)
    BY <1>3
  <2>2. /\ status' = [status EXCEPT ![o] = "paid"]
        /\ booked' = IF Amount[o] > 0 THEN [booked EXCEPT ![o] = @ + 1] ELSE booked
        /\ status[o] = "pending_payment"
    BY <2>1 DEF Sale, SettleStatus, SettleBooking, Settleable
  <2>3. booked[o] = 0 /\ Amount[o] \in Nat
    BY <2>2, AmountAssumption DEF BookedWhenSold, Phase
  <2> QED BY <1>1, <2>2, <2>3 DEF BookedWhenSold, Phase
<1>4. CASE \E o \in Orders : Cancellation(o)
  BY <1>1, <1>4 DEF Cancellation, Settleable, BookedWhenSold, Phase
<1> QED BY <1>2, <1>3, <1>4, StepConcerns DEF Unseen, Concerns

\* What a buyer was charged and what the books say agree at every moment: an order
\* is in consume_records exactly once if it is paid and priced, and never otherwise.
THEOREM BooksAgree == CheckoutSpec => []BookedOnSale
<1>1. CheckoutInit => BookedOnSale
  BY BookedInit
<1>2. Inv /\ Inv' /\ BookedOnSale /\ [CheckoutNext]_checkoutVars => BookedOnSale'
  BY BookedStep DEF BookedOnSale
<1> QED BY <1>1, <1>2, Invariance, PTL DEF CheckoutSpec

-----------------------------------------------------------------------------
(* Every step of the cashier is a step of OrderBook *)

LEMMA RefinesInit == ASSUME CheckoutInit PROVE Book!BookInit
<1>1. \A o \in Orders : Phase(o) = "open"
  BY DEF CheckoutInit, StoreInit, Phase
<1>2. \A o \in Orders : ~Funded(o)
  <2>1. \A o \in Orders : PaidRows(o) = {}
    <3>1. ASSUME NEW o \in Orders PROVE PaidRows(o) = {}
      <4>1. attempts[o] = <<>>
        BY DEF CheckoutInit, StoreInit
      <4>2. Len(attempts[o]) = 0 /\ attempts[o] \in Seq(Attempt)
        BY <4>1
      <4>3. DOMAIN attempts[o] = {}
        BY <4>2
      <4> QED BY <4>3 DEF PaidRows
    <3> QED BY <3>1
  <2>2. reported = {}
    BY DEF CheckoutInit
  <2> QED BY <2>1, <2>2 DEF Funded
<1>3. booked = [o \in Orders |-> 0]
  BY DEF CheckoutInit, StoreInit
<1>4. [o \in Orders |-> Funded(o)] = [o \in Orders |-> FALSE]
  <2>1. \A o \in Orders : Funded(o) \in BOOLEAN
    BY DEF Funded
  <2>2. \A o \in Orders : Funded(o) = FALSE
    BY <1>2, <2>1
  <2> QED BY <2>2
<1> QED BY <1>1, <1>3, <1>4 DEF Book!BookInit

LEMMA RefinesStep ==
    ASSUME Inv, Inv', BookedWhenSold, [CheckoutNext]_checkoutVars
    PROVE  [Book!BookNext]_(Book!bookVars)
<1> DEFINE phase == [o \in Orders |-> Phase(o)]
           funded == [o \in Orders |-> Funded(o)]
<1>0. \A o \in Orders : Funded(o) \in BOOLEAN /\ Funded(o)' \in BOOLEAN
  BY DEF Funded
<1>1. ASSUME Unseen PROVE phase' = phase /\ funded' = funded /\ booked' = booked
  BY <1>1 DEF Unseen, Phase
<1>2. ASSUME NEW o \in Orders, Concerns(o), ~Funded(o)
      PROVE  funded' \in {funded, [funded EXCEPT ![o] = TRUE]}
  BY <1>0, <1>2 DEF Concerns
<1>3. ASSUME NEW o \in Orders, Concerns(o), Funded(o)
      PROVE  funded' = funded
  BY <1>0, <1>3 DEF Concerns
<1>4. ASSUME NEW o \in Orders, Concerns(o), UNCHANGED <<status, booked>>
      PROVE  [Book!BookNext]_(Book!bookVars)
  <2>1. phase' = phase /\ booked' = booked
    BY <1>4 DEF Phase
  <2>2. funded' = funded \/ funded' = [funded EXCEPT ![o] = TRUE]
    BY <1>2, <1>3, <1>4
  <2> QED BY <2>1, <2>2, <1>4 DEF Book!BookNext, Book!MoneyArrives, Book!bookVars
<1>5. ASSUME NEW o \in Orders, Concerns(o), Sale(o)
      PROVE  Book!BookNext
  <2>1. /\ status' = [status EXCEPT ![o] = "paid"]
        /\ booked' = IF Amount[o] > 0 THEN [booked EXCEPT ![o] = @ + 1] ELSE booked
        /\ status[o] = "pending_payment"
    BY <1>5 DEF Sale, SettleStatus, SettleBooking, Settleable
  <2>2. phase[o] = "open" /\ phase' = [phase EXCEPT ![o] = "sold"]
    BY <2>1, TypeUnfolded DEF Phase, Inv
  <2>3. funded' \in {funded, [funded EXCEPT ![o] = TRUE]}
    BY <1>2, <1>3, <1>5
  <2>4. Amount[o] > 0 => funded'[o]
    BY <1>5 DEF Sale
  <2>5. booked' = [booked EXCEPT ![o] = IF Amount[o] > 0 THEN 1 ELSE 0]
    <3>1. booked[o] = 0 /\ booked \in [Orders -> Nat]
      BY <2>1, TypeUnfolded DEF BookedWhenSold, Phase, Inv
    <3>2. CASE Amount[o] > 0
      <4>1. booked' = [booked EXCEPT ![o] = booked[o] + 1]
        BY <2>1, <3>2
      <4>2. booked[o] + 1 = 1
        BY <3>1
      <4> QED BY <3>2, <4>1, <4>2
    <3>3. CASE ~(Amount[o] > 0)
      <4>1. booked = [booked EXCEPT ![o] = 0]
        BY <3>1
      <4> QED BY <2>1, <3>3, <4>1
    <3> QED BY <3>2, <3>3
  <2>6. Book!Sell(o)
    BY <2>2, <2>3, <2>4, <2>5 DEF Book!Sell
  <2> QED BY <2>6 DEF Book!BookNext
<1>6. ASSUME NEW o \in Orders, Concerns(o), Cancellation(o)
      PROVE  Book!BookNext
  <2>1. phase[o] = "open" /\ phase' = [phase EXCEPT ![o] = "cancelled"]
    BY <1>6, TypeUnfolded DEF Phase, Inv, Cancellation, Settleable
  <2>2. funded' = funded /\ booked' = booked
    BY <1>6, <1>0 DEF Concerns, Cancellation
  <2>3. Book!Cancel(o)
    BY <2>1, <2>2 DEF Book!Cancel
  <2> QED BY <2>3 DEF Book!BookNext
<1>7. CASE Unseen
  BY <1>1, <1>7 DEF Book!bookVars
<1>8. ASSUME NEW o \in Orders, Concerns(o) PROVE [Book!BookNext]_(Book!bookVars)
  BY <1>4, <1>5, <1>6, <1>8 DEF Concerns
<1> QED BY <1>7, <1>8, StepConcerns

\* Whatever handlers, callbacks, cancellations and aborts race for an order, it is
\* sold once or cancelled once, its purchase is booked in the step that sells it, and
\* a priced order is never sold without money for it (settleCertOrderPaidTx).
THEOREM CashierImplementsOrderBook == CheckoutSpec => ImplementsOrderBook
<1>1. CheckoutInit => Book!BookInit
  BY RefinesInit
<1>2. /\ Inv /\ Inv' /\ BookedOnSale /\ [CheckoutNext]_checkoutVars
      => [Book!BookNext]_(Book!bookVars)
  BY RefinesStep DEF BookedOnSale
<1> QED BY <1>1, <1>2, Invariance, BooksAgree, PTL
        DEF CheckoutSpec, ImplementsOrderBook, Book!BookSpec
=============================================================================
