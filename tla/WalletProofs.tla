----------------------------- MODULE WalletProofs -----------------------------
(* Theorems about balances, for every number of users, recharge orders,      *)
(* redeem codes and concurrent requests, wherever a request is cut off.      *)
EXTENDS Wallet, SumLemmas, FiniteSetTheorems, TLAPS

\* Where Redeem holds the mutex, and where a request for a refund works on a paid order.
Redeeming == {"count", "insertUsage", "uncount", "credit"}
Refunding == {"countTickets", "insertTicket", "approve"}

Work == {Free} \cup OnRecharge \cup OnTicket \cup OnCode

HoldsMutex == \A d \in Desks : desk[d].pc \in Redeeming => mu = d

Credited(r) == recharge[r] \in {"paid", "refunded"}

\* Refunds are requested and decided for orders that were credited.
RefundsOfCredited ==
    /\ \A r \in Recharges : tickets[r] # <<>> => Credited(r)
    /\ \A d \in Desks : desk[d].pc \in Refunding => Credited(desk[d].recharge)

WInv == WalletTypeOK /\ HoldsMutex /\ RefundsOfCredited /\ RefundedIsTakenBack

-----------------------------------------------------------------------------
(* Desks *)

LEMMA KindOfWork ==
    ASSUME WalletTypeOK, NEW d \in Desks
    PROVE  /\ desk[d] \in Work
           /\ desk[d].pc \in {"openSession", "countTickets", "insertTicket"} => desk[d] \in OnRecharge
           /\ desk[d].pc = "approve" => desk[d] \in OnTicket
           /\ desk[d].pc \in Redeeming => desk[d] \in OnCode
           /\ desk[d].pc \in Refunding => desk[d].recharge \in Recharges
BY DEF WalletTypeOK, Work, Free, OnRecharge, OnTicket, OnCode, Redeeming, Refunding

LEMMA WorkGoesOn ==
    ASSUME WalletTypeOK, NEW d \in Desks, NEW pc, GoTo(d, pc),
           \/ desk[d] \in OnRecharge /\ pc \in {"openSession", "countTickets", "insertTicket"}
           \/ desk[d] \in OnCode /\ pc \in Redeeming
    PROVE  /\ desk' \in [Desks -> Work] /\ desk'[d].pc = pc
           /\ desk[d] \in OnRecharge => desk'[d].recharge = desk[d].recharge
           /\ desk[d] \in OnCode =>
                 desk'[d] \in OnCode /\ desk'[d].code = desk[d].code /\ desk'[d].user = desk[d].user
           /\ \A e \in Desks \ {d} : desk'[e] = desk[e]
<1> DEFINE k == [desk[d] EXCEPT !.pc = pc]
<1>1. desk' = [desk EXCEPT ![d] = k] /\ desk \in [Desks -> Work]
  BY DEF GoTo, WalletTypeOK, Work
<1>2. /\ desk[d] \in OnRecharge => k \in OnRecharge /\ k.recharge = desk[d].recharge
      /\ desk[d] \in OnCode => k \in OnCode /\ k.code = desk[d].code /\ k.user = desk[d].user
      /\ k.pc = pc
  BY DEF OnRecharge, OnCode, Redeeming
<1> HIDE DEF k
<1>3. k \in Work
  BY <1>2 DEF Work
<1> QED BY <1>1, <1>2, <1>3

LEMMA WorkBegins ==
    ASSUME WalletTypeOK, NEW d \in Desks, NEW w \in Work, Begin(d, w)
    PROVE  /\ desk' \in [Desks -> Work] /\ desk'[d] = w /\ desk[d].pc = "idle"
           /\ \A e \in Desks \ {d} : desk'[e] = desk[e]
BY DEF WalletTypeOK, Work, Begin, Free

LEMMA WorkEnds ==
    ASSUME WalletTypeOK, NEW d \in Desks, Return(d)
    PROVE  /\ desk' \in [Desks -> Work] /\ desk'[d].pc = "idle"
           /\ \A e \in Desks \ {d} : desk'[e] = desk[e]
BY DEF WalletTypeOK, Work, Return, Free

\* Types of what a step leaves alone.
LEMMA TypesKept ==
    ASSUME WalletTypeOK,
           recharge' \in [Recharges -> RechargeStatus],
           overdue' \subseteq Recharges, sessions' \subseteq Recharges, captured' \subseteq Recharges,
           tickets' \in [Recharges -> Seq(TicketState)],
           accounts' \subseteq Users, available' \in [Users -> Nat],
           totalRecharge' \in [Users -> Int],
           spent' \in [Users -> Nat], returned' \in [Users -> Nat],
           used' \in [Codes -> Nat], usages' \subseteq Codes \X Users,
           mu' \in Desks \cup {NoDesk}, desk' \in [Desks -> Work], disturbed' \in BOOLEAN
    PROVE  WalletTypeOK'
BY DEF WalletTypeOK, Work

\* Orders, tickets and the work of a desk change.
LEMMA ControlKept ==
    ASSUME WInv, WalletTypeOK',
           \A r \in Recharges :
              /\ Credited(r) => Credited(r)'
              /\ tickets'[r] = tickets[r] \/ Credited(r)
              /\ \/ /\ recharge'[r] = "refunded" <=> recharge[r] = "refunded"
                    /\ TicketsIn(r, {"paid"})' = TicketsIn(r, {"paid"})
                 \/ recharge'[r] = "refunded" /\ TicketsIn(r, {"paid"})' # {},
           \A d \in Desks : \/ desk'[d] = desk[d]
                            \/ /\ desk'[d].pc \in Redeeming => mu' = d
                               /\ desk'[d].pc \in Refunding => Credited(desk'[d].recharge),
           mu' = mu \/ \A d \in Desks : desk'[d].pc \in Redeeming => mu' = d
    PROVE  WInv'
<1>1. HoldsMutex'
  BY DEF WInv, HoldsMutex
<1>2. \A d \in Desks : desk'[d].pc \in Refunding => desk'[d].recharge \in Recharges
  <2>1. desk' \in [Desks -> Work]
    BY DEF WalletTypeOK, Work
  <2>2. \A w \in Work : w.pc \in Refunding => w.recharge \in Recharges
    BY DEF Work, Free, OnRecharge, OnTicket, OnCode, Refunding
  <2> QED BY <2>1, <2>2
<1>3. RefundsOfCredited'
  <2>1. \A r \in Recharges : tickets'[r] # <<>> => Credited(r)'
    BY DEF WInv, RefundsOfCredited
  <2>2. ASSUME NEW d \in Desks, desk'[d].pc \in Refunding PROVE Credited(desk[d].recharge)'
    <3>1. Credited(desk'[d].recharge)
      BY <2>2 DEF WInv, RefundsOfCredited
    <3> QED BY <1>2, <2>2, <3>1
  <2> QED BY <2>1, <2>2 DEF RefundsOfCredited, Credited
<1>4. RefundedIsTakenBack'
  BY DEF WInv, RefundedIsTakenBack
<1> QED BY <1>1, <1>3, <1>4 DEF WInv

\* A desk goes on, and orders and tickets stay.
LEMMA DeskKept ==
    ASSUME WInv, WalletTypeOK', UNCHANGED <<recharge, tickets>>, NEW d \in Desks,
           \A e \in Desks \ {d} : desk'[e] = desk[e],
           desk'[d].pc \in Redeeming => mu' = d,
           desk'[d].pc \in Refunding => Credited(desk'[d].recharge),
           mu' = mu \/ mu = d \/ mu = NoDesk
    PROVE  WInv'
<1>1. \A r \in Recharges : /\ Credited(r)' <=> Credited(r)
                           /\ TicketsIn(r, {"paid"})' = TicketsIn(r, {"paid"})
  BY DEF Credited, TicketsIn
<1>2. mu' = mu \/ \A e \in Desks : desk'[e].pc \in Redeeming => mu' = e
  BY WalletAssumption DEF WInv, HoldsMutex
<1> QED BY <1>1, <1>2, ControlKept

-----------------------------------------------------------------------------
(* What steps do to orders, tickets, desks and the mutex *)

LEMMA CreditTypes ==
    ASSUME WalletTypeOK, NEW u \in Users, NEW cents \in Nat, Credit(u, cents)
    PROVE  accounts' \subseteq Users /\ available' \in [Users -> Nat] /\ totalRecharge' \in [Users -> Int]
BY DEF WalletTypeOK, Credit

LEMMA RechargeControl ==
    ASSUME WInv,
           \/ \E d \in Desks : OpenSession(d) \/ \E r \in Recharges : InsertRecharge(d, r)
           \/ \E r \in Recharges : Expire(r) \/ UserPays(r) \/ HandleRechargeCallback(r)
           \/ CloseExpiredOrders
    PROVE  WInv'
<1> USE DEF balanceVars, codeVars
<1>1. WalletTypeOK
  BY DEF WInv
<1>2. \A r \in Recharges : tickets' = tickets => TicketsIn(r, {"paid"})' = TicketsIn(r, {"paid"})
  BY DEF TicketsIn
<1>3. ASSUME NEW d \in Desks, NEW r \in Recharges, InsertRecharge(d, r) PROVE WInv'
  <2> DEFINE w == [pc |-> "openSession", recharge |-> r]
  <2>1. w \in Work /\ w.pc = "openSession"
    BY DEF Work, OnRecharge
  <2>2. Begin(d, w)
    BY <1>3 DEF InsertRecharge
  <2> HIDE DEF w
  <2>3. /\ desk' \in [Desks -> Work] /\ desk'[d] = w
        /\ \A e \in Desks \ {d} : desk'[e] = desk[e]
    BY <1>1, <2>1, <2>2, WorkBegins
  <2>4. WalletTypeOK'
    BY <1>1, <1>3, <2>3 DEF InsertRecharge, WalletTypeOK, Work, RechargeStatus
  <2>5. \A q \in Recharges : /\ Credited(q) => Credited(q)'
                             /\ recharge'[q] = "refunded" <=> recharge[q] = "refunded"
    BY <1>1, <1>3 DEF InsertRecharge, WalletTypeOK, Credited
  <2>6. desk'[d].pc \notin Redeeming \cup Refunding /\ mu' = mu /\ tickets' = tickets
    BY <1>3, <2>1, <2>3 DEF InsertRecharge, Redeeming, Refunding
  <2> QED BY <1>2, <2>3, <2>4, <2>5, <2>6, ControlKept
<1>4. ASSUME NEW d \in Desks, OpenSession(d) PROVE WInv'
  <2>1. /\ desk' \in [Desks -> Work] /\ desk'[d].pc = "idle"
        /\ \A e \in Desks \ {d} : desk'[e] = desk[e]
    BY <1>1, <1>4, WorkEnds DEF OpenSession
  <2>2. desk[d].recharge \in Recharges
    BY <1>1, <1>4, KindOfWork DEF OpenSession, OnRecharge
  <2>3. WalletTypeOK'
    BY <1>1, <1>4, <2>1, <2>2 DEF OpenSession, WalletTypeOK, Work
  <2> QED BY <1>4, <2>1, <2>3, DeskKept DEF OpenSession, Redeeming, Refunding
<1>5. ASSUME NEW r \in Recharges, Expire(r) \/ UserPays(r) PROVE WInv'
  <2>1. UNCHANGED <<recharge, tickets, desk, mu>>
    BY <1>5 DEF Expire, UserPays
  <2>2. WalletTypeOK'
    BY <1>1, <1>5 DEF Expire, UserPays, WalletTypeOK
  <2>3. \A q \in Recharges : Credited(q)' <=> Credited(q)
    BY <2>1 DEF Credited
  <2> QED BY <1>2, <2>1, <2>2, <2>3, ControlKept
<1>6. ASSUME NEW r \in Recharges, HandleRechargeCallback(r) PROVE WInv'
  <2>1. /\ recharge[r] = "pending" /\ recharge' = [recharge EXCEPT ![r] = "paid"]
        /\ Credit(Payer[r], Amount[r])
        /\ UNCHANGED <<overdue, sessions, captured, tickets, spent, returned, codeVars, desk,
                       disturbed>>
    BY <1>6 DEF HandleRechargeCallback
  <2>2. accounts' \subseteq Users /\ available' \in [Users -> Nat] /\ totalRecharge' \in [Users -> Int]
    BY <1>1, <2>1, CreditTypes, WalletAssumption
  <2>3. WalletTypeOK'
    BY <1>1, <2>1, <2>2 DEF WalletTypeOK, RechargeStatus
  <2>4. \A q \in Recharges : /\ Credited(q) => Credited(q)'
                             /\ recharge'[q] = "refunded" <=> recharge[q] = "refunded"
    BY <1>1, <2>1 DEF WalletTypeOK, Credited
  <2> QED BY <1>2, <2>1, <2>3, <2>4, ControlKept
<1>7. CASE CloseExpiredOrders
  <2>1. UNCHANGED <<overdue, sessions, captured, tickets, balanceVars, codeVars, desk, disturbed>>
    BY <1>7 DEF CloseExpiredOrders
  <2>2. recharge' \in [Recharges -> RechargeStatus]
    BY <1>1, <1>7 DEF CloseExpiredOrders, WalletTypeOK, RechargeStatus
  <2>3. WalletTypeOK'
    BY <1>1, <2>1, <2>2 DEF WalletTypeOK
  <2>4. \A q \in Recharges : /\ Credited(q) => Credited(q)'
                             /\ recharge'[q] = "refunded" <=> recharge[q] = "refunded"
    BY <1>7 DEF CloseExpiredOrders, Credited
  <2> QED BY <1>2, <2>1, <2>3, <2>4, ControlKept
<1> QED BY <1>3, <1>4, <1>5, <1>6, <1>7

\* A ticket that is added, or rejected, is not paid.
LEMMA PaidTicketsKept ==
    ASSUME WalletTypeOK,
           \/ \E d \in Desks : InsertTicket(d)
           \/ \E r \in Recharges : \E i \in DOMAIN tickets[r] : RejectRefund(r, i),
           NEW q \in Recharges
    PROVE  TicketsIn(q, {"paid"})' = TicketsIn(q, {"paid"})
<1>1. tickets[q] \in Seq(TicketState) /\ DOMAIN tickets[q] = 1 .. Len(tickets[q]) /\ Len(tickets[q]) \in Nat
  BY DEF WalletTypeOK
<1>2. ASSUME NEW d \in Desks, InsertTicket(d)
      PROVE  \A i : i \in TicketsIn(q, {"paid"})' <=> i \in TicketsIn(q, {"paid"})
  <2>1. tickets'[q] = tickets[q] \/ tickets'[q] = Append(tickets[q], "pending")
    BY <1>2 DEF InsertTicket, WalletTypeOK
  <2>2. CASE tickets'[q] = Append(tickets[q], "pending")
    <3>1. /\ DOMAIN tickets'[q] = 1 .. Len(tickets[q]) + 1
          /\ \A i \in 1 .. Len(tickets[q]) : tickets'[q][i] = tickets[q][i]
          /\ tickets'[q][Len(tickets[q]) + 1] = "pending"
      BY <1>1, <2>2
    <3> QED BY <1>1, <3>1 DEF TicketsIn
  <2>3. CASE tickets'[q] = tickets[q]
    BY <2>3 DEF TicketsIn
  <2> QED BY <2>1, <2>2, <2>3
<1>3. ASSUME NEW r \in Recharges, NEW i \in DOMAIN tickets[r], RejectRefund(r, i)
      PROVE  \A j : j \in TicketsIn(q, {"paid"})' <=> j \in TicketsIn(q, {"paid"})
  <2>1. tickets[r][i] = "pending"
    BY <1>3 DEF RejectRefund, TicketsIn
  <2>2. tickets'[q] = IF q = r THEN [tickets[q] EXCEPT ![i] = "failed"] ELSE tickets[q]
    BY <1>3 DEF RejectRefund, WalletTypeOK
  <2> QED BY <1>1, <2>1, <2>2 DEF TicketsIn
<1> QED BY <1>2, <1>3

\* Approving a ticket of an order that was credited refunds the order.
LEMMA RefundControl ==
    ASSUME WInv,
           \/ \E d \in Desks : CountTickets(d) \/ InsertTicket(d) \/ ApproveRechargeRefund(d)
           \/ \E d \in Desks, r \in Recharges :
                 LoadForRefund(d, r) \/ \E i \in DOMAIN tickets[r] : LoadForApprove(d, r, i)
           \/ \E r \in Recharges : \E i \in DOMAIN tickets[r] : RejectRefund(r, i)
    PROVE  WInv'
<1> USE DEF orderVars, balanceVars, codeVars
<1>1. WalletTypeOK /\ RefundsOfCredited
  BY DEF WInv
<1>2. \A r \in Recharges : /\ tickets[r] \in Seq(TicketState) /\ DOMAIN tickets[r] = 1 .. Len(tickets[r])
                           /\ Len(tickets[r]) \in Nat
  BY <1>1 DEF WalletTypeOK
<1>3. \A r \in Recharges : tickets'[r] = tickets[r] => TicketsIn(r, {"paid"})' = TicketsIn(r, {"paid"})
  BY DEF TicketsIn
<1>4. ASSUME NEW d \in Desks, NEW r \in Recharges, LoadForRefund(d, r) PROVE WInv'
  <2> DEFINE w == [pc |-> "countTickets", recharge |-> r]
  <2>1. w \in Work /\ w.pc = "countTickets" /\ w.recharge = r
    BY DEF Work, OnRecharge
  <2>2. Begin(d, w)
    BY <1>4 DEF LoadForRefund
  <2> HIDE DEF w
  <2>3. /\ desk' \in [Desks -> Work] /\ desk'[d] = w
        /\ \A e \in Desks \ {d} : desk'[e] = desk[e]
    BY <1>1, <2>1, <2>2, WorkBegins
  <2>4. WalletTypeOK'
    BY <1>1, <1>4, <2>3 DEF LoadForRefund, WalletTypeOK, Work
  <2> QED BY <1>4, <2>1, <2>3, <2>4, DeskKept DEF LoadForRefund, Redeeming, Credited
<1>5. ASSUME NEW d \in Desks, NEW r \in Recharges, NEW i \in DOMAIN tickets[r], LoadForApprove(d, r, i)
      PROVE  WInv'
  <2> DEFINE w == [pc |-> "approve", recharge |-> r, ticket |-> i]
  <2>1. w \in Work /\ w.pc = "approve" /\ w.recharge = r
    BY <1>2 DEF Work, OnTicket
  <2>2. Begin(d, w)
    BY <1>5 DEF LoadForApprove
  <2> HIDE DEF w
  <2>3. /\ desk' \in [Desks -> Work] /\ desk'[d] = w
        /\ \A e \in Desks \ {d} : desk'[e] = desk[e]
    BY <1>1, <2>1, <2>2, WorkBegins
  <2>4. WalletTypeOK'
    BY <1>1, <1>5, <2>3 DEF LoadForApprove, WalletTypeOK, Work
  <2>5. Credited(r)
    <3>1. tickets[r] # <<>>
      BY <1>2, <1>5
    <3> QED BY <1>1, <3>1 DEF RefundsOfCredited
  <2> QED BY <1>5, <2>1, <2>3, <2>4, <2>5, DeskKept DEF LoadForApprove, Redeeming
<1>6. ASSUME NEW d \in Desks, CountTickets(d) PROVE WInv'
  <2>1. desk[d] \in OnRecharge /\ Credited(desk[d].recharge)
    BY <1>1, <1>6, KindOfWork DEF CountTickets, RefundsOfCredited, Refunding
  <2>2. /\ desk' \in [Desks -> Work] /\ \A e \in Desks \ {d} : desk'[e] = desk[e]
        /\ desk'[d].pc \in {"insertTicket", "idle"}
        /\ desk'[d].pc = "insertTicket" => desk'[d].recharge = desk[d].recharge
    <3>1. CASE GoTo(d, "insertTicket")
      BY <1>1, <2>1, <3>1, WorkGoesOn
    <3>2. CASE Return(d)
      BY <1>1, <3>2, WorkEnds
    <3> QED BY <1>6, <3>1, <3>2 DEF CountTickets
  <2>3. WalletTypeOK'
    BY <1>1, <1>6, <2>2 DEF CountTickets, WalletTypeOK, Work
  <2> QED BY <1>6, <2>1, <2>2, <2>3, DeskKept DEF CountTickets, Redeeming, Refunding
<1>7. ASSUME NEW d \in Desks, InsertTicket(d) PROVE WInv'
  <2>1. PICK r \in Recharges : r = desk[d].recharge /\ Credited(r)
    BY <1>1, <1>7, KindOfWork DEF InsertTicket, RefundsOfCredited, Refunding
  <2>2. /\ desk' \in [Desks -> Work] /\ desk'[d].pc = "idle"
        /\ \A e \in Desks \ {d} : desk'[e] = desk[e]
    BY <1>1, <1>7, WorkEnds DEF InsertTicket
  <2>3. /\ tickets'[r] = Append(tickets[r], "pending") /\ tickets' \in [Recharges -> Seq(TicketState)]
        /\ \A q \in Recharges \ {r} : tickets'[q] = tickets[q]
    BY <1>1, <1>7, <2>1 DEF InsertTicket, WalletTypeOK, TicketState
  <2>4. TicketsIn(r, {"paid"})' = TicketsIn(r, {"paid"})
    BY <1>1, <1>7, PaidTicketsKept
  <2>5. WalletTypeOK'
    BY <1>1, <1>7, <2>2, <2>3 DEF InsertTicket, WalletTypeOK, Work
  <2>6. recharge' = recharge /\ mu' = mu
    BY <1>7 DEF InsertTicket
  <2>7. \A q \in Recharges : Credited(q)' <=> Credited(q)
    BY <2>6 DEF Credited
  <2>8. \A q \in Recharges : /\ tickets'[q] = tickets[q] \/ Credited(q)
                             /\ TicketsIn(q, {"paid"})' = TicketsIn(q, {"paid"})
    BY <1>3, <2>1, <2>3, <2>4
  <2> QED BY <2>2, <2>5, <2>6, <2>7, <2>8, ControlKept DEF Redeeming, Refunding
<1>8. ASSUME NEW d \in Desks, ApproveRechargeRefund(d) PROVE WInv'
  <2>1. PICK r \in Recharges, i \in Nat, u \in Users :
            r = desk[d].recharge /\ i = desk[d].ticket /\ u = Payer[r] /\ Amount[r] \in Nat
    BY <1>1, <1>8, KindOfWork, WalletAssumption DEF ApproveRechargeRefund, Refunding, OnTicket
  <2>2. /\ desk' \in [Desks -> Work] /\ desk'[d].pc = "idle"
        /\ \A e \in Desks \ {d} : desk'[e] = desk[e]
    BY <1>1, <1>8, WorkEnds DEF ApproveRechargeRefund
  <2>3. UNCHANGED <<overdue, sessions, captured, accounts, spent, returned, codeVars, disturbed>>
    BY <1>8 DEF ApproveRechargeRefund
  <2>4. CASE i \in TicketsIn(r, {"pending"}) /\ u \in accounts /\ available[u] >= Amount[r]
    <3>1. /\ tickets' = [tickets EXCEPT ![r][i] = "paid"]
          /\ recharge' = [recharge EXCEPT ![r] = "refunded"]
          /\ available' = [available EXCEPT ![u] = @ - Amount[r]]
          /\ totalRecharge' = [totalRecharge EXCEPT ![u] = @ - Amount[r]]
      BY <1>8, <2>1, <2>4 DEF ApproveRechargeRefund
    <3>2. i \in DOMAIN tickets[r] /\ tickets[r] # <<>>
      BY <1>2, <2>1, <2>4 DEF TicketsIn
    <3>3. Credited(r)
      BY <1>1, <2>1, <3>2 DEF RefundsOfCredited
    <3>4. /\ tickets'[r] = [tickets[r] EXCEPT ![i] = "paid"]
          /\ \A q \in Recharges \ {r} : tickets'[q] = tickets[q]
          /\ tickets' \in [Recharges -> Seq(TicketState)]
      <4>1. [tickets[r] EXCEPT ![i] = "paid"] \in Seq(TicketState)
        BY <1>2, <2>1, <3>2 DEF TicketState
      <4> QED BY <1>1, <2>1, <3>1, <4>1 DEF WalletTypeOK
    <3>5. i \in TicketsIn(r, {"paid"})'
      BY <3>2, <3>4 DEF TicketsIn
    <3>6. WalletTypeOK'
      <4>1. available' \in [Users -> Nat] /\ totalRecharge' \in [Users -> Int]
        BY <1>1, <2>1, <2>4, <3>1 DEF WalletTypeOK
      <4>2. recharge' \in [Recharges -> RechargeStatus]
        BY <1>1, <2>1, <3>1 DEF WalletTypeOK, RechargeStatus
      <4> QED BY <1>1, <2>2, <2>3, <3>4, <4>1, <4>2 DEF WalletTypeOK, Work
    <3>7. \A q \in Recharges : /\ Credited(q) => Credited(q)'
                               /\ q # r => recharge'[q] = recharge[q]
                               /\ q = r => recharge'[q] = "refunded"
      BY <1>1, <3>1 DEF WalletTypeOK, Credited
    <3>8. \A q \in Recharges :
             /\ Credited(q) => Credited(q)'
             /\ tickets'[q] = tickets[q] \/ Credited(q)
             /\ \/ /\ recharge'[q] = "refunded" <=> recharge[q] = "refunded"
                   /\ TicketsIn(q, {"paid"})' = TicketsIn(q, {"paid"})
                \/ recharge'[q] = "refunded" /\ TicketsIn(q, {"paid"})' # {}
      BY <1>3, <3>3, <3>4, <3>5, <3>7
    <3> QED BY <2>2, <2>3, <3>6, <3>8, ControlKept DEF Redeeming, Refunding
  <2>5. CASE ~(i \in TicketsIn(r, {"pending"}) /\ u \in accounts /\ available[u] >= Amount[r])
    <3>1. UNCHANGED <<tickets, recharge, available, totalRecharge>>
      BY <1>8, <2>1, <2>5 DEF ApproveRechargeRefund
    <3>2. WalletTypeOK'
      BY <1>1, <2>2, <2>3, <3>1 DEF WalletTypeOK, Work
    <3> QED BY <2>2, <2>3, <3>1, <3>2, DeskKept DEF Redeeming, Refunding
  <2> QED BY <2>4, <2>5
<1>9. ASSUME NEW r \in Recharges, NEW i \in DOMAIN tickets[r], RejectRefund(r, i) PROVE WInv'
  <2>1. /\ tickets' = [tickets EXCEPT ![r][i] = "failed"] /\ tickets[r][i] = "pending"
        /\ UNCHANGED <<recharge, overdue, sessions, captured, balanceVars, codeVars, desk, disturbed>>
    BY <1>9 DEF RejectRefund, TicketsIn
  <2>2. /\ tickets'[r] = [tickets[r] EXCEPT ![i] = "failed"]
        /\ \A q \in Recharges \ {r} : tickets'[q] = tickets[q]
        /\ tickets' \in [Recharges -> Seq(TicketState)]
    <3>1. [tickets[r] EXCEPT ![i] = "failed"] \in Seq(TicketState)
      BY <1>2 DEF TicketState
    <3> QED BY <1>1, <2>1, <3>1 DEF WalletTypeOK
  <2>3. WalletTypeOK'
    BY <1>1, <2>1, <2>2 DEF WalletTypeOK
  <2>4. TicketsIn(r, {"paid"})' = TicketsIn(r, {"paid"})
    BY <1>1, <1>9, PaidTicketsKept
  <2>5. Credited(r)
    <3>1. tickets[r] # <<>>
      BY <1>2
    <3> QED BY <1>1, <3>1 DEF RefundsOfCredited
  <2>6. \A q \in Recharges : Credited(q)' <=> Credited(q)
    BY <2>1 DEF Credited
  <2>7. \A q \in Recharges : /\ tickets'[q] = tickets[q] \/ Credited(q)
                             /\ TicketsIn(q, {"paid"})' = TicketsIn(q, {"paid"})
    BY <1>3, <2>2, <2>4, <2>5
  <2> QED BY <2>1, <2>3, <2>6, <2>7, ControlKept
<1> QED BY <1>4, <1>5, <1>6, <1>7, <1>8, <1>9

-----------------------------------------------------------------------------
(* Money *)

\* What the desk that holds the mutex has recorded and not credited yet, and a use it has
\* counted and not recorded.
Owed(u) ==
    IF mu # NoDesk /\ desk[mu].pc = "credit" /\ desk[mu].user = u
    THEN CodeValue[desk[mu].code] ELSE 0

OnTheWay(c) ==
    IF mu # NoDesk /\ desk[mu].pc \in {"insertUsage", "uncount"} /\ desk[mu].code = c
    THEN 1 ELSE 0

TotalsExplained ==
    \A u \in Users :
        /\ Recharged(u) <= totalRecharge[u]
        /\ totalRecharge[u] + Owed(u) <= Recharged(u) + Redeemed(u)
        /\ ~disturbed => totalRecharge[u] + Owed(u) = Recharged(u) + Redeemed(u)

UsesCounted ==
    \A c \in Codes : used[c] <= MaxUses[c] /\ Cardinality(Redeemers(c)) + OnTheWay(c) <= used[c]

MInv == BalanceAddsUp /\ TotalsExplained /\ UsesCounted

LEMMA MoneyTypes ==
    ASSUME WalletTypeOK
    PROVE  /\ Brought \in [Recharges -> Int]
           /\ \A u \in Users : Recharged(u) \in Int /\ Redeemed(u) \in Nat /\ Owed(u) \in Nat
           /\ \A c \in Codes : /\ IsFiniteSet(Redeemers(c)) /\ Cardinality(Redeemers(c)) \in Nat
                               /\ OnTheWay(c) \in {0, 1}
<1>1. \A r \in Recharges : Amount[r] \in Nat /\ Cardinality(TicketsIn(r, {"paid"})) \in Nat
  <2>1. ASSUME NEW r \in Recharges PROVE Cardinality(TicketsIn(r, {"paid"})) \in Nat
    <3>1. DOMAIN tickets[r] = 1 .. Len(tickets[r]) /\ Len(tickets[r]) \in Nat
      BY DEF WalletTypeOK
    <3>2. IsFiniteSet(1 .. Len(tickets[r])) /\ TicketsIn(r, {"paid"}) \subseteq 1 .. Len(tickets[r])
      BY <3>1, UpToIsFinite DEF TicketsIn
    <3> QED BY <3>2, FS_Subset, FS_CardinalityType
  <2> QED BY <2>1, WalletAssumption
<1>2. Brought \in [Recharges -> Int]
  <2>1. \A a, n \in Nat : a * n \in Nat
    OBVIOUS
  <2>2. \A r \in Recharges : Amount[r] * Cardinality(TicketsIn(r, {"paid"})) \in Nat
    BY <1>1, <2>1
  <2>3. \A r \in Recharges : Brought[r] \in Int
    BY <1>1, <2>2 DEF Brought
  <2> QED BY <2>3 DEF Brought
<1>3. ASSUME NEW u \in Users PROVE Recharged(u) \in Int /\ Redeemed(u) \in Nat
  <2>1. IsFiniteSet({r \in Recharges : Payer[r] = u}) /\ IsFiniteSet({c \in Codes : <<c, u>> \in usages})
    <3>1. {r \in Recharges : Payer[r] = u} \subseteq Recharges
          /\ {c \in Codes : <<c, u>> \in usages} \subseteq Codes
      OBVIOUS
    <3> QED BY <3>1, WalletAssumption, FS_Subset
  <2>2. \A r \in {r \in Recharges : Payer[r] = u} : Brought[r] \in Int
    BY <1>2
  <2>3. \A c \in {c \in Codes : <<c, u>> \in usages} : CodeValue[c] \in Nat
    BY WalletAssumption
  <2>4. SumFunctionOnSet(Brought, {r \in Recharges : Payer[r] = u}) \in Int
    BY <2>1, <2>2, SumType
  <2>5. SumFunctionOnSet(CodeValue, {c \in Codes : <<c, u>> \in usages}) \in Nat
    BY <2>1, <2>3, SumType
  <2> QED BY <2>4, <2>5 DEF Recharged, Redeemed
<1>4. \A u : Owed(u) \in Nat
  BY KindOfWork, WalletAssumption DEF Owed, Redeeming, OnCode, WalletTypeOK
<1>5. ASSUME NEW c \in Codes
      PROVE  IsFiniteSet(Redeemers(c)) /\ Cardinality(Redeemers(c)) \in Nat /\ OnTheWay(c) \in {0, 1}
  <2>1. Redeemers(c) \subseteq Users
    BY DEF Redeemers
  <2> QED BY <2>1, WalletAssumption, FS_Subset, FS_CardinalityType DEF OnTheWay
<1> QED BY <1>2, <1>3, <1>4, <1>5

\* A recharge brings in more or less.
LEMMA RechargedChanges ==
    ASSUME WalletTypeOK, WalletTypeOK', NEW r \in Recharges, NEW cents \in Int,
           Brought'[r] = Brought[r] + cents,
           \A q \in Recharges \ {r} : Brought'[q] = Brought[q],
           NEW u \in Users
    PROVE  Recharged(u)' = Recharged(u) + (IF Payer[r] = u THEN cents ELSE 0)
<1> DEFINE S == {q \in Recharges : Payer[q] = u}
<1>1. PICK f, g : f = Brought /\ g = Brought'
  OBVIOUS
<1>2. IsFiniteSet(S) /\ \A q \in S : f[q] \in Int /\ g[q] \in Int
  <2>1. S \subseteq Recharges
    OBVIOUS
  <2>2. Brought \in [Recharges -> Int]
    BY MoneyTypes
  <2>3. \A q \in Recharges : f[q] \in Int
    BY <1>1, <2>2
  <2>4. \A q \in Recharges : g[q] \in Int
    BY <1>1, <2>3
  <2> QED BY <2>1, <2>3, <2>4, WalletAssumption, FS_Subset
<1>3. CASE Payer[r] = u
  <2>1. SumFunctionOnSet(g, S) = SumFunctionOnSet(f, S) + (g[r] - f[r])
    BY <1>1, <1>2, <1>3, SumChanges
  <2>2. g[r] - f[r] = cents
    BY <1>1, <1>2, <1>3
  <2> QED BY <1>1, <1>3, <2>1, <2>2 DEF Recharged
<1>4. CASE Payer[r] # u
  <2>1. SumFunctionOnSet(f, S) = SumFunctionOnSet(g, S)
    BY <1>1, <1>2, <1>4, SumOfSame
  <2>2. Recharged(u) \in Int
    BY MoneyTypes
  <2> QED BY <1>1, <1>4, <2>1, <2>2 DEF Recharged
<1> QED BY <1>3, <1>4

\* A code is redeemed.
LEMMA RedeemedChanges ==
    ASSUME WalletTypeOK, NEW c \in Codes, NEW v \in Users, <<c, v>> \notin usages,
           usages' = usages \cup {<<c, v>>}
    PROVE  /\ \A u \in Users : Redeemed(u)' = Redeemed(u) + (IF u = v THEN CodeValue[c] ELSE 0)
           /\ \A b \in Codes : Cardinality(Redeemers(b)') =
                                  Cardinality(Redeemers(b)) + (IF b = c THEN 1 ELSE 0)
<1>1. ASSUME NEW u \in Users
      PROVE  Redeemed(u)' = Redeemed(u) + (IF u = v THEN CodeValue[c] ELSE 0)
  <2>1. PICK S, T : /\ S = {b \in Codes : <<b, u>> \in usages}
                    /\ T = {b \in Codes : <<b, u>> \in usages'}
    OBVIOUS
  <2>2. Redeemed(u) = SumFunctionOnSet(CodeValue, S) /\ Redeemed(u)' = SumFunctionOnSet(CodeValue, T)
    BY <2>1, Zenon DEF Redeemed
  <2>3. IsFiniteSet(S) /\ S \subseteq Codes
    <3>1. S \subseteq Codes
      BY <2>1
    <3> QED BY <3>1, WalletAssumption, FS_Subset
  <2>4. \A b \in Codes : CodeValue[b] \in Int
    BY WalletAssumption
  <2>5. SumFunctionOnSet(CodeValue, S) \in Int
    BY <2>3, <2>4, SumType
  <2>6. CASE u = v
    <3>1. T = S \cup {c} /\ c \notin S
      BY <2>1, <2>6
    <3>2. SumFunctionOnSet(CodeValue, S \cup {c}) = CodeValue[c] + SumFunctionOnSet(CodeValue, S)
      BY <2>3, <2>4, <3>1, SumWith
    <3> QED BY <2>2, <2>4, <2>5, <2>6, <3>1, <3>2
  <2>7. CASE u # v
    <3>1. T = S
      BY <2>1, <2>7
    <3> QED BY <2>2, <2>5, <2>7, <3>1
  <2> QED BY <2>6, <2>7
<1>2. ASSUME NEW b \in Codes
      PROVE  Cardinality(Redeemers(b)') = Cardinality(Redeemers(b)) + (IF b = c THEN 1 ELSE 0)
  <2>1. IsFiniteSet(Redeemers(b)) /\ Cardinality(Redeemers(b)) \in Nat
    BY MoneyTypes
  <2>2. CASE b = c
    <3>1. Redeemers(b)' = Redeemers(b) \cup {v} /\ v \notin Redeemers(b)
      BY <2>2 DEF Redeemers
    <3> QED BY <2>1, <2>2, <3>1, FS_AddElement
  <2>3. CASE b # c
    <3>1. Redeemers(b)' = Redeemers(b)
      BY <2>3 DEF Redeemers
    <3> QED BY <2>1, <2>3, <3>1
  <2> QED BY <2>2, <2>3
<1> QED BY <1>1, <1>2

-----------------------------------------------------------------------------
(* What steps do to the money *)

LEMMA BroughtStays ==
    ASSUME NEW r \in Recharges, Credited(r)' <=> Credited(r),
           TicketsIn(r, {"paid"})' = TicketsIn(r, {"paid"})
    PROVE  Brought'[r] = Brought[r]
BY DEF Brought, Credited

\* A step that changes no balance, no code and nothing of the redemption under way.
LEMMA QuietMoney ==
    ASSUME WInv, MInv, UNCHANGED <<available, totalRecharge, spent, returned, used, usages, disturbed>>,
           \A r \in Recharges : Brought'[r] = Brought[r],
           \A u \in Users : Owed(u)' = Owed(u), \A c \in Codes : OnTheWay(c)' = OnTheWay(c)
    PROVE  MInv'
<1>1. Brought' = Brought
  BY DEF Brought
<1>2. \A u \in Users : Recharged(u)' = Recharged(u) /\ Redeemed(u)' = Redeemed(u)
  BY <1>1 DEF Recharged, Redeemed
<1>3. \A c \in Codes : Redeemers(c)' = Redeemers(c)
  BY DEF Redeemers
<1>4. BalanceAddsUp'
  BY DEF MInv, BalanceAddsUp
<1>5. TotalsExplained'
  BY <1>2 DEF MInv, TotalsExplained
<1>6. UsesCounted'
  BY <1>3 DEF MInv, UsesCounted
<1> QED BY <1>4, <1>5, <1>6 DEF MInv

\* Whoever does not redeem a code leaves the redemption under way alone.
LEMMA RedemptionStays ==
    ASSUME WalletTypeOK, mu' = mu, NEW d \in Desks, \A e \in Desks \ {d} : desk'[e] = desk[e],
           desk[d].pc \notin Redeeming, desk'[d].pc \notin Redeeming
    PROVE  (\A u : Owed(u)' = Owed(u)) /\ (\A c : OnTheWay(c)' = OnTheWay(c))
BY DEF WalletTypeOK, Owed, OnTheWay, Redeeming

LEMMA QuietMoneySteps ==
    ASSUME WInv, MInv,
           \/ \E d \in Desks : OpenSession(d) \/ CountTickets(d) \/ InsertTicket(d)
           \/ \E d \in Desks, r \in Recharges :
                 \/ InsertRecharge(d, r) \/ LoadForRefund(d, r)
                 \/ \E i \in DOMAIN tickets[r] : LoadForApprove(d, r, i)
           \/ \E r \in Recharges :
                 Expire(r) \/ UserPays(r) \/ \E i \in DOMAIN tickets[r] : RejectRefund(r, i)
           \/ CloseExpiredOrders
    PROVE  MInv'
<1> USE DEF orderVars, balanceVars, codeVars
<1>1. WalletTypeOK
  BY DEF WInv
<1>2. /\ UNCHANGED <<available, totalRecharge, spent, returned, used, usages, disturbed, mu>>
      /\ \A r \in Recharges : Credited(r)' <=> Credited(r)
  BY <1>1 DEF OpenSession, CountTickets, InsertTicket, InsertRecharge, LoadForRefund, LoadForApprove,
     Expire, UserPays, RejectRefund, CloseExpiredOrders, Credited, WalletTypeOK
<1>3. \A r \in Recharges : TicketsIn(r, {"paid"})' = TicketsIn(r, {"paid"})
  <2>1. tickets' = tickets => \A r \in Recharges : TicketsIn(r, {"paid"})' = TicketsIn(r, {"paid"})
    BY DEF TicketsIn
  <2>2. \/ tickets' = tickets
        \/ \E d \in Desks : InsertTicket(d)
        \/ \E r \in Recharges : \E i \in DOMAIN tickets[r] : RejectRefund(r, i)
    BY DEF OpenSession, CountTickets, InsertRecharge, LoadForRefund, LoadForApprove,
       Expire, UserPays, CloseExpiredOrders
  <2> QED BY <1>1, <2>1, <2>2, PaidTicketsKept
<1>4. \A r \in Recharges : Brought'[r] = Brought[r]
  BY <1>2, <1>3, BroughtStays
<1>5. \/ desk' = desk
      \/ \E d \in Desks : /\ desk[d].pc \notin Redeeming /\ desk'[d].pc \notin Redeeming
                          /\ \A e \in Desks \ {d} : desk'[e] = desk[e]
  <2>1. ASSUME NEW d \in Desks, OpenSession(d) \/ InsertTicket(d) \/ CountTickets(d)
        PROVE  /\ desk[d].pc \notin Redeeming /\ desk'[d].pc \notin Redeeming
               /\ \A e \in Desks \ {d} : desk'[e] = desk[e]
    <3>1. desk[d].pc \in {"openSession", "insertTicket", "countTickets"}
      BY <2>1 DEF OpenSession, InsertTicket, CountTickets
    <3>2. Return(d) \/ GoTo(d, "insertTicket")
      BY <2>1 DEF OpenSession, InsertTicket, CountTickets
    <3>3. desk[d] \in OnRecharge
      BY <1>1, <3>1, KindOfWork
    <3>4. desk'[d].pc \in {"idle", "insertTicket"} /\ \A e \in Desks \ {d} : desk'[e] = desk[e]
      BY <1>1, <3>2, <3>3, WorkEnds, WorkGoesOn
    <3> QED BY <3>1, <3>4 DEF Redeeming
  <2>2. ASSUME NEW d \in Desks, NEW r \in Recharges,
               \/ InsertRecharge(d, r) \/ LoadForRefund(d, r)
               \/ \E i \in DOMAIN tickets[r] : LoadForApprove(d, r, i)
        PROVE  /\ desk[d].pc \notin Redeeming /\ desk'[d].pc \notin Redeeming
               /\ \A e \in Desks \ {d} : desk'[e] = desk[e]
    <3>1. PICK w \in OnRecharge \cup OnTicket : Begin(d, w)
      <4>1. \A i \in DOMAIN tickets[r] : i \in Nat
        BY <1>1 DEF WalletTypeOK
      <4> QED BY <2>2, <4>1 DEF InsertRecharge, LoadForRefund, LoadForApprove, OnRecharge, OnTicket
    <3>2. w \in Work /\ w.pc \notin Redeeming
      BY DEF Work, OnRecharge, OnTicket, Redeeming
    <3>3. desk'[d] = w /\ desk[d].pc = "idle" /\ \A e \in Desks \ {d} : desk'[e] = desk[e]
      BY <1>1, <3>1, <3>2, WorkBegins
    <3> QED BY <3>2, <3>3 DEF Redeeming
  <2>3. (\E r \in Recharges :
            Expire(r) \/ UserPays(r) \/ \E i \in DOMAIN tickets[r] : RejectRefund(r, i))
        \/ CloseExpiredOrders => desk' = desk
    BY DEF Expire, UserPays, RejectRefund, CloseExpiredOrders
  <2> QED BY <2>1, <2>2, <2>3
<1>6. (\A u : Owed(u)' = Owed(u)) /\ (\A c : OnTheWay(c)' = OnTheWay(c))
  <2>1. CASE desk' = desk
    BY <1>2, <2>1 DEF Owed, OnTheWay
  <2>2. CASE desk' # desk
    BY <1>1, <1>2, <1>5, <2>2, RedemptionStays
  <2> QED BY <2>1, <2>2
<1> QED BY <1>2, <1>4, <1>6, QuietMoney

-----------------------------------------------------------------------------
(* Redemptions *)

\* What a redemption, a purchase, its return and an interruption do to the desks.
LEMMA CodeControl ==
    ASSUME WInv, MInv,
           \/ \E d \in Desks : \/ CountUse(d) \/ InsertUsage(d) \/ Uncount(d) \/ CreditCode(d) \/ Abort(d)
                              \/ \E c \in Codes, u \in Users : LoadCode(d, c, u)
           \/ \E u \in Users, cents \in Prices : Buy(u, cents) \/ GiveBack(u, cents)
    PROVE  WInv'
<1> USE DEF orderVars, balanceVars, codeVars
<1>1. WalletTypeOK /\ HoldsMutex /\ UsesCounted
  BY DEF WInv, MInv
<1>2. ASSUME NEW u \in Users, NEW cents \in Prices, Buy(u, cents) \/ GiveBack(u, cents) PROVE WInv'
  <2>1. cents \in Nat /\ available[u] \in Nat /\ spent[u] \in Nat /\ returned[u] \in Nat
    BY <1>1, WalletAssumption DEF WalletTypeOK
  <2>2. UNCHANGED <<recharge, overdue, sessions, captured, tickets, accounts, totalRecharge, used, usages,
                    mu, desk, disturbed>>
    BY <1>2 DEF Buy, GiveBack
  <2>3. available' \in [Users -> Nat] /\ spent' \in [Users -> Nat] /\ returned' \in [Users -> Nat]
    <3>1. available \in [Users -> Nat] /\ spent \in [Users -> Nat] /\ returned \in [Users -> Nat]
      BY <1>1 DEF WalletTypeOK
    <3>2. CASE Buy(u, cents)
      <4>1. available[u] - cents \in Nat /\ spent[u] + cents \in Nat
        BY <2>1, <3>2 DEF Buy
      <4> QED BY <3>1, <3>2, <4>1 DEF Buy
    <3>3. CASE GiveBack(u, cents)
      <4>1. available[u] + cents \in Nat /\ returned[u] + cents \in Nat
        BY <2>1 DEF GiveBack
      <4> QED BY <3>1, <3>3, <4>1 DEF GiveBack
    <3> QED BY <1>2, <3>2, <3>3
  <2>4. WalletTypeOK'
    BY <1>1, <2>2, <2>3 DEF WalletTypeOK
  <2>5. \A r \in Recharges : /\ Credited(r)' <=> Credited(r)
                             /\ TicketsIn(r, {"paid"})' = TicketsIn(r, {"paid"})
    BY <2>2 DEF Credited, TicketsIn
  <2> QED BY <2>2, <2>4, <2>5, ControlKept
<1>3. ASSUME NEW d \in Desks, NEW c \in Codes, NEW u \in Users, LoadCode(d, c, u) PROVE WInv'
  <2> DEFINE w == [pc |-> "count", code |-> c, user |-> u]
  <2>1. w \in Work /\ w.pc = "count"
    BY DEF Work, OnCode
  <2>2. Begin(d, w)
    BY <1>3 DEF LoadCode
  <2> HIDE DEF w
  <2>3. /\ desk' \in [Desks -> Work] /\ desk'[d] = w
        /\ \A e \in Desks \ {d} : desk'[e] = desk[e]
    BY <1>1, <2>1, <2>2, WorkBegins
  <2>4. WalletTypeOK'
    BY <1>1, <1>3, <2>3 DEF LoadCode, WalletTypeOK, Work
  <2> QED BY <1>3, <2>1, <2>3, <2>4, DeskKept DEF LoadCode, Refunding
<1>4. ASSUME NEW d \in Desks, CountUse(d) \/ InsertUsage(d) \/ Uncount(d) \/ CreditCode(d) PROVE WInv'
  <2>1. desk[d].pc \in Redeeming /\ mu = d /\ desk[d] \in OnCode
        /\ desk[d].code \in Codes /\ desk[d].user \in Users
    BY <1>1, <1>4, KindOfWork DEF CountUse, InsertUsage, Uncount, CreditCode, HoldsMutex, Redeeming, OnCode
  <2>2. \/ Return(d) /\ mu' = NoDesk
        \/ mu' = mu /\ \E pc \in Redeeming : GoTo(d, pc)
    BY <1>4 DEF CountUse, InsertUsage, Uncount, CreditCode, Redeeming
  <2>3. /\ desk' \in [Desks -> Work] /\ \A e \in Desks \ {d} : desk'[e] = desk[e]
        /\ \/ desk'[d].pc = "idle" /\ mu' = NoDesk
           \/ desk'[d].pc \in Redeeming /\ mu' = mu
    BY <1>1, <2>1, <2>2, WorkEnds, WorkGoesOn
  <2>4. /\ UNCHANGED <<orderVars, spent, returned>>
        /\ accounts' \subseteq Users /\ available' \in [Users -> Nat] /\ totalRecharge' \in [Users -> Int]
    <3>1. CASE UNCHANGED <<orderVars, balanceVars>>
      BY <1>1, <3>1 DEF WalletTypeOK
    <3>2. CASE CreditCode(d)
      <4>1. CodeValue[desk[d].code] \in Nat
        BY <2>1, WalletAssumption
      <4>2. Credit(desk[d].user, CodeValue[desk[d].code]) /\ UNCHANGED <<orderVars, spent, returned>>
        BY <3>2 DEF CreditCode
      <4> QED BY <1>1, <2>1, <4>1, <4>2, CreditTypes
    <3> QED BY <1>4, <3>1, <3>2 DEF CountUse, InsertUsage, Uncount
  <2>5. used' \in [Codes -> Nat]
    <3>1. CASE Uncount(d)
      <4>1. PICK c \in Codes : c = desk[d].code
        BY <2>1
      <4>2. used \in [Codes -> Nat] /\ used[c] >= 1
        <5>1. OnTheWay(c) = 1
          BY <2>1, <3>1, <4>1, WalletAssumption DEF Uncount, OnTheWay
        <5>2. Cardinality(Redeemers(c)) + OnTheWay(c) <= used[c] /\ Cardinality(Redeemers(c)) \in Nat
          BY <1>1, MoneyTypes DEF UsesCounted
        <5> QED BY <1>1, <5>1, <5>2 DEF WalletTypeOK
      <4>3. used' = used \/ used' = [used EXCEPT ![c] = @ - 1]
        BY <3>1, <4>1 DEF Uncount
      <4> QED BY <4>2, <4>3
    <3>2. CASE ~Uncount(d)
      BY <1>1, <1>4, <2>1, <3>2 DEF WalletTypeOK, CountUse, InsertUsage, CreditCode
    <3> QED BY <3>1, <3>2
  <2>6. usages' \subseteq Codes \X Users
    <3>1. usages \subseteq Codes \X Users
      BY <1>1 DEF WalletTypeOK
    <3>2. usages' = usages \/ usages' = usages \cup {<<desk[d].code, desk[d].user>>}
      BY <1>4 DEF CountUse, InsertUsage, Uncount, CreditCode
    <3> QED BY <2>1, <3>1, <3>2
  <2>7. disturbed' \in BOOLEAN
    <3>1. disturbed \in BOOLEAN
      BY <1>1 DEF WalletTypeOK
    <3> QED BY <1>4, <3>1, Zenon DEF CountUse, InsertUsage, Uncount, CreditCode
  <2>8. WalletTypeOK'
    BY <1>1, <2>1, <2>3, <2>4, <2>5, <2>6, <2>7 DEF WalletTypeOK, Work
  <2> QED BY <2>1, <2>3, <2>4, <2>8, DeskKept DEF Redeeming, Refunding
<1>5. ASSUME NEW d \in Desks, Abort(d) PROVE WInv'
  <2>1. /\ desk' \in [Desks -> Work] /\ desk'[d].pc = "idle"
        /\ \A e \in Desks \ {d} : desk'[e] = desk[e]
    BY <1>1, <1>5, WorkEnds DEF Abort
  <2>2. disturbed' \in BOOLEAN /\ mu' \in Desks \cup {NoDesk} /\ (mu' = mu \/ mu = d)
    BY <1>1, <1>5 DEF Abort, WalletTypeOK
  <2>3. WalletTypeOK'
    BY <1>1, <1>5, <2>1, <2>2 DEF Abort, WalletTypeOK, Work
  <2> QED BY <1>5, <2>1, <2>2, <2>3, DeskKept DEF Abort, Redeeming, Refunding
<1> QED BY <1>2, <1>3, <1>4, <1>5

\* A desk that holds the mutex enters the redemption, goes on with it, or leaves it.
LEMMA RedemptionNow ==
    ASSUME WInv, NEW d \in Desks
    PROVE  /\ mu = NoDesk => (\A u : Owed(u) = 0) /\ (\A c : OnTheWay(c) = 0)
           /\ mu = d =>
                 /\ \A u : Owed(u) = IF desk[d].pc = "credit" /\ desk[d].user = u
                                     THEN CodeValue[desk[d].code] ELSE 0
                 /\ \A c : OnTheWay(c) = IF desk[d].pc \in {"insertUsage", "uncount"} /\ desk[d].code = c
                                         THEN 1 ELSE 0
BY WalletAssumption DEF WInv, WalletTypeOK, Owed, OnTheWay

LEMMA RedemptionMoves ==
    ASSUME WInv, NEW d \in Desks, \A e \in Desks \ {d} : desk'[e] = desk[e]
    PROVE  /\ mu' = NoDesk => (\A u : Owed(u)' = 0) /\ (\A c : OnTheWay(c)' = 0)
           /\ mu = NoDesk => (\A u : Owed(u) = 0) /\ (\A c : OnTheWay(c) = 0)
           /\ mu' = mu /\ mu # d => (\A u : Owed(u)' = Owed(u)) /\ (\A c : OnTheWay(c)' = OnTheWay(c))
           /\ mu = d =>
                 /\ \A u : Owed(u) = IF desk[d].pc = "credit" /\ desk[d].user = u
                                     THEN CodeValue[desk[d].code] ELSE 0
                 /\ \A c : OnTheWay(c) = IF desk[d].pc \in {"insertUsage", "uncount"} /\ desk[d].code = c
                                         THEN 1 ELSE 0
           /\ mu' = d =>
                 /\ \A u : Owed(u)' = IF desk'[d].pc = "credit" /\ desk'[d].user = u
                                      THEN CodeValue[desk'[d].code] ELSE 0
                 /\ \A c : OnTheWay(c)' = IF desk'[d].pc \in {"insertUsage", "uncount"} /\ desk'[d].code = c
                                          THEN 1 ELSE 0
BY WalletAssumption DEF WInv, WalletTypeOK, Owed, OnTheWay

-----------------------------------------------------------------------------
(* Every step that moves money *)

LEMMA BroughtIn ==
    ASSUME WInv, NEW r \in Recharges
    PROVE  /\ HandleRechargeCallback(r) => Brought'[r] = Brought[r] + Amount[r]
           /\ \A i \in TicketsIn(r, {"pending"}) :
                 tickets' = [tickets EXCEPT ![r][i] = "paid"] /\ recharge'[r] = "refunded"
                     => Brought'[r] = Brought[r] + (0 - Amount[r])
<1> DEFINE paid == TicketsIn(r, {"paid"})
<1>1. /\ Amount[r] \in Nat /\ tickets[r] \in Seq(TicketState)
      /\ DOMAIN tickets[r] = 1 .. Len(tickets[r]) /\ Len(tickets[r]) \in Nat
  BY WalletAssumption DEF WInv, WalletTypeOK
<1>2. IsFiniteSet(paid) /\ Cardinality(paid) \in Nat
  <2>1. IsFiniteSet(1 .. Len(tickets[r]))
    BY <1>1, UpToIsFinite
  <2>2. paid \subseteq 1 .. Len(tickets[r])
    BY <1>1 DEF TicketsIn
  <2> QED BY <2>1, <2>2, FS_Subset, FS_CardinalityType
<1>3. \A a, n \in Nat : a * n \in Nat /\ a * (n + 1) = a * n + a
  OBVIOUS
<1>4. ASSUME HandleRechargeCallback(r) PROVE Brought'[r] = Brought[r] + Amount[r]
  <2>1. recharge[r] = "pending" /\ recharge'[r] = "paid" /\ paid' = paid
    BY <1>4 DEF HandleRechargeCallback, WInv, WalletTypeOK, TicketsIn
  <2>2. Amount[r] * Cardinality(paid) \in Nat
    BY <1>1, <1>2, <1>3
  <2>3. /\ Brought[r] = 0 - Amount[r] * Cardinality(paid)
        /\ Brought'[r] = Amount[r] - Amount[r] * Cardinality(paid)
    BY <2>1 DEF Brought
  <2> HIDE DEF paid
  <2> QED BY <1>1, <2>2, <2>3
<1>5. ASSUME NEW i \in TicketsIn(r, {"pending"}),
             tickets' = [tickets EXCEPT ![r][i] = "paid"], recharge'[r] = "refunded"
      PROVE  Brought'[r] = Brought[r] + (0 - Amount[r])
  <2>1. paid' = paid \cup {i} /\ i \notin paid
    <3>1. tickets'[r] = [tickets[r] EXCEPT ![i] = "paid"] /\ i \in DOMAIN tickets[r] /\ tickets[r][i] = "pending"
      BY <1>5 DEF WInv, WalletTypeOK, TicketsIn
    <3>2. \A j : j \in paid' <=> j \in paid \/ j = i
      BY <1>1, <3>1 DEF TicketsIn
    <3>3. i \notin paid
      BY <3>1 DEF TicketsIn
    <3> QED BY <3>2, <3>3
  <2>2. Cardinality(paid') = Cardinality(paid) + 1
    BY <1>2, <2>1, FS_AddElement
  <2>3. Credited(r)
    <3>1. tickets[r] # <<>>
      BY <1>1 DEF TicketsIn
    <3> QED BY <3>1 DEF WInv, RefundsOfCredited
  <2>4. /\ Brought[r] = Amount[r] - Amount[r] * Cardinality(paid)
        /\ Brought'[r] = Amount[r] - Amount[r] * (Cardinality(paid) + 1)
    BY <1>5, <2>2, <2>3 DEF Brought, Credited
  <2>5. /\ Amount[r] * Cardinality(paid) \in Nat
        /\ Amount[r] * (Cardinality(paid) + 1) = Amount[r] * Cardinality(paid) + Amount[r]
    BY <1>1, <1>2, <1>3
  <2> HIDE DEF paid
  <2> QED BY <1>1, <2>4, <2>5
<1> QED BY <1>4, <1>5

\* A recharge order is credited, or its refund is deducted.
LEMMA RechargeMoney ==
    ASSUME WInv, MInv, WInv', NEW r \in Recharges, NEW cents \in Int,
           Brought'[r] = Brought[r] + cents, \A q \in Recharges \ {r} : Brought'[q] = Brought[q],
           totalRecharge' = [totalRecharge EXCEPT ![Payer[r]] = @ + cents],
           available' = [available EXCEPT ![Payer[r]] = @ + cents],
           UNCHANGED <<spent, returned, used, usages, disturbed>>,
           \A u \in Users : Owed(u)' = Owed(u), \A c \in Codes : OnTheWay(c)' = OnTheWay(c)
    PROVE  MInv'
<1>1. WalletTypeOK /\ WalletTypeOK'
  BY DEF WInv
<1>2. \A u \in Users : /\ Recharged(u)' = Recharged(u) + (IF Payer[r] = u THEN cents ELSE 0)
                       /\ Redeemed(u)' = Redeemed(u)
                       /\ Recharged(u) \in Int /\ Redeemed(u) \in Nat /\ Owed(u) \in Nat
  BY <1>1, RechargedChanges, MoneyTypes DEF Redeemed
<1>3. \A u \in Users :
         /\ available[u] \in Nat /\ available'[u] \in Nat /\ totalRecharge[u] \in Int
         /\ spent[u] \in Nat /\ returned[u] \in Nat
         /\ totalRecharge'[u] = totalRecharge[u] + (IF Payer[r] = u THEN cents ELSE 0)
         /\ available'[u] = available[u] + (IF Payer[r] = u THEN cents ELSE 0)
  BY <1>1 DEF WalletTypeOK
<1>4. BalanceAddsUp'
  <2> SUFFICES ASSUME NEW u \in Users
               PROVE  /\ available'[u] = totalRecharge'[u] - spent[u] + returned[u]
                      /\ available'[u] >= 0
    BY DEF BalanceAddsUp
  <2>1. available[u] = totalRecharge[u] - spent[u] + returned[u]
    BY DEF MInv, BalanceAddsUp
  <2>2. PICK k \in Int : k = IF Payer[r] = u THEN cents ELSE 0
    OBVIOUS
  <2> QED BY <1>3, <2>1, <2>2
<1>5. TotalsExplained'
  <2> SUFFICES ASSUME NEW u \in Users
               PROVE  /\ Recharged(u)' <= totalRecharge'[u]
                      /\ totalRecharge'[u] + Owed(u)' <= Recharged(u)' + Redeemed(u)'
                      /\ ~disturbed' => totalRecharge'[u] + Owed(u)' = Recharged(u)' + Redeemed(u)'
    BY DEF TotalsExplained
  <2>1. /\ Recharged(u) <= totalRecharge[u]
        /\ totalRecharge[u] + Owed(u) <= Recharged(u) + Redeemed(u)
        /\ ~disturbed => totalRecharge[u] + Owed(u) = Recharged(u) + Redeemed(u)
    BY DEF MInv, TotalsExplained
  <2>2. PICK k \in Int : k = IF Payer[r] = u THEN cents ELSE 0
    OBVIOUS
  <2> QED BY <1>2, <1>3, <2>1, <2>2
<1>6. UsesCounted'
  BY DEF MInv, UsesCounted, Redeemers
<1> QED BY <1>4, <1>5, <1>6 DEF MInv

LEMMA RechargeMoneySteps ==
    ASSUME WInv, MInv, WInv',
           (\E r \in Recharges : HandleRechargeCallback(r)) \/ (\E d \in Desks : ApproveRechargeRefund(d))
    PROVE  MInv'
<1> USE DEF balanceVars, codeVars
<1>1. WalletTypeOK /\ \A r \in Recharges : Payer[r] \in Users /\ Amount[r] \in Nat
  BY WalletAssumption DEF WInv
<1>2. ASSUME NEW r \in Recharges, NEW q \in Recharges \ {r},
             recharge'[q] = recharge[q], tickets'[q] = tickets[q]
      PROVE  Brought'[q] = Brought[q]
  BY <1>2, BroughtStays DEF Credited, TicketsIn
<1>3. ASSUME NEW r \in Recharges, HandleRechargeCallback(r) PROVE MInv'
  <2>1. /\ totalRecharge' = [totalRecharge EXCEPT ![Payer[r]] = @ + Amount[r]]
        /\ available' = [available EXCEPT ![Payer[r]] = @ + Amount[r]]
        /\ UNCHANGED <<spent, returned, used, usages, mu, desk, disturbed, tickets>>
        /\ \A q \in Recharges \ {r} : recharge'[q] = recharge[q]
    BY <1>1, <1>3 DEF HandleRechargeCallback, Credit, WalletTypeOK
  <2>2. Brought'[r] = Brought[r] + Amount[r] /\ \A q \in Recharges \ {r} : Brought'[q] = Brought[q]
    BY <1>2, <1>3, <2>1, BroughtIn
  <2>3. (\A u : Owed(u)' = Owed(u)) /\ (\A c : OnTheWay(c)' = OnTheWay(c))
    BY <2>1 DEF Owed, OnTheWay
  <2>4. Amount[r] \in Int
    BY <1>1
  <2> QED BY <2>1, <2>2, <2>3, <2>4, RechargeMoney
<1>4. ASSUME NEW d \in Desks, ApproveRechargeRefund(d) PROVE MInv'
  <2>1. PICK r \in Recharges, i \in Nat, u \in Users :
            r = desk[d].recharge /\ i = desk[d].ticket /\ u = Payer[r] /\ desk[d].pc = "approve"
    BY <1>1, <1>4, KindOfWork DEF ApproveRechargeRefund, Refunding, OnTicket
  <2>2. /\ UNCHANGED <<spent, returned, used, usages, mu, disturbed>>
        /\ desk'[d].pc = "idle" /\ \A e \in Desks \ {d} : desk'[e] = desk[e]
    BY <1>1, <1>4, WorkEnds DEF ApproveRechargeRefund
  <2>3. (\A v : Owed(v)' = Owed(v)) /\ (\A c : OnTheWay(c)' = OnTheWay(c))
    BY <1>1, <2>1, <2>2, RedemptionStays DEF Redeeming
  <2>4. CASE i \in TicketsIn(r, {"pending"}) /\ u \in accounts /\ available[u] >= Amount[r]
    <3>1. /\ tickets' = [tickets EXCEPT ![r][i] = "paid"]
          /\ recharge' = [recharge EXCEPT ![r] = "refunded"]
          /\ available' = [available EXCEPT ![Payer[r]] = @ - Amount[r]]
          /\ totalRecharge' = [totalRecharge EXCEPT ![Payer[r]] = @ - Amount[r]]
      BY <1>4, <2>1, <2>4 DEF ApproveRechargeRefund
    <3>2. recharge'[r] = "refunded"
          /\ \A q \in Recharges \ {r} : recharge'[q] = recharge[q] /\ tickets'[q] = tickets[q]
      BY <1>1, <3>1 DEF WalletTypeOK
    <3>3. /\ Brought'[r] = Brought[r] + (0 - Amount[r])
          /\ \A q \in Recharges \ {r} : Brought'[q] = Brought[q]
      BY <1>2, <2>4, <3>1, <3>2, BroughtIn
    <3>4. /\ available' = [available EXCEPT ![Payer[r]] = @ + (0 - Amount[r])]
          /\ totalRecharge' = [totalRecharge EXCEPT ![Payer[r]] = @ + (0 - Amount[r])]
      <4>1. /\ available[Payer[r]] \in Int /\ totalRecharge[Payer[r]] \in Int /\ Amount[r] \in Int
        BY <1>1 DEF WalletTypeOK
      <4>2. /\ available[Payer[r]] - Amount[r] = available[Payer[r]] + (0 - Amount[r])
            /\ totalRecharge[Payer[r]] - Amount[r] = totalRecharge[Payer[r]] + (0 - Amount[r])
        BY <4>1
      <4> QED BY <3>1, <4>2, Zenon
    <3>5. 0 - Amount[r] \in Int
      BY <1>1
    <3> QED BY <2>2, <2>3, <3>3, <3>4, <3>5, RechargeMoney
  <2>5. CASE ~(i \in TicketsIn(r, {"pending"}) /\ u \in accounts /\ available[u] >= Amount[r])
    <3>1. UNCHANGED <<tickets, recharge, available, totalRecharge>>
      BY <1>4, <2>1, <2>5 DEF ApproveRechargeRefund
    <3>2. \A q \in Recharges : Brought'[q] = Brought[q]
      BY <3>1, BroughtStays DEF Credited, TicketsIn
    <3> QED BY <2>2, <2>3, <3>1, <3>2, QuietMoney
  <2> QED BY <2>4, <2>5
<1> QED BY <1>3, <1>4

\* Purchases out of the balance and their returns.
LEMMA PurchaseMoney ==
    ASSUME WInv, MInv, NEW v \in Users, NEW cents \in Prices, Buy(v, cents) \/ GiveBack(v, cents)
    PROVE  MInv'
<1> USE DEF orderVars, codeVars
<1>1. /\ cents \in Nat /\ available \in [Users -> Nat]
      /\ spent \in [Users -> Nat] /\ returned \in [Users -> Nat]
      /\ totalRecharge \in [Users -> Int]
  BY WalletAssumption DEF WInv, WalletTypeOK
<1>2. UNCHANGED <<recharge, tickets, totalRecharge, used, usages, mu, desk, disturbed>>
  BY DEF Buy, GiveBack
<1>3. /\ Brought' = Brought
      /\ \A u : Owed(u)' = Owed(u) /\ Redeemed(u)' = Redeemed(u)
      /\ \A c : OnTheWay(c)' = OnTheWay(c) /\ Redeemers(c)' = Redeemers(c)
  BY <1>2 DEF Brought, TicketsIn, Owed, OnTheWay, Redeemed, Redeemers
<1>4. \A u : Recharged(u)' = Recharged(u)
  BY <1>3 DEF Recharged
<1>5. TotalsExplained' /\ UsesCounted'
  BY <1>2, <1>3, <1>4 DEF MInv, TotalsExplained, UsesCounted
<1>6. ASSUME NEW u \in Users
      PROVE  available'[u] = totalRecharge[u] - spent'[u] + returned'[u] /\ available'[u] >= 0
  <2>1. available[u] = totalRecharge[u] - spent[u] + returned[u]
    BY DEF MInv, BalanceAddsUp
  <2>2. CASE u = v /\ Buy(v, cents)
    <3>1. /\ available'[u] = available[u] - cents /\ spent'[u] = spent[u] + cents
          /\ returned'[u] = returned[u] /\ available[u] >= cents
      BY <1>1, <2>2 DEF Buy
    <3> QED BY <1>1, <2>1, <3>1
  <2>3. CASE u = v /\ GiveBack(v, cents)
    <3>1. /\ available'[u] = available[u] + cents /\ returned'[u] = returned[u] + cents
          /\ spent'[u] = spent[u]
      BY <1>1, <2>3 DEF GiveBack
    <3> QED BY <1>1, <2>1, <3>1
  <2>4. CASE u # v
    <3>1. available'[u] = available[u] /\ spent'[u] = spent[u] /\ returned'[u] = returned[u]
      BY <1>1, <2>4 DEF Buy, GiveBack
    <3> QED BY <1>1, <2>1, <3>1
  <2> QED BY <2>2, <2>3, <2>4
<1>7. BalanceAddsUp'
  BY <1>2, <1>6 DEF BalanceAddsUp
<1> QED BY <1>5, <1>7 DEF MInv

\* A redemption begins, counts a use, records it, takes the count back, or is cut off: no
\* balance moves.
LEMMA RedemptionMoney ==
    ASSUME WInv, MInv,
           \E d \in Desks : \/ CountUse(d) \/ InsertUsage(d) \/ Uncount(d) \/ Abort(d)
                           \/ \E c \in Codes, u \in Users : LoadCode(d, c, u)
    PROVE  MInv'
<1> USE DEF orderVars, balanceVars
<1>1. WalletTypeOK /\ HoldsMutex
  BY DEF WInv
<1>2. UNCHANGED <<recharge, tickets, available, totalRecharge, spent, returned>>
  BY DEF CountUse, InsertUsage, Uncount, Abort, LoadCode
<1>3. Brought' = Brought /\ \A u : Recharged(u)' = Recharged(u)
  <2>1. Brought' = Brought
    BY <1>2 DEF Brought, TicketsIn
  <2> QED BY <2>1 DEF Recharged
<1>4. BalanceAddsUp'
  BY <1>2 DEF MInv, BalanceAddsUp
<1>5. /\ \A u \in Users : /\ Recharged(u) \in Int /\ Redeemed(u) \in Nat /\ Owed(u) \in Nat
                          /\ totalRecharge[u] \in Int
                          /\ Recharged(u) <= totalRecharge[u]
                          /\ totalRecharge[u] + Owed(u) <= Recharged(u) + Redeemed(u)
                          /\ ~disturbed => totalRecharge[u] + Owed(u) = Recharged(u) + Redeemed(u)
      /\ \A c \in Codes : /\ Cardinality(Redeemers(c)) \in Nat /\ OnTheWay(c) \in {0, 1}
                          /\ used[c] \in Nat /\ MaxUses[c] \in Nat /\ used[c] <= MaxUses[c]
                          /\ Cardinality(Redeemers(c)) + OnTheWay(c) <= used[c]
  BY <1>1, MoneyTypes, WalletAssumption DEF WalletTypeOK, MInv, TotalsExplained, UsesCounted
\* What is left to show for a step.
<1>6. ASSUME \A u \in Users : /\ disturbed => disturbed'
                              /\ Redeemed(u)' \in Nat /\ Owed(u)' \in Nat
                              /\ Redeemed(u)' >= Redeemed(u)
                              /\ Redeemed(u)' - Owed(u)' >= Redeemed(u) - Owed(u)
                              /\ ~disturbed' => Redeemed(u)' - Owed(u)' = Redeemed(u) - Owed(u),
             \A c \in Codes : /\ used'[c] <= MaxUses[c]
                              /\ Cardinality(Redeemers(c)') + OnTheWay(c)' <= used'[c]
      PROVE  MInv'
  <2>1. UsesCounted'
    BY <1>6 DEF UsesCounted
  <2>2. TotalsExplained'
    <3> SUFFICES ASSUME NEW u \in Users
                 PROVE  /\ Recharged(u) <= totalRecharge[u]
                        /\ totalRecharge[u] + Owed(u)' <= Recharged(u) + Redeemed(u)'
                        /\ ~disturbed' => totalRecharge[u] + Owed(u)' = Recharged(u) + Redeemed(u)'
      BY <1>2, <1>3 DEF TotalsExplained
    <3>1. totalRecharge[u] + Owed(u)' <= Recharged(u) + Redeemed(u)'
      BY <1>5, <1>6
    <3>2. ASSUME ~disturbed' PROVE totalRecharge[u] + Owed(u)' = Recharged(u) + Redeemed(u)'
      <4>1. ~disturbed
        BY <1>6, <3>2
      <4>2. totalRecharge[u] + Owed(u) = Recharged(u) + Redeemed(u)
        BY <1>5, <4>1
      <4>3. Redeemed(u)' - Owed(u)' = Redeemed(u) - Owed(u)
        BY <1>6, <3>2
      <4> QED BY <1>5, <1>6, <4>2, <4>3
    <3> QED BY <1>5, <3>1, <3>2
  <2> QED BY <1>4, <2>1, <2>2 DEF MInv
<1>7. usages' = usages => (\A u : Redeemed(u)' = Redeemed(u)) /\ (\A c : Redeemers(c)' = Redeemers(c))
  BY DEF Redeemed, Redeemers
<1>8. ASSUME NEW d \in Desks, NEW c \in Codes, NEW v \in Users, LoadCode(d, c, v) PROVE MInv'
  <2> DEFINE w == [pc |-> "count", code |-> c, user |-> v]
  <2>1. w \in Work /\ w.pc = "count"
    BY DEF Work, OnCode
  <2>2. Begin(d, w) /\ mu = NoDesk /\ mu' = d /\ UNCHANGED <<used, usages, disturbed>>
    BY <1>8 DEF LoadCode
  <2> HIDE DEF w
  <2>3. desk'[d] = w /\ \A e \in Desks \ {d} : desk'[e] = desk[e]
    BY <1>1, <2>1, <2>2, WorkBegins
  <2>4. /\ \A u : Owed(u) = 0 /\ Owed(u)' = 0
        /\ \A b : OnTheWay(b) = 0 /\ OnTheWay(b)' = 0
    BY <2>1, <2>2, <2>3, RedemptionMoves
  <2> QED BY <1>2, <1>5, <1>6, <1>7, <2>2, <2>4
<1>9. ASSUME NEW d \in Desks, CountUse(d) PROVE MInv'
  <2>1. PICK c \in Codes : c = desk[d].code /\ desk[d].pc = "count" /\ desk[d] \in OnCode /\ mu = d
    BY <1>1, <1>9, KindOfWork DEF CountUse, HoldsMutex, Redeeming, OnCode
  <2>2. /\ UNCHANGED <<usages, disturbed>>
        /\ \A u : Owed(u) = 0
        /\ \A b : OnTheWay(b) = 0
    BY <1>9, <2>1, RedemptionNow DEF CountUse
  <2>3. CASE used[c] < MaxUses[c]
    <3>1. used' = [used EXCEPT ![c] = @ + 1] /\ GoTo(d, "insertUsage") /\ mu' = d
      BY <1>9, <2>1, <2>3 DEF CountUse
    <3>2. /\ desk'[d].pc = "insertUsage" /\ desk'[d].code = c
          /\ \A e \in Desks \ {d} : desk'[e] = desk[e]
      BY <1>1, <2>1, <3>1, WorkGoesOn DEF Redeeming
    <3>3. (\A u : Owed(u)' = 0) /\ \A b : OnTheWay(b)' = IF b = c THEN 1 ELSE 0
      BY <3>1, <3>2, RedemptionMoves
    <3>4. \A b \in Codes : used'[b] = IF b = c THEN used[b] + 1 ELSE used[b]
      BY <1>1, <3>1 DEF WalletTypeOK
    <3> QED BY <1>5, <1>6, <1>7, <2>2, <2>3, <3>3, <3>4
  <2>4. CASE ~(used[c] < MaxUses[c])
    <3>1. used' = used /\ Return(d) /\ mu' = NoDesk
      BY <1>9, <2>1, <2>4 DEF CountUse
    <3>2. \A e \in Desks \ {d} : desk'[e] = desk[e]
      BY <1>1, <3>1, WorkEnds
    <3>3. (\A u : Owed(u)' = 0) /\ \A b : OnTheWay(b)' = 0
      BY <3>1, <3>2, RedemptionMoves
    <3> QED BY <1>5, <1>6, <1>7, <2>2, <3>1, <3>3
  <2> QED BY <2>3, <2>4
<1>10. ASSUME NEW d \in Desks, InsertUsage(d) PROVE MInv'
  <2>1. PICK c \in Codes, v \in Users :
            c = desk[d].code /\ v = desk[d].user /\ desk[d].pc = "insertUsage" /\ desk[d] \in OnCode /\ mu = d
    BY <1>1, <1>10, KindOfWork DEF InsertUsage, HoldsMutex, Redeeming, OnCode
  <2>2. /\ UNCHANGED <<used, mu, disturbed>>
        /\ \A u : Owed(u) = 0
        /\ \A b : OnTheWay(b) = IF b = c THEN 1 ELSE 0
    BY <1>10, <2>1, RedemptionNow DEF InsertUsage
  <2>3. CASE <<c, v>> \notin usages /\ usages' = usages \cup {<<c, v>>} /\ GoTo(d, "credit")
    <3>1. /\ desk'[d].pc = "credit" /\ desk'[d].code = c /\ desk'[d].user = v
          /\ \A e \in Desks \ {d} : desk'[e] = desk[e]
      BY <1>1, <2>1, <2>3, WorkGoesOn DEF Redeeming
    <3>2. (\A u : Owed(u)' = IF u = v THEN CodeValue[c] ELSE 0) /\ \A b : OnTheWay(b)' = 0
      BY <2>1, <2>2, <3>1, RedemptionMoves
    <3>3. /\ \A u \in Users : Redeemed(u)' = Redeemed(u) + (IF u = v THEN CodeValue[c] ELSE 0)
          /\ \A b \in Codes : Cardinality(Redeemers(b)') =
                                 Cardinality(Redeemers(b)) + (IF b = c THEN 1 ELSE 0)
      BY <1>1, <2>3, RedeemedChanges
    <3>4. CodeValue[c] \in Nat
      BY WalletAssumption
    <3> QED BY <1>5, <1>6, <2>2, <3>2, <3>3, <3>4
  <2>4. CASE GoTo(d, "uncount") /\ usages' = usages
    <3>1. /\ desk'[d].pc = "uncount" /\ desk'[d].code = c
          /\ \A e \in Desks \ {d} : desk'[e] = desk[e]
      BY <1>1, <2>1, <2>4, WorkGoesOn DEF Redeeming
    <3>2. (\A u : Owed(u)' = 0) /\ \A b : OnTheWay(b)' = IF b = c THEN 1 ELSE 0
      BY <2>1, <2>2, <3>1, RedemptionMoves
    <3> QED BY <1>5, <1>6, <1>7, <2>2, <2>4, <3>2
  <2> QED BY <1>10, <2>1, <2>3, <2>4 DEF InsertUsage
<1>11. ASSUME NEW d \in Desks, Uncount(d) PROVE MInv'
  <2>1. PICK c \in Codes : c = desk[d].code /\ desk[d].pc = "uncount" /\ mu = d
    BY <1>1, <1>11, KindOfWork DEF Uncount, HoldsMutex, Redeeming, OnCode
  <2>2. /\ usages' = usages /\ mu' = NoDesk /\ (disturbed => disturbed')
        /\ used' = [used EXCEPT ![c] = @ - 1] \/ (used' = used /\ disturbed')
        /\ \A e \in Desks \ {d} : desk'[e] = desk[e]
    BY <1>1, <1>11, <2>1, WorkEnds DEF Uncount
  <2>3. /\ \A u : Owed(u) = 0 /\ Owed(u)' = 0
        /\ \A b : OnTheWay(b) = (IF b = c THEN 1 ELSE 0) /\ OnTheWay(b)' = 0
    BY <2>1, <2>2, RedemptionMoves
  <2>4. \A b \in Codes : used'[b] = used[b] \/ (b = c /\ used'[b] = used[b] - 1)
    BY <1>1, <2>2 DEF WalletTypeOK
  <2> QED BY <1>5, <1>6, <1>7, <2>2, <2>3, <2>4
<1>12. ASSUME NEW d \in Desks, Abort(d) PROVE MInv'
  <2>1. /\ UNCHANGED <<used, usages>> /\ \A e \in Desks \ {d} : desk'[e] = desk[e]
        /\ desk'[d].pc = "idle"
    BY <1>1, <1>12, WorkEnds DEF Abort
  <2>2. CASE mu = d
    <3>1. mu' = NoDesk /\ disturbed'
      BY <1>12, <2>2 DEF Abort
    <3>2. (\A u : Owed(u)' = 0) /\ \A b : OnTheWay(b)' = 0
      BY <2>1, <3>1, RedemptionMoves
    <3> QED BY <1>5, <1>6, <1>7, <2>1, <3>1, <3>2
  <2>3. CASE mu # d
    <3>1. mu' = mu /\ disturbed' = disturbed
      BY <1>1, <1>12, <2>3 DEF Abort, WalletTypeOK
    <3>2. (\A u : Owed(u)' = Owed(u)) /\ \A b : OnTheWay(b)' = OnTheWay(b)
      BY <2>1, <2>3, <3>1, RedemptionMoves
    <3> QED BY <1>5, <1>6, <1>7, <2>1, <3>1, <3>2
  <2> QED BY <2>2, <2>3
<1> QED BY <1>8, <1>9, <1>10, <1>11, <1>12

\* A code is paid out: what was owed is credited.
LEMMA CreditMoney ==
    ASSUME WInv, MInv, NEW d \in Desks, CreditCode(d)
    PROVE  MInv'
<1> USE DEF orderVars
<1>1. WalletTypeOK
  BY DEF WInv
<1>2. PICK c \in Codes, v \in Users :
          c = desk[d].code /\ v = desk[d].user /\ desk[d].pc = "credit" /\ mu = d /\ CodeValue[c] \in Nat
  BY <1>1, KindOfWork, WalletAssumption DEF CreditCode, WInv, HoldsMutex, Redeeming, OnCode
<1>3. /\ UNCHANGED <<recharge, tickets, spent, returned, used, usages, disturbed>> /\ mu' = NoDesk /\ Return(d)
      /\ available' = [available EXCEPT ![v] = @ + CodeValue[c]]
      /\ totalRecharge' = [totalRecharge EXCEPT ![v] = @ + CodeValue[c]]
  BY <1>2 DEF CreditCode, Credit
<1>4. \A e \in Desks \ {d} : desk'[e] = desk[e]
  BY <1>1, <1>3, WorkEnds
<1>5. /\ \A u : Owed(u)' = 0 /\ Owed(u) = IF u = v THEN CodeValue[c] ELSE 0
      /\ \A b : OnTheWay(b)' = 0 /\ OnTheWay(b) = 0
  BY <1>2, <1>3, <1>4, RedemptionMoves, RedemptionNow
<1>6. \A u : Redeemed(u)' = Redeemed(u)
  BY <1>3 DEF Redeemed
<1>7. \A b : Redeemers(b)' = Redeemers(b)
  BY <1>3 DEF Redeemers
<1>8. \A u : Recharged(u)' = Recharged(u)
  <2>1. Brought' = Brought
    BY <1>3 DEF Brought, TicketsIn
  <2> QED BY <2>1 DEF Recharged
<1>9. \A u \in Users :
         /\ available[u] \in Nat /\ totalRecharge[u] \in Int
         /\ spent[u] \in Nat /\ returned[u] \in Nat
         /\ available'[u] = available[u] + (IF u = v THEN CodeValue[c] ELSE 0)
         /\ totalRecharge'[u] = totalRecharge[u] + (IF u = v THEN CodeValue[c] ELSE 0)
  BY <1>1, <1>2, <1>3 DEF WalletTypeOK
<1>10. BalanceAddsUp'
  <2> SUFFICES ASSUME NEW u \in Users
               PROVE  /\ available'[u] = totalRecharge'[u] - spent[u] + returned[u]
                      /\ available'[u] >= 0
    BY <1>3 DEF BalanceAddsUp
  <2>1. available[u] = totalRecharge[u] - spent[u] + returned[u]
    BY DEF MInv, BalanceAddsUp
  <2> QED BY <1>2, <1>9, <2>1
<1>11. TotalsExplained'
  <2> SUFFICES ASSUME NEW u \in Users
               PROVE  /\ Recharged(u) <= totalRecharge'[u]
                      /\ totalRecharge'[u] + 0 <= Recharged(u) + Redeemed(u)
                      /\ ~disturbed => totalRecharge'[u] + 0 = Recharged(u) + Redeemed(u)
    BY <1>3, <1>5, <1>6, <1>8 DEF TotalsExplained
  <2>1. PICK k \in Nat : k = Owed(u) /\ totalRecharge'[u] = totalRecharge[u] + k
    BY <1>2, <1>5, <1>9
  <2>2. Recharged(u) \in Int /\ Redeemed(u) \in Nat /\ totalRecharge[u] \in Int
    BY <1>1, <1>9, MoneyTypes
  <2>3. /\ Recharged(u) <= totalRecharge[u]
        /\ totalRecharge[u] + k <= Recharged(u) + Redeemed(u)
        /\ ~disturbed => totalRecharge[u] + k = Recharged(u) + Redeemed(u)
    BY <2>1 DEF MInv, TotalsExplained
  <2> QED BY <2>1, <2>2, <2>3
<1>12. UsesCounted'
  BY <1>3, <1>5, <1>7 DEF MInv, UsesCounted
<1> QED BY <1>10, <1>11, <1>12 DEF MInv

-----------------------------------------------------------------------------
(* The invariant *)

LEMMA InitialWallet == WalletInit => WInv /\ MInv
<1> SUFFICES ASSUME WalletInit PROVE WInv /\ MInv
  OBVIOUS
<1> USE WalletAssumption
<1>1. WalletTypeOK
  <2>1. desk \in [Desks -> Work]
    BY DEF WalletInit, Work
  <2>2. /\ recharge \in [Recharges -> RechargeStatus] /\ tickets \in [Recharges -> Seq(TicketState)]
        /\ available \in [Users -> Nat] /\ totalRecharge \in [Users -> Int]
        /\ spent \in [Users -> Nat] /\ returned \in [Users -> Nat] /\ used \in [Codes -> Nat]
    BY DEF WalletInit, RechargeStatus
  <2>3. /\ overdue \subseteq Recharges /\ sessions \subseteq Recharges /\ captured \subseteq Recharges
        /\ accounts \subseteq Users /\ usages \subseteq Codes \X Users
        /\ mu \in Desks \cup {NoDesk} /\ disturbed \in BOOLEAN
    BY DEF WalletInit
  <2> QED BY <2>1, <2>2, <2>3 DEF WalletTypeOK, Work
<1>2. \A r \in Recharges : TicketsIn(r, {"paid"}) = {}
  BY DEF WalletInit, TicketsIn
<1>3. WInv
  BY <1>1, <1>2 DEF WInv, WalletInit, HoldsMutex, RefundsOfCredited, RefundedIsTakenBack, Credited, Free,
     Redeeming, Refunding
<1>4. \A r \in Recharges : Brought[r] = 0
  <2>1. Cardinality({}) = 0
    BY FS_EmptySet
  <2>2. \A a \in Nat : 0 - a * 0 = 0
    OBVIOUS
  <2>3. \A r \in Recharges : Amount[r] \in Nat /\ recharge[r] = "none"
    BY DEF WalletInit
  <2> QED BY <1>2, <2>1, <2>2, <2>3 DEF Brought
<1>5. \A u \in Users : Recharged(u) = 0 /\ Redeemed(u) = 0
  <2> TAKE u \in Users
  <2>1. {r \in Recharges : Payer[r] = u} \subseteq Recharges
    OBVIOUS
  <2>2. Recharged(u) = 0
    BY <1>4, <2>1, FS_Subset, SumOfZeros DEF Recharged
  <2>3. {c \in Codes : <<c, u>> \in usages} = {}
    BY DEF WalletInit
  <2>4. Redeemed(u) = 0
    BY <2>3, SumOfNone DEF Redeemed
  <2> QED BY <2>2, <2>4
<1>6. \A c \in Codes : Cardinality(Redeemers(c)) = 0
  <2>1. \A c \in Codes : Redeemers(c) = {}
    BY DEF WalletInit, Redeemers
  <2> QED BY <2>1, FS_EmptySet
<1>7. (\A u : Owed(u) = 0) /\ (\A c : OnTheWay(c) = 0)
  BY DEF WalletInit, Owed, OnTheWay
<1>8. BalanceAddsUp
  BY DEF WalletInit, BalanceAddsUp
<1>9. TotalsExplained
  BY <1>5, <1>7 DEF WalletInit, TotalsExplained
<1>10. UsesCounted
  BY <1>6, <1>7 DEF WalletInit, UsesCounted
<1> QED BY <1>3, <1>8, <1>9, <1>10 DEF MInv

LEMMA WalletStep == WInv /\ MInv /\ [WalletNext]_walletVars => (WInv /\ MInv)'
<1> SUFFICES ASSUME WInv, MInv, [WalletNext]_walletVars PROVE WInv' /\ MInv'
  OBVIOUS
<1>1. WalletTypeOK
  BY DEF WInv
<1>2. CASE UNCHANGED walletVars
  <2> USE DEF walletVars, orderVars, balanceVars, codeVars
  <2>1. WalletTypeOK'
    BY <1>1, <1>2 DEF WalletTypeOK
  <2>2. \A r : TicketsIn(r, {"paid"})' = TicketsIn(r, {"paid"})
    BY <1>2 DEF TicketsIn
  <2>3. WInv'
    BY <1>2, <2>1, <2>2 DEF WInv, HoldsMutex, RefundsOfCredited, RefundedIsTakenBack, Credited
  <2>4. \A r \in Recharges : Brought'[r] = Brought[r]
    BY <1>2, <2>2, BroughtStays DEF Credited
  <2>5. (\A u : Owed(u)' = Owed(u)) /\ (\A c : OnTheWay(c)' = OnTheWay(c))
    BY <1>2 DEF Owed, OnTheWay
  <2>6. MInv'
    BY <1>2, <2>4, <2>5, QuietMoney
  <2> QED BY <2>3, <2>6
<1>3. CASE WalletNext
  <2> DEFINE Redemption == \E d \in Desks : \/ CountUse(d) \/ InsertUsage(d) \/ Uncount(d) \/ Abort(d)
                                           \/ \E c \in Codes, u \in Users : LoadCode(d, c, u)
             Crediting == \E d \in Desks : CreditCode(d)
             Purchase == \E u \in Users, cents \in Prices : Buy(u, cents) \/ GiveBack(u, cents)
             Quiet == \/ \E d \in Desks : OpenSession(d) \/ CountTickets(d) \/ InsertTicket(d)
                      \/ \E d \in Desks, r \in Recharges :
                            \/ InsertRecharge(d, r) \/ LoadForRefund(d, r)
                            \/ \E i \in DOMAIN tickets[r] : LoadForApprove(d, r, i)
                      \/ \E r \in Recharges :
                            Expire(r) \/ UserPays(r) \/ \E i \in DOMAIN tickets[r] : RejectRefund(r, i)
                      \/ CloseExpiredOrders
             Booking == \/ \E r \in Recharges : HandleRechargeCallback(r)
                        \/ \E d \in Desks : ApproveRechargeRefund(d)
  <2>1. Redemption \/ Crediting \/ Purchase \/ Quiet \/ Booking
    BY <1>3 DEF WalletNext
  <2>2. CASE Redemption \/ Crediting \/ Purchase
    <3>1. WInv'
      BY <2>2, CodeControl
    <3>2. MInv'
      BY <2>2, RedemptionMoney, CreditMoney, PurchaseMoney
    <3> QED BY <3>1, <3>2
  <2>3. CASE Quiet \/ Booking
    <3>1. WInv'
      BY <2>3, RechargeControl, RefundControl
    <3>2. MInv'
      BY <2>3, <3>1, QuietMoneySteps, RechargeMoneySteps
    <3> QED BY <3>1, <3>2
  <2> QED BY <2>1, <2>2, <2>3
<1> QED BY <1>2, <1>3

LEMMA WalletInvariant == WalletSpec => [](WInv /\ MInv)
BY InitialWallet, WalletStep, PTL DEF WalletSpec

\* Every order, ticket, balance and redemption keeps its type; no balance is ever negative.
THEOREM WalletTypes == WalletSpec => []WalletTypeOK
<1>1. WInv /\ MInv => WalletTypeOK
  BY DEF WInv
<1> QED BY <1>1, WalletInvariant, PTL

\* What a user can spend is what came in less what was spent and what was returned, whatever
\* recharges, refunds, redemptions and purchases run side by side, and it is never overdrawn.
THEOREM BalanceAlwaysAddsUp == WalletSpec => []BalanceAddsUp
<1>1. WInv /\ MInv => BalanceAddsUp
  BY DEF MInv
<1> QED BY <1>1, WalletInvariant, PTL

\* What came in is explained by the recharge orders, the refunds and the codes: nothing is
\* credited or deducted twice, a code that was not cut off pays once and in full, and no
\* code is redeemed more often than it may be.
THEOREM RechargeAlwaysExplained == WalletSpec => []RechargeExplained
<1>1. ASSUME WInv, MInv PROVE RechargeExplained
  <2>1. WalletTypeOK
    BY <1>1 DEF WInv
  <2>2. ASSUME NEW u \in Users
        PROVE  /\ totalRecharge[u] >= Recharged(u)
               /\ totalRecharge[u] <= Recharged(u) + Redeemed(u)
               /\ ~disturbed /\ mu = NoDesk => totalRecharge[u] = Recharged(u) + Redeemed(u)
    <3>1. /\ Recharged(u) \in Int /\ Redeemed(u) \in Nat /\ Owed(u) \in Nat /\ totalRecharge[u] \in Int
          /\ mu = NoDesk => Owed(u) = 0
      BY <2>1, MoneyTypes DEF WalletTypeOK, Owed
    <3>2. /\ Recharged(u) <= totalRecharge[u]
          /\ totalRecharge[u] + Owed(u) <= Recharged(u) + Redeemed(u)
          /\ ~disturbed => totalRecharge[u] + Owed(u) = Recharged(u) + Redeemed(u)
      BY <1>1 DEF MInv, TotalsExplained
    <3> QED BY <3>1, <3>2
  <2>3. ASSUME NEW c \in Codes PROVE used[c] <= MaxUses[c] /\ Cardinality(Redeemers(c)) <= used[c]
    <3>1. /\ Cardinality(Redeemers(c)) \in Nat /\ OnTheWay(c) \in {0, 1} /\ used[c] \in Nat
      BY <2>1, MoneyTypes DEF WalletTypeOK
    <3> QED BY <1>1, <3>1 DEF MInv, UsesCounted
  <2> QED BY <2>2, <2>3 DEF RechargeExplained
<1> QED BY <1>1, WalletInvariant, PTL

\* An order is marked refunded exactly when a refund of it was paid.
THEOREM RefundedAlwaysTakenBack == WalletSpec => []RefundedIsTakenBack
<1>1. WInv /\ MInv => RefundedIsTakenBack
  BY DEF WInv
<1> QED BY <1>1, WalletInvariant, PTL

\* Callback and closing job decide an order once: what is closed is never credited, and
\* what was credited is never closed or credited again.
THEOREM RechargeAlwaysDecidedOnce == WalletSpec => RechargeIsDecidedOnce
<1> DEFINE Once == \A r \in Recharges :
                      /\ recharge[r] \in {"closed", "refunded"} => recharge'[r] = recharge[r]
                      /\ recharge[r] = "paid" => recharge'[r] \in {"paid", "refunded"}
<1>1. ASSUME WInv, [WalletNext]_walletVars PROVE [Once]_walletVars
  <2> USE DEF orderVars, balanceVars, codeVars
  <2>1. WalletTypeOK
    BY <1>1 DEF WInv
  <2>2. CASE UNCHANGED walletVars
    BY <2>2 DEF walletVars
  <2>3. ASSUME NEW r \in Recharges, NEW d \in Desks, InsertRecharge(d, r) PROVE Once
    BY <2>1, <2>3 DEF InsertRecharge, WalletTypeOK
  <2>4. ASSUME NEW r \in Recharges, HandleRechargeCallback(r) PROVE Once
    BY <2>1, <2>4 DEF HandleRechargeCallback, WalletTypeOK
  <2>5. CASE CloseExpiredOrders
    BY <2>5 DEF CloseExpiredOrders
  <2>6. ASSUME NEW d \in Desks, ApproveRechargeRefund(d) PROVE Once
    <3>1. PICK r \in Recharges : r = desk[d].recharge
      BY <2>1, <2>6, KindOfWork DEF ApproveRechargeRefund, Refunding
    <3>2. Credited(r)
      BY <1>1, <2>6, <3>1 DEF WInv, RefundsOfCredited, ApproveRechargeRefund, Refunding
    <3>3. recharge' = recharge \/ recharge' = [recharge EXCEPT ![r] = "refunded"]
      BY <2>6, <3>1 DEF ApproveRechargeRefund
    <3> QED BY <2>1, <3>2, <3>3 DEF Credited, WalletTypeOK
  <2>7. \/ recharge' = recharge
        \/ \E d \in Desks, r \in Recharges : InsertRecharge(d, r)
        \/ \E r \in Recharges : HandleRechargeCallback(r)
        \/ CloseExpiredOrders
        \/ \E d \in Desks : ApproveRechargeRefund(d)
        \/ UNCHANGED walletVars
    BY <1>1 DEF WalletNext, LoadForRefund, LoadForApprove, LoadCode, OpenSession, CountTickets, InsertTicket,
       CountUse, InsertUsage, Uncount, CreditCode, Abort, Expire, UserPays, RejectRefund, Buy, GiveBack
  <2> QED BY <2>2, <2>3, <2>4, <2>5, <2>6, <2>7
<1>2. WInv /\ [WalletNext]_walletVars => [Once]_walletVars
  BY <1>1
<1>3. WalletSpec => []WInv
  BY WalletInvariant, PTL
<1> QED BY <1>2, <1>3, PTL DEF WalletSpec, RechargeIsDecidedOnce
=============================================================================
