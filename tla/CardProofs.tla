----------------------------- MODULE CardProofs -----------------------------
(* Theorems about cloud cards, for every number of cards, keys, tokens and *)
(* concurrent requests, every limit of an order and of wrong PINs, and     *)
(* whatever statement fails or restart comes between two; and about the    *)
(* sessions of the local manager, for every number of connections,         *)
(* sessions and parts of signatures.                                       *)
EXTENDS CloudCards, CardSessions, FiniteSetTheorems, TLAPS

\* What a request has in hand: the card it works on, the key, and for a PIN a counter that
\* did not lock the card when it was read.
UsesCard == DeskPC \ {"idle", "create"}
UsesKey == {"insert", "reclaim", "destroy", "remove", "other"}
InHand(r) ==
    /\ r.pc \in UsesCard => r.card \in Cards
    /\ r.pc \in UsesKey => r.key \in Keys
    /\ r.pc \in {"wrong", "right"} => r.failed < Retries

DeskRow == [pc : DeskPC, card : Cards \cup {NoCard}, key : Keys \cup {NoKey},
            failed : 0..Retries, changed : BOOLEAN]

Typed ==
    /\ CardTypeOK
    /\ \A c \in Cards : ~card[c].locked => card[c].failed < Retries
    /\ \A d \in Desks : InHand(desk[d])

-----------------------------------------------------------------------------
(* Types *)

LEMMA TypedInit == CardInit => Typed
<1> SUFFICES ASSUME CardInit PROVE Typed
  OBVIOUS
<1>1. Idle \in DeskRow /\ NewCard \in CardRow
  BY CardAssumption DEF Idle, DeskRow, DeskPC, NewCard, CardRow
<1>2. NoSession \in [card : Cards \cup {NoCard}, state : SessionState]
  BY DEF NoSession, SessionState
<1>3. /\ card \in [Cards -> CardRow] /\ desk \in [Desks -> DeskRow]
      /\ session \in [Tokens -> [card : Cards \cup {NoCard}, state : SessionState]]
  BY <1>1, <1>2 DEF CardInit
<1>4. CardTypeOK
  BY <1>3 DEF CardInit, CardTypeOK, DeskRow
<1> QED BY <1>4, CardAssumption DEF Typed, CardInit, NewCard, Idle, InHand, UsesCard, UsesKey

\* The requests that d does not serve keep what they have; d takes r.
Moves(d, r) == desk' = [desk EXCEPT ![d] = r]

LEMMA MovesTyped ==
    ASSUME Typed, NEW d \in Desks, NEW r \in DeskRow, InHand(r), Moves(d, r)
    PROVE  /\ desk' \in [Desks -> DeskRow] /\ desk'[d] = r
           /\ \A e \in Desks : InHand(desk'[e])
           /\ \A e \in Desks \ {d} : desk'[e] = desk[e]
<1>1. desk \in [Desks -> DeskRow] /\ \A e \in Desks : InHand(desk[e])
  BY DEF Typed, CardTypeOK, DeskRow
<1>2. /\ desk' \in [Desks -> DeskRow] /\ desk'[d] = r
      /\ \A e \in Desks \ {d} : desk'[e] = desk[e]
  BY <1>1 DEF Moves
<1>3. ASSUME NEW e \in Desks PROVE InHand(desk'[e])
  BY <1>1, <1>2
<1> QED BY <1>2, <1>3

LEMMA IdleTyped == Idle \in DeskRow /\ InHand(Idle)
BY CardAssumption DEF Idle, DeskRow, InHand, DeskPC, UsesCard, UsesKey

\* Where a request goes next, unless it ends: it keeps what it has in hand.
LEMMA GoesOn ==
    ASSUME Typed, NEW d \in Desks, NEW pc \in DeskPC \ {"wrong", "right"}, GoTo(d, pc),
           pc \in UsesCard => desk[d].card \in Cards,
           pc \in UsesKey => desk[d].key \in Keys
    PROVE  LET r == [desk[d] EXCEPT !.pc = pc]
           IN  /\ r \in DeskRow /\ InHand(r) /\ Moves(d, r)
               /\ r.pc = pc /\ r.card = desk[d].card /\ r.key = desk[d].key
<1>1. desk \in [Desks -> DeskRow] /\ desk[d] \in DeskRow
  BY DEF Typed, CardTypeOK, DeskRow
<1>2. [desk[d] EXCEPT !.pc = pc] \in DeskRow
  BY <1>1 DEF DeskRow
<1>3. /\ [desk[d] EXCEPT !.pc = pc].pc = pc /\ [desk[d] EXCEPT !.pc = pc].card = desk[d].card
      /\ [desk[d] EXCEPT !.pc = pc].key = desk[d].key
  BY <1>1 DEF DeskRow
<1> QED BY <1>1, <1>2, <1>3 DEF Moves, GoTo, InHand

\* A request begins, or makes a statement.
Acts(d) ==
    \/ Authorize(d) \/ DeskStep(d)
    \/ \E c \in Cards :
          \/ DeleteCard(d, c) \/ GenerateKeyPair(d, c)
          \/ \E right \in BOOLEAN : VerifyPIN(d, c, right)
          \/ \E pc \in {"unlock", "reset"} : ChangePIN(d, c, pc)
          \/ \E k \in Keys : DeleteCert(d, c, k)

\* A request is what it was, but for a PIN that may have changed.
Same(e) ==
    desk'[e].pc = desk[e].pc /\ desk'[e].card = desk[e].card /\ desk'[e].key = desk[e].key

LEMMA Begins ==
    ASSUME Typed, NEW d \in Desks, NEW pc \in DeskPC \ {"wrong", "right"},
           NEW c \in Cards \cup {NoCard}, NEW k \in Keys \cup {NoKey}, Start(d, pc, c, k),
           pc \in UsesCard => c \in Cards, pc \in UsesKey => k \in Keys
    PROVE  LET r == [Idle EXCEPT !.pc = pc, !.card = c, !.key = k]
           IN  r \in DeskRow /\ InHand(r) /\ Moves(d, r) /\ r.pc = pc /\ r.card = c /\ r.key = k
<1>1. LET r == [Idle EXCEPT !.pc = pc, !.card = c, !.key = k]
      IN  r \in DeskRow /\ r.pc = pc /\ r.card = c /\ r.key = k
  BY IdleTyped DEF DeskRow
<1> QED BY <1>1 DEF InHand, Moves, Start

LEMMA StartMoves ==
    ASSUME Typed, NEW d \in Desks,
           \/ Authorize(d)
           \/ \E c \in Cards :
                 \/ DeleteCard(d, c) \/ GenerateKeyPair(d, c)
                 \/ \E right \in BOOLEAN : VerifyPIN(d, c, right)
                 \/ \E pc \in {"unlock", "reset"} : ChangePIN(d, c, pc)
                 \/ \E k \in Keys : DeleteCert(d, c, k)
    PROVE  \E r \in DeskRow : InHand(r) /\ Moves(d, r)
<1>1. CASE Authorize(d)
  <2>1. Start(d, "create", NoCard, NoKey) /\ "create" \in DeskPC /\ "create" \notin UsesCard \cup UsesKey
    BY <1>1 DEF Authorize, DeskPC, UsesCard, UsesKey
  <2> QED BY <2>1, Begins
<1>2. ASSUME NEW c \in Cards, NEW pc \in {"clear", "generate", "unlock", "reset"}, Start(d, pc, c, NoKey)
      PROVE  \E r \in DeskRow : InHand(r) /\ Moves(d, r)
  <2>1. pc \in DeskPC \ {"wrong", "right"} /\ pc \notin UsesKey
    BY <1>2 DEF DeskPC, UsesKey
  <2> QED BY <1>2, <2>1, Begins
<1>3. ASSUME NEW c \in Cards, NEW k \in Keys, NEW pc \in {"destroy", "other"}, Start(d, pc, c, k)
      PROVE  \E r \in DeskRow : InHand(r) /\ Moves(d, r)
  <2>1. pc \in DeskPC \ {"wrong", "right"}
    BY <1>3 DEF DeskPC
  <2> QED BY <1>3, <2>1, Begins
<1>4. ASSUME NEW c \in Cards, NEW right \in BOOLEAN, VerifyPIN(d, c, right)
      PROVE  \E r \in DeskRow : InHand(r) /\ Moves(d, r)
  <2> DEFINE pc == IF right THEN "right" ELSE "wrong"
  <2> DEFINE r == [Idle EXCEPT !.pc = pc, !.card = c, !.failed = card[c].failed]
  <2>1. card[c] \in CardRow /\ card[c].failed < Retries
    BY <1>4 DEF VerifyPIN, Typed, CardTypeOK
  <2>2. pc \in DeskPC /\ pc \notin UsesKey
    BY DEF DeskPC, UsesKey
  <2>3. r \in DeskRow /\ r.pc = pc /\ r.card = c /\ r.failed = card[c].failed
    BY <2>1, <2>2, IdleTyped DEF DeskRow, CardRow
  <2>4. InHand(r)
    BY <2>1, <2>2, <2>3 DEF InHand
  <2> QED BY <1>4, <2>3, <2>4 DEF VerifyPIN, Moves
<1>5. ASSUME NEW c \in Cards, NEW k \in Keys, DeleteCert(d, c, k)
      PROVE  \E r \in DeskRow : InHand(r) /\ Moves(d, r)
  BY <1>3, <1>5 DEF DeleteCert
<1>6. ASSUME NEW c \in Cards, DeleteCard(d, c) \/ GenerateKeyPair(d, c)
      PROVE  \E r \in DeskRow : InHand(r) /\ Moves(d, r)
  BY <1>2, <1>6 DEF DeleteCard, GenerateKeyPair
<1>7. ASSUME NEW c \in Cards, NEW pc \in {"unlock", "reset"}, ChangePIN(d, c, pc)
      PROVE  \E r \in DeskRow : InHand(r) /\ Moves(d, r)
  BY <1>2, <1>7 DEF ChangePIN
<1> QED BY <1>1, <1>4, <1>5, <1>6, <1>7

\* A request that is at pc has in hand what pc works on.
LEMMA HasInHand ==
    ASSUME Typed, NEW d \in Desks
    PROVE  /\ desk[d] \in DeskRow
           /\ desk[d].pc \in UsesCard => desk[d].card \in Cards
           /\ desk[d].pc \in UsesKey => desk[d].key \in Keys
BY DEF Typed, CardTypeOK, DeskRow, InHand

LEMMA StatementMoves ==
    ASSUME Typed, NEW d \in Desks, DeskStep(d)
    PROVE  \/ \E r \in DeskRow : InHand(r) /\ Moves(d, r)
           \/ desk[d].card \in Cards /\ \E pc \in {"revoke", "puk"} : SetPIN(d, desk[d].card, pc)
<1> DEFINE Typical == \E r \in DeskRow : InHand(r) /\ Moves(d, r)
<1>1. Return(d) => Typical
  BY IdleTyped DEF Return, Moves
<1>2. ASSUME NEW pc \in {"clear", "count", "complete", "undo", "delete", "session", "puk", "revoke"},
             GoTo(d, pc), desk[d].pc \in UsesCard
      PROVE  Typical
  <2>1. pc \in DeskPC \ {"wrong", "right"} /\ pc \notin UsesKey
    BY DEF DeskPC, UsesKey
  <2> QED BY <1>2, <2>1, HasInHand, GoesOn
<1>3. ASSUME NEW pc \in {"reclaim", "remove"}, GoTo(d, pc), desk[d].pc \in UsesKey
      PROVE  Typical
  <2>1. pc \in DeskPC \ {"wrong", "right"} /\ desk[d].pc \in UsesCard
    BY <1>3 DEF DeskPC, UsesKey, UsesCard
  <2> QED BY <1>3, <2>1, HasInHand, GoesOn
<1>4. ASSUME CreateCard(d) PROVE Typical
  <2>1. ASSUME NEW c \in Cards, desk' = [desk EXCEPT ![d].pc = "bind", ![d].card = c]
        PROVE  Typical
    <3> DEFINE r == [desk[d] EXCEPT !.pc = "bind", !.card = c]
    <3>1. r \in DeskRow /\ r.pc = "bind" /\ r.card = c
      BY HasInHand DEF DeskRow, DeskPC
    <3>2. InHand(r)
      BY <3>1 DEF InHand, UsesKey
    <3>3. desk' = [desk EXCEPT ![d] = r]
      BY <2>1 DEF Typed, CardTypeOK
    <3> QED BY <3>1, <3>2, <3>3 DEF Moves
  <2> HIDE DEF Typical
  <2> QED BY <1>1, <1>4, <2>1 DEF CreateCard, FreshCards
<1>5. ASSUME GenerateKey(d) PROVE Typical
  <2>1. ASSUME NEW k \in Keys, desk' = [desk EXCEPT ![d].pc = "insert", ![d].key = k], At(d, "generate")
        PROVE  Typical
    <3> DEFINE r == [desk[d] EXCEPT !.pc = "insert", !.key = k]
    <3>1. r \in DeskRow /\ r.pc = "insert" /\ r.key = k /\ r.card = desk[d].card
      BY HasInHand DEF DeskRow, DeskPC
    <3>2. r.card \in Cards
      BY <2>1, <3>1, HasInHand DEF At, UsesCard, DeskPC
    <3>3. InHand(r)
      BY <3>1, <3>2 DEF InHand
    <3>4. desk' = [desk EXCEPT ![d] = r]
      BY <2>1 DEF Typed, CardTypeOK
    <3> QED BY <3>1, <3>3, <3>4 DEF Moves
  <2> HIDE DEF Typical
  <2> QED BY <1>1, <1>5, <2>1 DEF GenerateKey, FreshKeys
<1> HIDE DEF Typical
<1>6. ASSUME BindOrder(d) \/ Undo(d) \/ CountCards(d) \/ Complete(d) \/ ClearCerts(d) \/ DeleteRow(d)
      PROVE  Typical
  <2>1. desk[d].pc \in UsesCard
    BY <1>6 DEF BindOrder, Undo, CountCards, Complete, ClearCerts, DeleteRow, At, UsesCard, DeskPC
  <2> QED BY <1>1, <1>2, <1>6, <2>1 DEF BindOrder, Undo, CountCards, Complete, ClearCerts, DeleteRow
<1>7. ASSUME WrongPIN(d) \/ RightPIN(d) \/ CreateSession(d) \/ ResetPUK(d) \/ RevokeByCard(d)
      PROVE  Typical
  <2>1. RightPIN(d) \/ ResetPUK(d) => desk[d].pc \in UsesCard
    BY DEF RightPIN, ResetPUK, At, UsesCard, DeskPC
  <2> QED BY <1>1, <1>2, <1>7, <2>1 DEF WrongPIN, RightPIN, CreateSession, ResetPUK, RevokeByCard
<1>8. ASSUME UnlockWithPUK(d) \/ ResetPIN(d)
      PROVE  \/ Typical
             \/ desk[d].card \in Cards /\ \E pc \in {"revoke", "puk"} : SetPIN(d, desk[d].card, pc)
  <2>1. desk[d].pc \in UsesCard
    BY <1>8 DEF UnlockWithPUK, ResetPIN, At, UsesCard, DeskPC
  <2> QED BY <1>1, <1>2, <1>8, <2>1, HasInHand DEF UnlockWithPUK, ResetPIN
<1>9. ASSUME InsertCert(d) \/ Reclaim(d) \/ DestroyKey(d) \/ RemoveCert(d) \/ RemoveOther(d)
      PROVE  Typical
  <2>1. desk[d].pc \in UsesKey
    BY <1>9 DEF InsertCert, Reclaim, DestroyKey, RemoveCert, RemoveOther, At, UsesKey
  <2> QED BY <1>1, <1>3, <1>9, <2>1 DEF InsertCert, Reclaim, DestroyKey, RemoveCert, RemoveOther
<1> QED BY <1>4, <1>5, <1>6, <1>7, <1>8, <1>9 DEF DeskStep, Typical

LEMMA SetPINMoves ==
    ASSUME Typed, NEW d \in Desks, desk[d].card \in Cards, NEW pc \in {"revoke", "puk"},
           SetPIN(d, desk[d].card, pc)
    PROVE  /\ desk' \in [Desks -> DeskRow] /\ \A e \in Desks : InHand(desk'[e])
           /\ \A e \in Desks \ {d} : Same(e)
           /\ desk'[d].pc = pc /\ desk'[d].card = desk[d].card /\ desk'[d].key = desk[d].key
<1>1. pc \in DeskPC /\ pc \notin UsesKey \cup {"wrong", "right"}
  BY DEF DeskPC, UsesKey
<1>2. ASSUME NEW e \in Desks
      PROVE  /\ desk'[e] \in DeskRow /\ InHand(desk'[e])
             /\ e # d => Same(e)
             /\ desk'[e].card = desk[e].card /\ desk'[e].key = desk[e].key
             /\ e = d => desk'[e].pc = pc
  <2>1. desk[e] \in DeskRow /\ InHand(desk[e])
    BY DEF Typed, CardTypeOK, DeskRow
  <2>2. desk'[e] \in {[desk[e] EXCEPT !.pc = pc], [desk[e] EXCEPT !.changed = TRUE], desk[e]}
    BY DEF SetPIN
  <2>3. e = d => desk'[e] = [desk[e] EXCEPT !.pc = pc]
    BY DEF SetPIN
  <2>4. e # d => desk'[e] \in {[desk[e] EXCEPT !.changed = TRUE], desk[e]}
    BY DEF SetPIN
  <2>5. LET r == [desk[e] EXCEPT !.pc = pc]
        IN  r \in DeskRow /\ r.pc = pc /\ r.card = desk[e].card /\ r.key = desk[e].key
    BY <1>1, <2>1 DEF DeskRow
  <2>6. LET r == [desk[e] EXCEPT !.changed = TRUE]
        IN  r \in DeskRow /\ r.pc = desk[e].pc /\ r.card = desk[e].card /\ r.key = desk[e].key
            /\ r.failed = desk[e].failed
    BY <2>1 DEF DeskRow
  <2>7. CASE e = d
    BY <1>1, <2>3, <2>5, <2>7 DEF InHand
  <2>8. CASE e # d
    BY <2>1, <2>4, <2>6, <2>8 DEF InHand, Same
  <2> QED BY <2>7, <2>8
<1>3. desk' \in [Desks -> DeskRow]
  <2>1. DOMAIN desk' = Desks /\ desk' = [e \in Desks |-> desk'[e]]
    BY DEF SetPIN
  <2> QED BY <1>2, <2>1
<1> QED BY <1>2, <1>3

LEMMA ActsTyped ==
    ASSUME Typed, NEW d \in Desks, Acts(d)
    PROVE  /\ desk' \in [Desks -> DeskRow] /\ \A e \in Desks : InHand(desk'[e])
           /\ \A e \in Desks \ {d} : Same(e)
<1>1. ASSUME NEW r \in DeskRow, InHand(r), Moves(d, r)
      PROVE  /\ desk' \in [Desks -> DeskRow] /\ \A e \in Desks : InHand(desk'[e])
             /\ \A e \in Desks \ {d} : Same(e)
  BY <1>1, MovesTyped DEF Same
<1> QED BY <1>1, StartMoves, StatementMoves, SetPINMoves DEF Acts

\* The rows of cards after a step.
CardsFine ==
    card' \in [Cards -> CardRow] /\ \A c \in Cards : ~card'[c].locked => card'[c].failed < Retries

CardsStay ==
    \A c \in Cards : card'[c].there = card[c].there /\ card'[c].bound = card[c].bound

LEMMA StatusSet ==
    ASSUME Typed, NEW c \in Cards, NEW n \in 0..Retries, NEW locked \in BOOLEAN,
           ~locked => n < Retries, SetStatus(c, n, locked)
    PROVE  CardsFine /\ CardsStay
<1> DEFINE row == [card[c] EXCEPT !.failed = n, !.locked = locked]
<1>1. card \in [Cards -> CardRow] /\ \A x \in Cards : ~card[x].locked => card[x].failed < Retries
  BY DEF Typed, CardTypeOK
<1>2. card' = card \/ card' = [card EXCEPT ![c] = row]
  BY <1>1 DEF SetStatus
<1>3. /\ row \in CardRow /\ row.there = card[c].there /\ row.bound = card[c].bound
      /\ row.locked = locked /\ row.failed = n
  BY <1>1 DEF CardRow
<1> HIDE DEF row
<1> QED BY <1>1, <1>2, <1>3 DEF CardsFine, CardsStay

LEMMA CardsTyped ==
    ASSUME Typed, NEW d \in Desks, Acts(d)
    PROVE  /\ CardsFine
           /\ CardsStay \/ CreateCard(d) \/ BindOrder(d) \/ DeleteRow(d)
<1>1. card \in [Cards -> CardRow] /\ \A c \in Cards : ~card[c].locked => card[c].failed < Retries
  BY DEF Typed, CardTypeOK
<1>2. UNCHANGED card => CardsFine /\ CardsStay
  BY <1>1 DEF CardsFine, CardsStay
<1>3. ASSUME NEW c \in Cards, NEW row \in CardRow, ~row.locked => row.failed < Retries,
             card' = [card EXCEPT ![c] = row]
      PROVE  CardsFine
  BY <1>1, <1>3 DEF CardsFine
<1>4. ASSUME CreateCard(d) PROVE CardsFine
  <2>1. ASSUME NEW c \in Cards, card' = [card EXCEPT ![c].there = TRUE] PROVE CardsFine
    <3>1. [card[c] EXCEPT !.there = TRUE] \in CardRow
      BY <1>1 DEF CardRow
    <3>2. LET row == [card[c] EXCEPT !.there = TRUE]
          IN  row.locked = card[c].locked /\ row.failed = card[c].failed
      BY <1>1 DEF CardRow
    <3>3. card' = [card EXCEPT ![c] = [card[c] EXCEPT !.there = TRUE]]
      BY <2>1, <1>1
    <3> QED BY <1>1, <1>3, <3>1, <3>2, <3>3
  <2> QED BY <1>2, <1>4, <2>1 DEF CreateCard, FreshCards
<1>5. ASSUME BindOrder(d) PROVE CardsFine
  <2>1. desk[d].card \in Cards
    BY <1>5, HasInHand DEF BindOrder, At, UsesCard, DeskPC
  <2>2. PICK c \in Cards : c = desk[d].card
    BY <2>1
  <2>3. [card[c] EXCEPT !.bound = TRUE] \in CardRow
    BY <1>1 DEF CardRow
  <2>4. LET row == [card[c] EXCEPT !.bound = TRUE]
        IN  row.locked = card[c].locked /\ row.failed = card[c].failed
    BY <1>1 DEF CardRow
  <2>5. card' = [card EXCEPT ![c] = [card[c] EXCEPT !.bound = TRUE]] \/ UNCHANGED card
    BY <1>5, <2>2, <1>1 DEF BindOrder
  <2> QED BY <1>1, <1>2, <1>3, <2>3, <2>4, <2>5
<1>6. ASSUME DeleteRow(d) PROVE CardsFine
  <2>1. desk[d].card \in Cards
    BY <1>6, HasInHand DEF DeleteRow, At, UsesCard, DeskPC
  <2>2. NewCard \in CardRow /\ NewCard.failed < Retries
    BY CardAssumption DEF NewCard, CardRow
  <2>3. card' = [card EXCEPT ![desk[d].card] = NewCard] \/ UNCHANGED card
    BY <1>6 DEF DeleteRow
  <2> QED BY <1>2, <1>3, <2>1, <2>2, <2>3
<1>7. ASSUME WrongPIN(d) PROVE CardsFine /\ CardsStay
  <2>1. /\ desk[d].card \in Cards /\ desk[d].failed \in 0..Retries /\ desk[d].failed < Retries
        /\ Retries \in Nat
    BY <1>7, CardAssumption, HasInHand DEF WrongPIN, At, UsesCard, DeskPC, DeskRow, Typed, InHand
  <2>2. PICK n \in 0..Retries : n = desk[d].failed + 1
    BY <2>1
  <2>3. /\ (n >= Retries) \in BOOLEAN /\ (~(n >= Retries) => n < Retries)
        /\ SetStatus(desk[d].card, n, n >= Retries) \/ UNCHANGED card
    BY <1>7, <2>1, <2>2 DEF WrongPIN
  <2> QED BY <1>2, <2>1, <2>3, StatusSet
<1>8. ASSUME RightPIN(d) \/ UnlockWithPUK(d) \/ ResetPIN(d) PROVE CardsFine /\ CardsStay
  <2>1. desk[d].card \in Cards
    BY <1>8, HasInHand DEF RightPIN, UnlockWithPUK, ResetPIN, At, UsesCard, DeskPC
  <2>2. 0 \in 0..Retries /\ 0 < Retries
    BY CardAssumption
  <2>3. \/ SetStatus(desk[d].card, 0, FALSE) \/ UNCHANGED card
        \/ \E pc \in {"revoke", "puk"} : SetPIN(d, desk[d].card, pc)
    BY <1>8 DEF RightPIN, UnlockWithPUK, ResetPIN
  <2>4. ASSUME NEW pc \in {"revoke", "puk"}, SetPIN(d, desk[d].card, pc)
        PROVE  SetStatus(desk[d].card, 0, FALSE)
    BY <2>4 DEF SetPIN, SetStatus
  <2> QED BY <1>2, <2>1, <2>2, <2>3, <2>4, StatusSet
<1>9. \/ UNCHANGED card
      \/ CreateCard(d) \/ BindOrder(d) \/ DeleteRow(d)
      \/ WrongPIN(d) \/ RightPIN(d) \/ UnlockWithPUK(d) \/ ResetPIN(d)
  BY DEF Acts, DeskStep, Authorize, DeleteCard, GenerateKeyPair, VerifyPIN, ChangePIN, DeleteCert,
         Undo, CountCards, Complete, ClearCerts, CreateSession, ResetPUK, RevokeByCard,
         GenerateKey, InsertCert, Reclaim, DestroyKey, RemoveCert, RemoveOther
<1> QED BY <1>2, <1>4, <1>5, <1>6, <1>7, <1>8, <1>9

LEMMA KeysTyped ==
    ASSUME Typed, NEW d \in Desks, Acts(d)
    PROVE  /\ device' \subseteq Keys /\ cert' \in [Keys -> Cards \cup {NoCard}]
           /\ left' \subseteq Cards \cup Keys /\ abandoned' \subseteq Keys
<1>1. /\ device \subseteq Keys /\ cert \in [Keys -> Cards \cup {NoCard}]
      /\ left \subseteq Cards \cup Keys /\ abandoned \subseteq Keys
  BY DEF Typed, CardTypeOK
<1>2. CASE UNCHANGED <<device, cert, left, abandoned>>
  BY <1>1, <1>2
<1>3. CASE Undo(d) \/ ClearCerts(d) \/ DeleteRow(d)
  <2>1. desk[d].card \in Cards
    BY <1>3, HasInHand DEF Undo, ClearCerts, DeleteRow, At, UsesCard, DeskPC
  <2>2. \A rest \in SUBSET left : Drop(desk[d].card, rest) =>
           /\ cert' \in [Keys -> Cards \cup {NoCard}]
           /\ left' \subseteq Cards \cup Keys /\ abandoned' \subseteq Keys
    BY <1>1 DEF Drop, KeysOn
  <2> QED BY <1>1, <1>3, <2>1, <2>2 DEF Undo, ClearCerts, DeleteRow, Stays
<1>4. CASE GenerateKey(d)
  BY <1>1, <1>4 DEF GenerateKey, FreshKeys
<1>5. CASE InsertCert(d) \/ Reclaim(d) \/ DestroyKey(d) \/ RemoveCert(d) \/ RemoveOther(d)
  <2>1. desk[d].card \in Cards /\ desk[d].key \in Keys
    BY <1>5, HasInHand
       DEF InsertCert, Reclaim, DestroyKey, RemoveCert, RemoveOther, At, UsesCard, UsesKey, DeskPC
  <2>2. /\ [cert EXCEPT ![desk[d].key] = desk[d].card] \in [Keys -> Cards \cup {NoCard}]
        /\ [cert EXCEPT ![desk[d].key] = NoCard] \in [Keys -> Cards \cup {NoCard}]
    BY <1>1, <2>1
  <2> QED BY <1>1, <1>5, <2>1, <2>2 DEF InsertCert, Reclaim, DestroyKey, RemoveCert, RemoveOther, Destroy
<1> QED BY <1>2, <1>3, <1>4, <1>5
        DEF Acts, DeskStep, Authorize, DeleteCard, GenerateKeyPair, VerifyPIN, ChangePIN, DeleteCert,
            CreateCard, BindOrder, CountCards, Complete, WrongPIN, RightPIN, CreateSession,
            UnlockWithPUK, ResetPIN, ResetPUK, RevokeByCard

SessionRow == [card : Cards \cup {NoCard}, state : SessionState]

LEMMA SessionsTyped ==
    ASSUME Typed, NEW d \in Desks, Acts(d)
    PROVE  session' \in [Tokens -> SessionRow]
<1>1. session \in [Tokens -> SessionRow] /\ NoSession \in SessionRow /\ desk[d].card \in Cards \cup {NoCard}
  BY HasInHand DEF Typed, CardTypeOK, SessionRow, NoSession, SessionState, DeskRow
<1>2. CASE CreateSession(d)
  <2>1. PICK t \in Tokens, st \in SessionState :
           session' = [session EXCEPT ![t] = [card |-> desk[d].card, state |-> st]]
    BY <1>2 DEF CreateSession, SessionState
  <2>2. [card |-> desk[d].card, state |-> st] \in SessionRow
    BY <1>1 DEF SessionRow
  <2> QED BY <1>1, <2>1, <2>2
<1>3. ASSUME NEW pc \in {"revoke", "puk"}, SetPIN(d, desk[d].card, pc)
      PROVE  session' \in [Tokens -> SessionRow]
  <2>1. \A t \in Tokens : [session[t] EXCEPT !.state = "outdated"] \in SessionRow
    BY <1>1 DEF SessionRow, SessionState
  <2> QED BY <1>1, <1>3, <2>1 DEF SetPIN
<1>4. CASE UnlockWithPUK(d) \/ ResetPIN(d)
  BY <1>1, <1>3, <1>4 DEF UnlockWithPUK, ResetPIN
<1>5. CASE ResetPUK(d)
  <2>1. \A t \in Tokens : [session[t] EXCEPT !.state = "excused"] \in SessionRow
    BY <1>1 DEF SessionRow, SessionState
  <2> QED BY <1>1, <1>5, <2>1 DEF ResetPUK
<1>6. CASE RevokeByCard(d)
  BY <1>1, <1>6 DEF RevokeByCard
<1>7. CASE UNCHANGED session
  BY <1>1, <1>7
<1> QED BY <1>2, <1>4, <1>5, <1>6, <1>7
        DEF Acts, DeskStep, Authorize, DeleteCard, GenerateKeyPair, VerifyPIN, ChangePIN, DeleteCert,
            CreateCard, BindOrder, Undo, CountCards, Complete, ClearCerts, DeleteRow, WrongPIN,
            RightPIN, GenerateKey, InsertCert, Reclaim, DestroyKey, RemoveCert, RemoveOther

LEMMA OrderTyped ==
    ASSUME Typed, NEW d \in Desks, Acts(d)
    PROVE  order' \in {"paid", "completed", "refunded"} /\ usedUp' \in BOOLEAN /\ missed' \in BOOLEAN
<1>1. order \in {"paid", "completed", "refunded"} /\ usedUp \in BOOLEAN /\ missed \in BOOLEAN
  BY DEF Typed, CardTypeOK
<1>2. order' \in {order, "completed"}
  BY DEF Acts, DeskStep, Authorize, DeleteCard, GenerateKeyPair, VerifyPIN, ChangePIN, DeleteCert,
         CreateCard, BindOrder, Undo, CountCards, Complete, ClearCerts, DeleteRow, WrongPIN,
         RightPIN, CreateSession, UnlockWithPUK, ResetPIN, ResetPUK, RevokeByCard, GenerateKey,
         InsertCert, Reclaim, DestroyKey, RemoveCert, RemoveOther
<1>3. usedUp' = usedUp \/ usedUp' \in BOOLEAN
  BY <1>1, Zenon
  DEF Acts, DeskStep, Authorize, DeleteCard, GenerateKeyPair, VerifyPIN, ChangePIN, DeleteCert,
         CreateCard, BindOrder, Undo, CountCards, Complete, ClearCerts, DeleteRow, WrongPIN,
         RightPIN, CreateSession, UnlockWithPUK, ResetPIN, ResetPUK, RevokeByCard, GenerateKey,
         InsertCert, Reclaim, DestroyKey, RemoveCert, RemoveOther
<1>4. missed' = missed \/ missed' = TRUE
  BY DEF Acts, DeskStep, Authorize, DeleteCard, GenerateKeyPair, VerifyPIN, ChangePIN, DeleteCert,
         CreateCard, BindOrder, Undo, CountCards, Complete, ClearCerts, DeleteRow, WrongPIN,
         RightPIN, CreateSession, UnlockWithPUK, ResetPIN, ResetPUK, RevokeByCard, GenerateKey,
         InsertCert, Reclaim, DestroyKey, RemoveCert, RemoveOther
<1> QED BY <1>1, <1>2, <1>3, <1>4

LEMMA NextActs ==
    ASSUME [CardNext]_cardVars
    PROVE  \/ \E d \in Desks : Acts(d)
           \/ Refund \/ Restart \/ \E t \in Tokens : EndSession(t)
           \/ UNCHANGED cardVars
BY DEF CardNext, Acts

LEMMA TypedStep == Typed /\ [CardNext]_cardVars => Typed'
<1> SUFFICES ASSUME Typed, [CardNext]_cardVars PROVE Typed'
  OBVIOUS
<1>1. ASSUME NEW d \in Desks, Acts(d) PROVE Typed'
  <2>1. CardTypeOK'
    <3>1. /\ desk' \in [Desks -> DeskRow] /\ card' \in [Cards -> CardRow]
          /\ session' \in [Tokens -> SessionRow]
      BY <1>1, ActsTyped, CardsTyped, SessionsTyped DEF CardsFine
    <3>2. /\ device' \subseteq Keys /\ cert' \in [Keys -> Cards \cup {NoCard}]
          /\ left' \subseteq Cards \cup Keys /\ abandoned' \subseteq Keys
      BY <1>1, KeysTyped
    <3>3. order' \in {"paid", "completed", "refunded"} /\ usedUp' \in BOOLEAN /\ missed' \in BOOLEAN
      BY <1>1, OrderTyped
    <3> QED BY <3>1, <3>2, <3>3, Zenon DEF CardTypeOK, DeskRow, SessionRow
  <2>2. \A c \in Cards : ~card'[c].locked => card'[c].failed < Retries
    BY <1>1, CardsTyped DEF CardsFine
  <2>3. \A e \in Desks : InHand(desk'[e])
    BY <1>1, ActsTyped
  <2>4. (\A e \in Desks : InHand(desk[e]))'
    BY <2>3 DEF InHand
  <2> QED BY <2>1, <2>2, <2>4 DEF Typed
<1>2. /\ CardTypeOK /\ (\A c \in Cards : ~card[c].locked => card[c].failed < Retries)
      /\ \A d \in Desks : InHand(desk[d])
  BY DEF Typed
<1>3. NoSession \in SessionRow
  BY DEF NoSession, SessionRow, SessionState
<1>4. CASE Refund \/ UNCHANGED cardVars
  <2>1. /\ order' \in {order, "refunded"}
        /\ UNCHANGED <<card, device, cert, session, desk, usedUp, missed, left, abandoned>>
    BY <1>4 DEF Refund, cardVars
  <2> QED BY <1>2, <2>1 DEF Typed, CardTypeOK, InHand
<1>5. CASE \E t \in Tokens : EndSession(t)
  <2>1. session' \in [Tokens -> SessionRow]
    BY <1>2, <1>3, <1>5 DEF CardTypeOK, SessionRow, EndSession
  <2>2. UNCHANGED <<order, card, device, cert, desk, usedUp, missed, left, abandoned>>
    BY <1>5 DEF EndSession
  <2> QED BY <1>2, <2>1, <2>2 DEF Typed, CardTypeOK, InHand, SessionRow
<1>6. CASE Restart
  <2>1. session' \in [Tokens -> SessionRow] /\ desk' \in [Desks -> DeskRow]
    BY <1>3, <1>6, IdleTyped DEF Restart
  <2>2. \A d \in Desks : InHand(desk'[d])
    BY <1>6, IdleTyped DEF Restart
  <2>3. left' \subseteq Cards \cup Keys /\ missed' \in BOOLEAN
    BY <1>2, <1>6 DEF CardTypeOK, Restart
  <2>4. UNCHANGED <<order, card, device, cert, usedUp, abandoned>>
    BY <1>6 DEF Restart
  <2>5. CardTypeOK'
    BY <1>2, <2>1, <2>3, <2>4, Zenon DEF CardTypeOK, SessionRow, DeskRow
  <2> QED BY <1>2, <2>2, <2>4, <2>5 DEF Typed, InHand
<1> QED BY <1>1, <1>4, <1>5, <1>6, NextActs

\* Where a request is after its step, and what it has in hand.
LEMMA Arrives ==
    ASSUME Typed, NEW d \in Desks
    PROVE  /\ Return(d) => desk'[d] = Idle /\ desk'[d].pc = "idle"
           /\ \A pc \in DeskPC : GoTo(d, pc) => /\ desk'[d].pc = pc /\ desk'[d].card = desk[d].card
                                                /\ desk'[d].key = desk[d].key
           /\ \A c, k : \A pc \in DeskPC : Start(d, pc, c, k) =>
                 desk[d].pc = "idle" /\ desk'[d].pc = pc /\ desk'[d].card = c /\ desk'[d].key = k
           /\ \A c, pc : SetPIN(d, c, pc) => /\ desk'[d].pc = pc /\ desk'[d].card = desk[d].card
                                             /\ desk'[d].key = desk[d].key
           /\ \A c, right : VerifyPIN(d, c, right) =>
                 desk[d].pc = "idle" /\ desk'[d].pc \in {"right", "wrong"} /\ desk'[d].key = NoKey
           /\ CreateCard(d) => desk'[d].pc \in {"bind", "idle"}
           /\ GenerateKey(d) => desk'[d].pc \in {"insert", "idle"}
<1>1. desk \in [Desks -> DeskRow] /\ desk[d] \in DeskRow
  BY HasInHand DEF Typed, CardTypeOK, DeskRow
<1>2. Return(d) => desk'[d] = Idle /\ desk'[d].pc = "idle"
  BY <1>1 DEF Return, Idle
<1>3. ASSUME NEW pc \in DeskPC, GoTo(d, pc)
      PROVE  desk'[d].pc = pc /\ desk'[d].card = desk[d].card /\ desk'[d].key = desk[d].key
  BY <1>1, <1>3 DEF GoTo, DeskRow
<1>4. ASSUME NEW pc \in DeskPC, NEW c, NEW k, Start(d, pc, c, k)
      PROVE  desk[d].pc = "idle" /\ desk'[d].pc = pc /\ desk'[d].card = c /\ desk'[d].key = k
  BY <1>1, <1>4 DEF Start, Idle
<1>5. ASSUME NEW c, NEW pc, SetPIN(d, c, pc)
      PROVE  desk'[d].pc = pc /\ desk'[d].card = desk[d].card /\ desk'[d].key = desk[d].key
  BY <1>1, <1>5 DEF SetPIN, DeskRow
<1>6. ASSUME NEW c, NEW right, VerifyPIN(d, c, right)
      PROVE  desk[d].pc = "idle" /\ desk'[d].pc \in {"right", "wrong"} /\ desk'[d].key = NoKey
  <2>1. desk[d].pc = "idle"
    BY <1>6 DEF VerifyPIN, Idle
  <2>2. desk'[d] = [Idle EXCEPT !.pc = IF right THEN "right" ELSE "wrong",
                                !.card = c, !.failed = card[c].failed]
    BY <1>1, <1>6 DEF VerifyPIN
  <2> QED BY <2>1, <2>2 DEF Idle
<1>7. CreateCard(d) => desk'[d].pc \in {"bind", "idle"}
  BY <1>1, <1>2 DEF CreateCard, DeskRow
<1>8. GenerateKey(d) => desk'[d].pc \in {"insert", "idle"}
  BY <1>1, <1>2 DEF GenerateKey, DeskRow
<1> QED BY <1>2, <1>3, <1>4, <1>5, <1>6, <1>7, <1>8

-----------------------------------------------------------------------------
(* The cards of an order *)

Counting == {"count", "complete"}

OrderInv ==
    /\ IsFiniteSet(Bound) /\ CardOrderKept
    /\ Cardinality(Bound) = Limit /\ Limit > 0 => usedUp
    /\ \A d \in Desks : desk[d].pc \in Counting => Limit > 0 /\ (desk[d].pc = "complete" => usedUp)

\* No card is bound and no request counts because of the step.
LEMMA OrderQuiet ==
    ASSUME OrderInv, Bound' \subseteq Bound, UNCHANGED <<order, usedUp>>, missed => missed',
           \A d \in Desks : desk[d].pc # desk'[d].pc =>
                               desk[d].pc \notin Counting /\ desk'[d].pc \notin Counting
    PROVE  OrderInv'
<1>1. /\ IsFiniteSet(Bound') /\ IsFiniteSet(Bound) /\ Cardinality(Bound') <= Cardinality(Bound)
      /\ Cardinality(Bound) \in Nat /\ Cardinality(Bound') \in Nat
  BY FS_Subset, FS_CardinalityType DEF OrderInv
<1>2. Limit \in Nat
  BY CardAssumption
<1>3. CardOrderKept'
  BY <1>1, <1>2 DEF OrderInv, CardOrderKept, Counting
<1>4. Cardinality(Bound') = Limit /\ Limit > 0 => usedUp'
  BY <1>1, <1>2 DEF OrderInv, CardOrderKept
<1> QED BY <1>1, <1>3, <1>4 DEF OrderInv

LEMMA ActsQuietly ==
    ASSUME Typed, NEW d \in Desks, Acts(d), ~(BindOrder(d) \/ CountCards(d) \/ Complete(d))
    PROVE  /\ Bound' \subseteq Bound /\ UNCHANGED <<order, usedUp, missed>>
           /\ desk[d].pc \notin Counting /\ desk'[d].pc \notin Counting
<1> USE DEF Acts, DeskStep
<1>1. UNCHANGED <<order, usedUp, missed>>
  BY DEF Authorize, DeleteCard, GenerateKeyPair, VerifyPIN, ChangePIN, DeleteCert,
         CreateCard, Undo, ClearCerts, DeleteRow, WrongPIN, RightPIN, CreateSession, UnlockWithPUK,
         ResetPIN, ResetPUK, RevokeByCard, GenerateKey, InsertCert, Reclaim, DestroyKey, RemoveCert,
         RemoveOther
<1>2. Bound' \subseteq Bound
  <2>1. CASE CardsStay
    BY <2>1 DEF CardsStay, Bound
  <2>2. CASE CreateCard(d)
    <3>1. \/ UNCHANGED card
          \/ \E c \in FreshCards : card' = [card EXCEPT ![c].there = TRUE]
      BY <2>2 DEF CreateCard
    <3>2. card \in [Cards -> CardRow]
      BY DEF Typed, CardTypeOK
    <3> QED BY <3>1, <3>2 DEF FreshCards, NewCard, Bound, CardRow
  <2>3. CASE DeleteRow(d)
    <3>1. UNCHANGED card \/ card' = [card EXCEPT ![desk[d].card] = NewCard]
      BY <2>3 DEF DeleteRow
    <3>2. card \in [Cards -> CardRow]
      BY DEF Typed, CardTypeOK
    <3> QED BY <3>1, <3>2 DEF NewCard, Bound
  <2> QED BY <2>1, <2>2, <2>3, CardsTyped
<1>3. CASE Authorize(d) \/ \E c \in Cards :
                 \/ DeleteCard(d, c) \/ GenerateKeyPair(d, c)
                 \/ \E pc \in {"unlock", "reset"} : ChangePIN(d, c, pc)
                 \/ \E k \in Keys : DeleteCert(d, c, k)
  <2>1. \E c, k : \E pc \in DeskPC \ Counting : Start(d, pc, c, k)
    BY <1>3 DEF Authorize, DeleteCard, GenerateKeyPair, ChangePIN, DeleteCert, DeskPC, Counting
  <2> QED BY <1>1, <1>2, <2>1, Arrives DEF Counting
<1>4. CASE \E c \in Cards, right \in BOOLEAN : VerifyPIN(d, c, right)
  BY <1>1, <1>2, <1>4, Arrives DEF Counting
<1>5. CASE DeskStep(d)
  <2>1. desk[d].pc \notin Counting
    BY <1>5 DEF At, Counting,
         CreateCard, Undo, ClearCerts, DeleteRow, WrongPIN, RightPIN, CreateSession, UnlockWithPUK,
         ResetPIN, ResetPUK, RevokeByCard, GenerateKey, InsertCert, Reclaim, DestroyKey, RemoveCert,
         RemoveOther
  <2>2. \/ Return(d)
        \/ \E pc \in DeskPC \ Counting : GoTo(d, pc) \/ \E c : SetPIN(d, c, pc)
        \/ CreateCard(d) \/ GenerateKey(d)
    BY <1>5 DEF Undo, ClearCerts, DeleteRow, WrongPIN, RightPIN, CreateSession, UnlockWithPUK,
         ResetPIN, ResetPUK, RevokeByCard, InsertCert, Reclaim, DestroyKey, RemoveCert,
         RemoveOther, DeskPC, Counting
  <2>3. desk'[d].pc \notin Counting
    BY <2>2, Arrives DEF Counting
  <2> QED BY <1>1, <1>2, <2>1, <2>3
<1> QED BY <1>3, <1>4, <1>5

LEMMA OrderInit == CardInit => OrderInv
<1> SUFFICES ASSUME CardInit PROVE OrderInv
  OBVIOUS
<1>1. Bound = {}
  BY DEF CardInit, Bound, NewCard
<1>2. IsFiniteSet(Bound) /\ Cardinality(Bound) = 0
  BY <1>1, FS_EmptySet
<1> QED BY <1>2, CardAssumption DEF CardInit, OrderInv, CardOrderKept, Idle, Counting

\* Binding another card.
LEMMA BindStep ==
    ASSUME Typed, OrderInv, NEW d \in Desks, BindOrder(d)
    PROVE  OrderInv'
<1> DEFINE n == Cardinality(Bound)
<1>1. /\ IsFiniteSet(Bound) /\ n \in Nat /\ Limit \in Nat /\ desk[d].card \in Cards
      /\ card \in [Cards -> CardRow] /\ desk[d].pc \notin Counting
  BY FS_CardinalityType, CardAssumption, HasInHand
     DEF OrderInv, BindOrder, At, UsesCard, DeskPC, Typed, CardTypeOK, Counting
<1>2. \A e \in Desks \ {d} : Same(e)
  BY ActsTyped DEF Acts, DeskStep
<1>3. CASE UNCHANGED <<card, usedUp>> /\ GoTo(d, "undo")
  <2>1. desk'[d].pc = "undo"
    BY <1>3, Arrives DEF DeskPC
  <2>2. UNCHANGED <<order, usedUp, missed>> /\ Bound' = Bound
    BY <1>3, <1>1 DEF BindOrder, Bound, CardRow
  <2>3. desk'[d].pc \notin Counting
    BY <2>1 DEF Counting
  <2> QED BY <1>1, <1>2, <2>2, <2>3, OrderQuiet DEF Same
<1>4. CASE /\ card[desk[d].card].there /\ n < Limit
           /\ card' = [card EXCEPT ![desk[d].card].bound = TRUE]
           /\ usedUp' = (usedUp \/ n + 1 = Limit)
           /\ GoTo(d, "count")
  <2>1. desk'[d].pc = "count" /\ UNCHANGED <<order, missed>>
    BY <1>4, Arrives DEF DeskPC, BindOrder
  <2>2. Bound' = Bound \cup {desk[d].card}
    BY <1>1, <1>4 DEF Bound, CardRow
  <2>3. IsFiniteSet(Bound') /\ Cardinality(Bound') \in {n, n + 1} /\ Cardinality(Bound') \in Nat
    BY <1>1, <2>2, FS_AddElement, FS_CardinalityType
  <2>4. (usedUp => usedUp') /\ (n + 1 = Limit => usedUp')
    BY <1>4, Zenon
  <2>5. Cardinality(Bound') <= Limit /\ (Cardinality(Bound') = Limit => usedUp')
    <3>1. n < Limit
      BY <1>4
    <3> HIDE DEF n
    <3> QED BY <1>1, <2>3, <2>4, <3>1
  <2>6. CardOrderKept'
    BY <2>1, <2>4, <2>5 DEF OrderInv, CardOrderKept
  <2>7. \A e \in Desks : desk'[e].pc \in Counting => Limit > 0 /\ (desk'[e].pc = "complete" => usedUp')
    <3>1. ASSUME NEW e \in Desks \ {d}
          PROVE  desk'[e].pc \in Counting => Limit > 0 /\ (desk'[e].pc = "complete" => usedUp')
      BY <1>2, <2>4, <3>1 DEF OrderInv, Same
    <3>2. Limit > 0
      BY <1>1, <1>4
    <3> QED BY <2>1, <3>1, <3>2
  <2> HIDE DEF n
  <2> QED BY <2>3, <2>5, <2>6, <2>7 DEF OrderInv
<1> QED BY <1>3, <1>4 DEF BindOrder

LEMMA CountStep ==
    ASSUME Typed, OrderInv, NEW d \in Desks, CountCards(d)
    PROVE  OrderInv'
<1>1. /\ \A e \in Desks \ {d} : Same(e)
      /\ UNCHANGED <<order, card, usedUp>> /\ desk[d].pc = "count"
      /\ Cardinality(Bound) \in Nat /\ Limit \in Nat
  BY ActsTyped, FS_CardinalityType, CardAssumption DEF OrderInv, Acts, DeskStep, CountCards, At
<1>2. Bound' = Bound
  BY <1>1 DEF Bound
<1>3. Limit > 0 /\ Cardinality(Bound) <= Limit
  BY <1>1 DEF OrderInv, Counting, CardOrderKept
<1>4. \/ Return(d) /\ Cardinality(Bound) < Limit /\ UNCHANGED missed
      \/ Return(d) /\ missed' = TRUE
      \/ GoTo(d, "complete") /\ Cardinality(Bound) = Limit /\ UNCHANGED missed
  BY <1>1, <1>3 DEF CountCards
<1>5. \/ desk'[d].pc = "idle" /\ Cardinality(Bound) < Limit /\ UNCHANGED missed
      \/ desk'[d].pc = "idle" /\ missed' = TRUE
      \/ desk'[d].pc = "complete" /\ Cardinality(Bound) = Limit /\ UNCHANGED missed
  BY <1>4, Arrives DEF DeskPC
<1>6. CardOrderKept'
  BY <1>1, <1>2, <1>3, <1>5 DEF OrderInv, CardOrderKept, Same
<1>7. \A e \in Desks : desk'[e].pc \in Counting => Limit > 0 /\ (desk'[e].pc = "complete" => usedUp')
  BY <1>1, <1>3, <1>5 DEF OrderInv, Same, Counting
<1> QED BY <1>1, <1>2, <1>6, <1>7 DEF OrderInv

LEMMA CompleteStep ==
    ASSUME Typed, OrderInv, NEW d \in Desks, Complete(d)
    PROVE  OrderInv'
<1>1. /\ \A e \in Desks \ {d} : Same(e)
      /\ UNCHANGED <<card, usedUp>> /\ desk[d].pc = "complete" /\ desk'[d].pc = "idle"
  BY ActsTyped, Arrives DEF Acts, DeskStep, Complete, At
<1>2. \/ missed' = TRUE /\ order' = order
      \/ missed' = missed /\ order' \in {order, "completed"} /\ order' # "paid"
  BY DEF Complete
<1>3. Bound' = Bound
  BY <1>1 DEF Bound
<1>4. usedUp
  BY <1>1 DEF OrderInv, Counting
<1>5. CardOrderKept'
  <2>1. (order' = "completed" => usedUp') /\ (order' = "paid" => missed')
    BY <1>1, <1>2, <1>4
  <2> QED BY <1>3, <2>1 DEF OrderInv, CardOrderKept
<1>6. \A e \in Desks : desk'[e].pc \in Counting => Limit > 0 /\ (desk'[e].pc = "complete" => usedUp')
  BY <1>1, <1>4 DEF OrderInv, Same, Counting
<1> QED BY <1>1, <1>3, <1>5, <1>6 DEF OrderInv

LEMMA OrderStep == Typed /\ OrderInv /\ [CardNext]_cardVars => OrderInv'
<1> SUFFICES ASSUME Typed, OrderInv, [CardNext]_cardVars PROVE OrderInv'
  OBVIOUS
<1>1. ASSUME NEW d \in Desks, Acts(d) PROVE OrderInv'
  <2>1. CASE BindOrder(d) \/ CountCards(d) \/ Complete(d)
    BY <2>1, BindStep, CountStep, CompleteStep
  <2>2. CASE ~(BindOrder(d) \/ CountCards(d) \/ Complete(d))
    <3>1. \A e \in Desks \ {d} : Same(e)
      BY <1>1, ActsTyped
    <3> QED BY <1>1, <2>2, <3>1, ActsQuietly, OrderQuiet DEF Same
  <2> QED BY <2>1, <2>2
<1>2. CASE Refund
  <2>1. order' = "refunded" /\ UNCHANGED <<card, desk, usedUp, missed>>
    BY <1>2 DEF Refund
  <2>2. Bound' = Bound
    BY <2>1 DEF Bound
  <2> QED BY <2>1, <2>2 DEF OrderInv, CardOrderKept, Counting
<1>3. CASE Restart
  <2>1. /\ UNCHANGED <<order, card, usedUp>> /\ \A e \in Desks : desk'[e].pc = "idle"
        /\ (missed \/ \E e \in Desks : desk[e].pc \in Counting) => missed'
    BY <1>3 DEF Restart, Counting, Idle
  <2>2. Bound' = Bound
    BY <2>1 DEF Bound
  <2> QED BY <2>1, <2>2 DEF OrderInv, CardOrderKept, Counting
<1>4. CASE UNCHANGED cardVars \/ \E t \in Tokens : EndSession(t)
  <2>1. UNCHANGED <<order, card, desk, usedUp, missed>>
    BY <1>4 DEF EndSession, cardVars
  <2>2. Bound' = Bound
    BY <2>1 DEF Bound
  <2> QED BY <2>1, <2>2, OrderQuiet
<1> QED BY <1>1, <1>2, <1>3, <1>4, NextActs

-----------------------------------------------------------------------------
(* Sessions and the PIN *)

Ending == {"puk", "revoke"}

LEMMA SessionsQuiet ==
    ASSUME SessionsFollowPin, NEW d \in Desks, \A e \in Desks \ {d} : Same(e),
           \A t \in Tokens : session'[t].state = "outdated" =>
              \/ desk'[d].pc \in Ending /\ desk'[d].card = session'[t].card
              \/ /\ session'[t] = session[t]
                 /\ ~(desk[d].pc \in Ending /\ desk[d].card = session[t].card)
    PROVE  SessionsFollowPin'
BY DEF SessionsFollowPin, Same, Ending

LEMMA SessionsActs ==
    ASSUME Typed, SessionsFollowPin, NEW d \in Desks, Acts(d)
    PROVE  SessionsFollowPin'
<1>1. \A e \in Desks \ {d} : Same(e)
  BY ActsTyped
<1>2. session \in [Tokens -> SessionRow] /\ NoSession.state # "outdated"
  BY DEF Typed, CardTypeOK, SessionRow, NoSession
<1>3. ASSUME NEW pc \in Ending, SetPIN(d, desk[d].card, pc), desk[d].pc \notin Ending
      PROVE  SessionsFollowPin'
  <2>1. desk'[d].pc \in Ending /\ desk'[d].card = desk[d].card
    BY <1>3, Arrives
  <2>2. ASSUME NEW t \in Tokens
        PROVE  session'[t] = session[t] \/ session'[t].card = desk[d].card
    <3>1. \/ session'[t] = session[t]
          \/ /\ session'[t] = [session[t] EXCEPT !.state = "outdated"]
             /\ session[t] = [card |-> desk[d].card, state |-> "valid"]
      BY <1>3 DEF SetPIN
    <3> QED BY <3>1
  <2> QED BY <1>1, <1>3, <2>1, <2>2, SessionsQuiet
<1>4. CASE UNCHANGED session /\ desk[d].pc \notin Ending
  BY <1>1, <1>4, SessionsQuiet
<1>5. CASE UnlockWithPUK(d) \/ ResetPIN(d)
  <2>1. desk[d].pc \notin Ending
    BY <1>5 DEF UnlockWithPUK, ResetPIN, At, Ending
  <2> QED BY <1>3, <1>4, <1>5, <2>1 DEF UnlockWithPUK, ResetPIN, Ending
<1>6. CASE ResetPUK(d)
  <2>1. CASE GoTo(d, "revoke") /\ UNCHANGED session
    <3>1. desk'[d].pc = "revoke" /\ desk'[d].card = desk[d].card
      BY <2>1, Arrives DEF DeskPC
    <3> QED BY <1>1, <2>1, <3>1, SessionsQuiet DEF Ending
  <2>2. CASE session' = [t \in Tokens |->
                            IF session[t] = [card |-> desk[d].card, state |-> "outdated"]
                            THEN [session[t] EXCEPT !.state = "excused"] ELSE session[t]]
    <3>1. ASSUME NEW t \in Tokens, session'[t].state = "outdated"
          PROVE  session'[t] = session[t] /\ session[t].card # desk[d].card
      <4>1. session[t] \in SessionRow
        BY <1>2
      <4>2. [session[t] EXCEPT !.state = "excused"].state = "excused"
        BY <4>1 DEF SessionRow
      <4>3. session'[t] = session[t] /\ session[t] # [card |-> desk[d].card, state |-> "outdated"]
        BY <2>2, <3>1, <4>2
      <4> QED BY <3>1, <4>1, <4>3 DEF SessionRow
    <3> QED BY <1>1, <3>1, SessionsQuiet
  <2> QED BY <1>6, <2>1, <2>2 DEF ResetPUK
<1>7. CASE RevokeByCard(d)
  <2>1. \A t \in Tokens : session'[t] = NoSession \/ (session'[t] = session[t] /\ session[t].card # desk[d].card)
    BY <1>7 DEF RevokeByCard
  <2> QED BY <1>1, <1>2, <2>1, SessionsQuiet
<1>8. CASE CreateSession(d)
  <2>1. PICK t \in Tokens, st \in {"valid", "excused"} :
           session' = [session EXCEPT ![t] = [card |-> desk[d].card, state |-> st]]
    BY <1>8 DEF CreateSession
  <2>2. \A x \in Tokens : session'[x].state = "outdated" => session'[x] = session[x]
    BY <1>2, <2>1
  <2>3. desk[d].pc \notin Ending
    BY <1>8 DEF CreateSession, At, Ending
  <2> QED BY <1>1, <2>2, <2>3, SessionsQuiet
<1>9. CASE DeskStep(d) /\ ~(\/ UnlockWithPUK(d) \/ ResetPIN(d) \/ ResetPUK(d) \/ RevokeByCard(d)
                            \/ CreateSession(d))
  <2>1. UNCHANGED session /\ desk[d].pc \notin Ending
    BY <1>9 DEF DeskStep, CreateCard, BindOrder, Undo, CountCards, Complete, ClearCerts, DeleteRow,
                WrongPIN, RightPIN, GenerateKey, InsertCert, Reclaim, DestroyKey, RemoveCert,
                RemoveOther, At, Ending
  <2> QED BY <1>4, <2>1
<1>10. CASE Acts(d) /\ ~DeskStep(d)
  <2>1. UNCHANGED session /\ desk[d] = Idle
    BY <1>10 DEF Acts, Authorize, DeleteCard, GenerateKeyPair, VerifyPIN, ChangePIN, DeleteCert, Start
  <2>2. desk[d].pc \notin Ending
    BY <2>1 DEF Idle, Ending
  <2> QED BY <1>4, <2>1, <2>2
<1> QED BY <1>5, <1>6, <1>7, <1>8, <1>9, <1>10

LEMMA SessionsStep == Typed /\ SessionsFollowPin /\ [CardNext]_cardVars => SessionsFollowPin'
<1> SUFFICES ASSUME Typed, SessionsFollowPin, [CardNext]_cardVars PROVE SessionsFollowPin'
  OBVIOUS
<1>1. NoSession.state # "outdated" /\ session \in [Tokens -> SessionRow]
  BY DEF NoSession, Typed, CardTypeOK, SessionRow
<1>2. CASE \E d \in Desks : Acts(d)
  BY <1>2, SessionsActs
<1>3. CASE Refund \/ UNCHANGED cardVars
  BY <1>3 DEF Refund, cardVars, SessionsFollowPin
<1>4. CASE Restart
  BY <1>1, <1>4 DEF Restart, SessionsFollowPin
<1>5. CASE \E t \in Tokens : EndSession(t)
  BY <1>1, <1>5 DEF EndSession, SessionsFollowPin
<1> QED BY <1>2, <1>3, <1>4, <1>5, NextActs

-----------------------------------------------------------------------------
(* Cards that nobody bought *)

Making == {"bind", "undo", "clear", "delete"}

CardsHeld ==
    \A c \in Cards \ left : Unbound(c) => \E d \in Desks : desk[d].pc \in Making /\ desk[d].card = c

\* The step holds its card on, or leaves it behind, or it is bound or gone.
LEMMA CardsHeldKept ==
    ASSUME CardsHeld, NEW d \in Desks, \A e \in Desks \ {d} : Same(e),
           \A c \in Cards : Unbound(c)' /\ c \notin left' =>
              \/ desk'[d].pc \in Making /\ desk'[d].card = c
              \/ Unbound(c) /\ c \notin left /\ ~(desk[d].pc \in Making /\ desk[d].card = c)
    PROVE  CardsHeld'
BY DEF CardsHeld, Same

LEMMA CardsHeldActs ==
    ASSUME Typed, CardsHeld, NEW d \in Desks, Acts(d)
    PROVE  CardsHeld'
<1>0. PICK mine : mine = desk[d].card
  OBVIOUS
<1>1. \A e \in Desks \ {d} : Same(e)
  BY ActsTyped
<1>2. card \in [Cards -> CardRow] /\ \A c \in Cards : card[c] \in CardRow
  BY DEF Typed, CardTypeOK
<1>3. CASE CreateCard(d)
  <2>1. CASE UNCHANGED <<card, left>>
    <3>1. desk[d].pc \notin Making
      BY <1>3 DEF CreateCard, At, Making
    <3> QED BY <1>1, <1>0, <2>1, <3>1, CardsHeldKept DEF Unbound
  <2>2. ASSUME NEW c \in Cards, card' = [card EXCEPT ![c].there = TRUE],
               desk' = [desk EXCEPT ![d].pc = "bind", ![d].card = c]
        PROVE  CardsHeld'
    <3>1. desk'[d].pc = "bind" /\ desk'[d].card = c /\ desk[d].pc = "create"
      BY <1>3, <2>2, HasInHand DEF Typed, CardTypeOK, DeskRow, CreateCard, At
    <3>2. \A x \in Cards \ {c} : Unbound(x)' = Unbound(x)
      BY <1>2, <2>2 DEF Unbound
    <3>3. left' = left
      BY <1>3 DEF CreateCard
    <3> QED BY <1>1, <3>1, <3>2, <3>3, CardsHeldKept DEF Making
  <2> QED BY <1>3, <2>1, <2>2 DEF CreateCard, FreshCards
<1>4. CASE BindOrder(d)
  <2>1. mine \in Cards /\ left' = left
    BY <1>4, <1>0, HasInHand DEF BindOrder, At, UsesCard, DeskPC
  <2>2. CASE GoTo(d, "undo") /\ UNCHANGED card
    <3>1. desk'[d].pc \in Making /\ desk'[d].card = mine
      BY <1>0, <2>2, Arrives DEF DeskPC, Making
    <3> QED BY <1>1, <1>0, <2>1, <2>2, <3>1, CardsHeldKept DEF Unbound
  <2>3. CASE card' = [card EXCEPT ![mine].bound = TRUE]
    <3>1. ~Unbound(mine)' /\ \A c \in Cards \ {mine} : Unbound(c)' = Unbound(c)
      BY <1>2, <2>1, <2>3 DEF Unbound, CardRow
    <3> QED BY <1>1, <1>0, <2>1, <3>1, CardsHeldKept
  <2> QED BY <1>4, <1>0, <2>2, <2>3 DEF BindOrder
<1>5. CASE Undo(d)
  <2>1. mine \in Cards /\ UNCHANGED card
    BY <1>5, <1>0, HasInHand DEF Undo, At, UsesCard, DeskPC
  <2>2. \/ GoTo(d, "clear") /\ left' = left
        \/ ~card[mine].there /\ left' = left
        \/ left' = left \cup {mine}
    BY <1>5, <1>0 DEF Undo
  <2>3. GoTo(d, "clear") => desk'[d].pc \in Making /\ desk'[d].card = mine
    BY <1>0, Arrives DEF DeskPC, Making
  <2> QED BY <1>1, <1>0, <2>1, <2>2, <2>3, CardsHeldKept DEF Unbound
<1>6. CASE ClearCerts(d)
  <2>1. mine \in Cards /\ UNCHANGED card
    BY <1>6, <1>0, HasInHand DEF ClearCerts, At, UsesCard, DeskPC
  <2>2. CASE left' = left \ KeysOn(mine) /\ GoTo(d, "delete")
    <3>1. desk'[d].pc \in Making /\ desk'[d].card = mine
      BY <1>0, <2>2, Arrives DEF DeskPC, Making
    <3>2. \A c \in Cards : c \in left' <=> c \in left
      BY <2>2, CardAssumption DEF KeysOn
    <3> QED BY <1>1, <1>0, <2>1, <3>1, <3>2, CardsHeldKept DEF Unbound
  <2>3. CASE Stays(mine)
    <3>1. \A c \in Cards \ {mine} : c \in left' <=> c \in left
      BY <2>3 DEF Stays
    <3>2. Unbound(mine)' => mine \in left'
      BY <2>1, <2>3 DEF Stays, Unbound
    <3> QED BY <1>1, <1>0, <2>1, <3>1, <3>2, CardsHeldKept DEF Unbound
  <2> QED BY <1>6, <1>0, <2>2, <2>3 DEF ClearCerts, Drop
<1>7. CASE DeleteRow(d)
  <2>1. mine \in Cards
    BY <1>7, <1>0, HasInHand DEF DeleteRow, At, UsesCard, DeskPC
  <2>2. CASE card' = [card EXCEPT ![mine] = NewCard] /\ left' = (left \ {mine}) \ KeysOn(mine)
    <3>1. \A c \in Cards \ {mine} : /\ c \in left' <=> c \in left
                                   /\ Unbound(c)' = Unbound(c)
      BY <1>2, <2>2, CardAssumption DEF KeysOn, Unbound
    <3>2. ~Unbound(mine)'
      BY <1>2, <2>1, <2>2 DEF Unbound, NewCard
    <3> QED BY <1>1, <1>0, <2>1, <3>1, <3>2, CardsHeldKept
  <2>3. CASE Stays(mine) /\ UNCHANGED card
    <3>1. \A c \in Cards \ {mine} : c \in left' <=> c \in left
      BY <2>3 DEF Stays
    <3>2. Unbound(mine)' => mine \in left'
      BY <2>1, <2>3 DEF Stays, Unbound
    <3> QED BY <1>1, <1>0, <2>1, <2>3, <3>1, <3>2, CardsHeldKept DEF Unbound
  <2> QED BY <1>7, <1>0, <2>2, <2>3 DEF DeleteRow, Drop
<1>8. CASE ~(CreateCard(d) \/ BindOrder(d) \/ Undo(d) \/ ClearCerts(d) \/ DeleteRow(d))
  <2>1. CardsStay
    BY <1>8, CardsTyped
  <2>2. desk[d].pc \notin Making
    <3>1. CASE DeskStep(d)
      BY <1>8, <3>1
         DEF DeskStep, CountCards, Complete, WrongPIN, RightPIN, CreateSession, UnlockWithPUK,
             ResetPIN, ResetPUK, RevokeByCard, GenerateKey, InsertCert, Reclaim, DestroyKey,
             RemoveCert, RemoveOther, At, Making
    <3>2. CASE ~DeskStep(d)
      <4>1. desk[d] = Idle
        BY <3>2 DEF Acts, Authorize, DeleteCard, GenerateKeyPair, VerifyPIN, ChangePIN, DeleteCert, Start
      <4> QED BY <4>1 DEF Idle, Making
    <3> QED BY <3>1, <3>2
  <2>3. \A c \in Cards : c \in left => c \in left'
    <3>1. CASE UNCHANGED left
      BY <3>1
    <3>2. CASE Reclaim(d) \/ DestroyKey(d) \/ RemoveCert(d) \/ RemoveOther(d)
      <4>1. desk[d].key \in Keys
        BY <3>2, HasInHand DEF Reclaim, DestroyKey, RemoveCert, RemoveOther, At, UsesKey
      <4> QED BY <3>2, <4>1, CardAssumption DEF Reclaim, DestroyKey, RemoveCert, RemoveOther, Destroy
    <3> QED BY <1>8, <3>1, <3>2
            DEF Acts, DeskStep, Authorize, DeleteCard, GenerateKeyPair, VerifyPIN, ChangePIN,
                DeleteCert, CountCards, Complete, WrongPIN, RightPIN, CreateSession, UnlockWithPUK,
                ResetPIN, ResetPUK, RevokeByCard, GenerateKey, InsertCert
  <2> QED BY <1>1, <1>0, <2>1, <2>2, <2>3, CardsHeldKept DEF CardsStay, Unbound
<1> QED BY <1>3, <1>4, <1>5, <1>6, <1>7, <1>8

-----------------------------------------------------------------------------
(* Keys and their certificates *)

Holding == {"insert", "reclaim", "remove"}

\* The keys that stray for good.
Lost == left \cup abandoned

\* A key that a request has just made is its own and has no certificate yet; a key that could
\* not be destroyed is lost; whatever does not match is in the hands of a request
\* that makes the certificate, destroys the key or removes the certificate.
NewKeysFree ==
    \A d \in Desks : desk[d].pc \in {"insert", "reclaim"} =>
        /\ cert[desk[d].key] = NoCard
        /\ desk[d].pc = "insert" => desk[d].key \in device
        /\ \A e \in Desks : desk[e].key = desk[d].key => e = d

UndestroyedLost ==
    \A d \in Desks : desk[d].pc = "remove" /\ desk[d].key \in device => desk[d].key \in Lost

KeysHeld ==
    \A k \in Keys \ Lost : Unmatched(k) => \E d \in Desks : desk[d].key = k /\ desk[d].pc \in Holding

KeyInv == NewKeysFree /\ UndestroyedLost /\ KeysHeld

\* What happens to keys that d does not hold.
KeysStay(d) ==
    \A k \in Keys : k # desk[d].key =>
        /\ k \in device' <=> k \in device
        /\ cert'[k] = cert[k]
        /\ k \in Lost' <=> k \in Lost

\* The step is about the key that d holds; the rest says that the key is still held properly.
LEMMA KeyOfDesk ==
    ASSUME Typed, Typed', KeyInv, NEW d \in Desks, NEW k \in Keys, desk[d].key = k,
           \A e \in Desks \ {d} : Same(e), KeysStay(d), desk'[d].key \in {k, NoKey},
           \A e \in Desks \ {d} : desk[e].key = k =>
              /\ desk[e].pc \in {"insert", "reclaim"} => cert'[k] = NoCard /\ desk'[d].key # k
                                                         /\ (desk[e].pc = "insert" => k \in device')
              /\ desk[e].pc = "remove" /\ k \in device' => k \in Lost',
           desk'[d].pc \in {"insert", "reclaim"} =>
              desk'[d].pc = "reclaim" /\ cert'[k] = NoCard /\ desk[d].pc \in {"insert", "reclaim"},
           desk'[d].pc = "remove" /\ k \in device' => k \in Lost',
           Unmatched(k)' /\ k \notin Lost' =>
              \/ desk'[d].pc \in Holding /\ desk'[d].key = k
              \/ \E e \in Desks \ {d} : desk[e].key = k /\ desk[e].pc \in Holding
    PROVE  KeyInv'
<1>1. \A e \in Desks : desk'[e].pc \in Holding => desk'[e].key \in Keys
  BY DEF Typed, InHand, Holding, UsesKey
<1>2. NoKey \notin Keys
  BY CardAssumption
<1>3. NewKeysFree'
  BY <1>1, <1>2 DEF KeyInv, NewKeysFree, KeysStay, Same, Holding
<1>4. UndestroyedLost'
  BY <1>1, <1>2 DEF KeyInv, UndestroyedLost, KeysStay, Same, Holding
<1>5. KeysHeld'
  <2> SUFFICES ASSUME NEW x \in Keys, x \notin Lost', Unmatched(x)'
               PROVE  \E e \in Desks : desk'[e].key = x /\ desk'[e].pc \in Holding
    BY DEF KeysHeld
  <2>1. CASE x = k
    BY <2>1 DEF Same
  <2>2. CASE x # k
    <3>1. x \notin Lost /\ Unmatched(x)
      BY <2>2 DEF KeysStay, Unmatched
    <3> QED BY <2>2, <3>1 DEF KeyInv, KeysHeld, Same
  <2> QED BY <2>1, <2>2
<1> QED BY <1>3, <1>4, <1>5 DEF KeyInv

\* Keys, certificates and what is lost stay; who does not hold a key takes one that
\* has a certificate.
LEMMA KeysQuiet ==
    ASSUME Typed, Typed', KeyInv, NEW d \in Desks,
           \A e \in Desks \ {d} : Same(e), UNCHANGED <<device, cert>>,
           \A k \in Keys : k \in Lost' <=> k \in Lost,
           desk[d].pc \notin Holding, desk'[d].pc \notin Holding,
           desk'[d].key \in {desk[d].key, NoKey} \/ cert[desk'[d].key] # NoCard
    PROVE  KeyInv'
<1>1. \A e \in Desks : desk'[e].pc \in Holding => desk'[e].key \in Keys
  BY DEF Typed, InHand, Holding, UsesKey
<1>2. NoKey \notin Keys
  BY CardAssumption
<1>3. NewKeysFree'
  BY <1>1, <1>2 DEF KeyInv, NewKeysFree, Same, Holding
<1>4. UndestroyedLost'
  BY <1>1, <1>2 DEF KeyInv, UndestroyedLost, Same, Holding
<1>5. KeysHeld'
  BY DEF KeyInv, KeysHeld, Unmatched, Same
<1> QED BY <1>3, <1>4, <1>5 DEF KeyInv

\* The certificates of a card are deleted with it.
LEMMA KeysDropped ==
    ASSUME Typed, Typed', KeyInv, NEW d \in Desks, NEW c \in Cards, NEW rest,
           \A e \in Desks \ {d} : Same(e), UNCHANGED device,
           Drop(c, rest), \A k \in Keys : k \in rest <=> k \in left,
           desk[d].pc \notin Holding, desk'[d].pc \notin Holding,
           desk'[d].key \in {desk[d].key, NoKey}
    PROVE  KeyInv'
<1>1. \A e \in Desks : desk'[e].pc \in Holding => desk'[e].key \in Keys
  BY DEF Typed, InHand, Holding, UsesKey
<1>2. NoKey \notin Keys /\ NoCard \notin Cards
  BY CardAssumption
<1>3. ASSUME NEW k \in Keys
      PROVE  /\ cert[k] = c => cert'[k] = NoCard /\ (k \in device => k \in Lost')
             /\ cert[k] # c => cert'[k] = cert[k] /\ (k \in Lost' <=> k \in Lost)
  BY DEF Drop, KeysOn, Lost
<1>4. NewKeysFree'
  BY <1>1, <1>2, <1>3 DEF KeyInv, NewKeysFree, Same, Holding
<1>5. UndestroyedLost'
  BY <1>1, <1>2, <1>3 DEF KeyInv, UndestroyedLost, Same, Holding
<1>6. KeysHeld'
  BY <1>2, <1>3 DEF KeyInv, KeysHeld, Unmatched, Same
<1> QED BY <1>4, <1>5, <1>6 DEF KeyInv

LEMMA KeyMade ==
    ASSUME Typed, Typed', KeyInv, NEW d \in Desks, NEW k \in FreshKeys, At(d, "generate"),
           \A e \in Desks \ {d} : Same(e), UNCHANGED <<cert, left, abandoned>>, device' = device \cup {k},
           desk'[d].pc = "insert", desk'[d].key = k
    PROVE  KeyInv'
<1>1. \A e \in Desks : desk'[e].pc \in Holding => desk'[e].key \in Keys
  BY DEF Typed, InHand, Holding, UsesKey
<1>2. /\ k \in Keys \ device /\ cert[k] = NoCard /\ \A e \in Desks : desk[e].key # k
      /\ Lost' = Lost
  BY DEF FreshKeys, Lost
<1>3. NewKeysFree'
  BY <1>1, <1>2 DEF KeyInv, NewKeysFree, Same, Holding
<1>4. UndestroyedLost'
  BY <1>1, <1>2 DEF KeyInv, UndestroyedLost, Same, Holding
<1>5. KeysHeld'
  <2> SUFFICES ASSUME NEW x \in Keys, x \notin Lost', Unmatched(x)'
               PROVE  \E e \in Desks : desk'[e].key = x /\ desk'[e].pc \in Holding
    BY DEF KeysHeld
  <2>1. CASE x = k
    BY <2>1 DEF Holding
  <2>2. CASE x # k
    <3>1. PICK e \in Desks : desk[e].key = x /\ desk[e].pc \in Holding
      BY <1>2, <2>2 DEF Unmatched, KeyInv, KeysHeld
    <3>2. e # d
      BY <3>1 DEF At, Holding
    <3> QED BY <3>1, <3>2 DEF Same
  <2> QED BY <2>1, <2>2
<1> QED BY <1>3, <1>4, <1>5 DEF KeyInv

\* The statements on a key in hand.
LEMMA KeyStatement ==
    ASSUME Typed, Typed', KeyInv, NEW d \in Desks,
           InsertCert(d) \/ Reclaim(d) \/ DestroyKey(d) \/ RemoveCert(d) \/ RemoveOther(d)
    PROVE  KeyInv'
<1>1. /\ desk[d].pc \in UsesKey /\ desk[d].key \in Keys /\ desk[d].card \in Cards
      /\ \A e \in Desks \ {d} : Same(e)
      /\ Idle.key = NoKey
  BY HasInHand, ActsTyped DEF InsertCert, Reclaim, DestroyKey, RemoveCert, RemoveOther, At, UsesKey,
                              UsesCard, DeskPC, Acts, DeskStep, Idle
<1>2. PICK k \in Keys : k = desk[d].key
  BY <1>1
<1>3. PICK c \in Cards : c = desk[d].card
  BY <1>1
<1>4. cert \in [Keys -> Cards \cup {NoCard}] /\ NoCard \notin Cards
  BY CardAssumption DEF Typed, CardTypeOK
<1>5. \A e \in Desks \ {d} : desk[e].key = k => desk[e].pc \notin {"insert", "reclaim"}
  BY <1>2 DEF KeyInv, NewKeysFree
<1>6. desk[d].pc \in {"insert", "reclaim"} => /\ cert[k] = NoCard
                                              /\ \A e \in Desks \ {d} : desk[e].key # k
  BY <1>2 DEF KeyInv, NewKeysFree
<1>7. desk[d].pc = "remove" /\ k \in device => k \in Lost
  BY <1>2 DEF KeyInv, UndestroyedLost
<1>8. \A e \in Desks \ {d} : desk[e].key = k /\ desk[e].pc = "remove" /\ k \in device => k \in Lost
  BY <1>2 DEF KeyInv, UndestroyedLost
<1>9. CASE InsertCert(d)
  <2>1. /\ desk[d].pc = "insert" /\ k \in device /\ cert[k] = NoCard
        /\ UNCHANGED device /\ Lost' = Lost
    BY <1>2, <1>9 DEF InsertCert, At, KeyInv, NewKeysFree, Lost
  <2>2. CASE cert' = [cert EXCEPT ![k] = c] /\ Return(d)
    <3>1. desk'[d].pc = "idle" /\ desk'[d].key = NoKey
      BY <1>1, <2>2, Arrives
    <3>2. cert'[k] = c /\ \A x \in Keys \ {k} : cert'[x] = cert[x]
      BY <1>4, <2>2
    <3>3. ~Unmatched(k)' /\ KeysStay(d)
      BY <1>2, <1>4, <2>1, <3>2 DEF Unmatched, KeysStay
    <3> QED BY <1>1, <1>2, <1>6, <2>1, <3>1, <3>3, KeyOfDesk
  <2>3. CASE UNCHANGED cert /\ GoTo(d, "reclaim")
    <3>1. desk'[d].pc = "reclaim" /\ desk'[d].key = k
      BY <1>2, <2>3, Arrives DEF DeskPC
    <3>2. KeysStay(d)
      BY <2>1, <2>3 DEF KeysStay
    <3> QED BY <1>1, <1>2, <1>6, <2>1, <2>3, <3>1, <3>2, KeyOfDesk DEF Holding
  <2> QED BY <1>2, <1>3, <1>9, <2>2, <2>3 DEF InsertCert
<1>10. CASE Reclaim(d)
  <2>1. desk[d].pc = "reclaim" /\ UNCHANGED cert /\ Destroy(k) /\ desk'[d].pc = "idle" /\ desk'[d].key = NoKey
    BY <1>1, <1>2, <1>10, Arrives DEF Reclaim, At
  <2>2. KeysStay(d)
    BY <1>2, <2>1 DEF Destroy, KeysStay, Lost
  <2>3. ~(Unmatched(k)' /\ k \notin Lost')
    BY <1>6, <2>1 DEF Destroy, Unmatched, Lost
  <2> QED BY <1>1, <1>2, <1>6, <2>1, <2>2, <2>3, KeyOfDesk
<1>11. CASE DestroyKey(d)
  <2>1. desk[d].pc = "destroy" /\ UNCHANGED cert /\ Destroy(k) /\ desk'[d].pc = "remove" /\ desk'[d].key = k
    BY <1>2, <1>11, Arrives DEF DestroyKey, At, DeskPC
  <2>2. KeysStay(d) /\ (k \in device' => k \in Lost')
    BY <1>2, <2>1 DEF Destroy, KeysStay, Lost
  <2> QED BY <1>1, <1>2, <1>5, <2>1, <2>2, KeyOfDesk DEF Holding
<1>12. CASE RemoveCert(d)
  <2>1. desk[d].pc = "remove" /\ UNCHANGED device /\ desk'[d].pc = "idle" /\ desk'[d].key = NoKey
    BY <1>1, <1>12, Arrives DEF RemoveCert, At
  <2>2. \/ cert' = [cert EXCEPT ![k] = NoCard] /\ left' = left \ ({k} \ device)
        \/ left' = left \cup {k} /\ UNCHANGED cert
    BY <1>2, <1>12 DEF RemoveCert
  <2> UNCHANGED abandoned
    BY <1>12 DEF RemoveCert
  <2>3. KeysStay(d)
    BY <1>2, <1>4, <2>1, <2>2 DEF KeysStay, Lost
  <2>4. k \in device' => k \in Lost'
    BY <1>7, <2>1, <2>2 DEF Lost
  <2>5. ~(Unmatched(k)' /\ k \notin Lost')
    BY <1>4, <2>2, <2>4 DEF Unmatched, Lost
  <2> QED BY <1>1, <1>2, <1>5, <2>1, <2>3, <2>4, <2>5, KeyOfDesk
<1>13. CASE RemoveOther(d)
  <2>1. desk[d].pc = "other" /\ UNCHANGED device /\ desk'[d].pc = "idle" /\ desk'[d].key = NoKey
    BY <1>1, <1>13, Arrives DEF RemoveOther, At
  <2>2. CASE /\ cert' = [cert EXCEPT ![k] = NoCard] /\ UNCHANGED left
             /\ abandoned' = abandoned \cup ({k} \cap device)
    <3>1. KeysStay(d) /\ (k \in device' => k \in Lost') /\ ~(Unmatched(k)' /\ k \notin Lost')
      BY <1>2, <1>4, <2>1, <2>2 DEF KeysStay, Unmatched, Lost
    <3> QED BY <1>1, <1>2, <1>5, <2>1, <3>1, KeyOfDesk
  <2>3. CASE UNCHANGED cert /\ Lost' = Lost
    <3>1. Unmatched(k)' /\ k \notin Lost' => \E e \in Desks \ {d} : desk[e].key = k /\ desk[e].pc \in Holding
      BY <2>1, <2>3 DEF Unmatched, KeyInv, KeysHeld, Holding
    <3>2. KeysStay(d)
      BY <2>1, <2>3 DEF KeysStay
    <3> QED BY <1>1, <1>2, <1>5, <1>8, <2>1, <2>3, <3>1, <3>2, KeyOfDesk
  <2> QED BY <1>2, <1>13, <2>2, <2>3 DEF RemoveOther, Lost
<1> QED BY <1>9, <1>10, <1>11, <1>12, <1>13

LEMMA KeysActs ==
    ASSUME Typed, Typed', KeyInv, NEW d \in Desks, Acts(d)
    PROVE  KeyInv'
<1>1. \A e \in Desks \ {d} : Same(e)
  BY ActsTyped
<1>2. CASE InsertCert(d) \/ Reclaim(d) \/ DestroyKey(d) \/ RemoveCert(d) \/ RemoveOther(d)
  BY <1>2, KeyStatement
<1>3. CASE ClearCerts(d) \/ DeleteRow(d)
  <2>1. /\ desk[d].pc \in {"clear", "delete"} /\ UNCHANGED device
        /\ Return(d) \/ GoTo(d, "delete")
    BY <1>3 DEF ClearCerts, DeleteRow, At
  <2>2. PICK c \in Cards : c = desk[d].card
    BY <2>1, HasInHand DEF UsesCard, DeskPC
  <2>3. desk'[d].pc \in {"idle", "delete"} /\ desk'[d].key \in {desk[d].key, NoKey}
    BY <2>1, Arrives DEF Idle, DeskPC
  <2>4. desk[d].pc \notin Holding /\ desk'[d].pc \notin Holding
    BY <2>1, <2>3 DEF Holding
  <2>5. CASE Drop(c, left) \/ Drop(c, left \ {c})
    <3>1. PICK rest : Drop(c, rest) /\ rest \in {left, left \ {c}}
      BY <2>5
    <3>2. \A k \in Keys : k \in rest <=> k \in left
      BY <3>1, CardAssumption
    <3> QED BY <1>1, <2>1, <2>3, <2>4, <3>1, <3>2, KeysDropped
  <2>6. CASE Stays(c)
    <3>1. UNCHANGED cert /\ \A k \in Keys : k \in Lost' <=> k \in Lost
      BY <2>6, CardAssumption DEF Stays, Lost
    <3> QED BY <1>1, <2>1, <2>3, <2>4, <3>1, KeysQuiet
  <2> QED BY <1>3, <2>2, <2>5, <2>6 DEF ClearCerts, DeleteRow
<1>4. CASE GenerateKey(d)
  <2>1. /\ desk[d].pc = "generate" /\ UNCHANGED <<cert, left, abandoned>>
        /\ Lost' = Lost
    BY <1>4 DEF GenerateKey, At, Lost
  <2>2. CASE Return(d) /\ UNCHANGED device
    <3>1. desk'[d].pc = "idle" /\ desk'[d].key = NoKey
      BY <2>2, Arrives DEF Idle
    <3> QED BY <1>1, <2>1, <2>2, <3>1, KeysQuiet DEF Holding
  <2>3. ASSUME NEW k \in FreshKeys, device' = device \cup {k},
               desk' = [desk EXCEPT ![d].pc = "insert", ![d].key = k]
        PROVE  KeyInv'
    <3>1. desk'[d].pc = "insert" /\ desk'[d].key = k
      BY <2>3, HasInHand DEF Typed, CardTypeOK, DeskRow
    <3> QED BY <1>1, <2>1, <2>3, <3>1, KeyMade DEF At
  <2> QED BY <1>4, <2>2, <2>3 DEF GenerateKey
<1>5. CASE DeskStep(d) /\ ~(\/ InsertCert(d) \/ Reclaim(d) \/ DestroyKey(d) \/ RemoveCert(d)
                            \/ RemoveOther(d) \/ ClearCerts(d) \/ DeleteRow(d) \/ GenerateKey(d))
  <2>1. desk[d].pc \notin Holding /\ UNCHANGED <<device, cert>>
    BY <1>5 DEF DeskStep, CreateCard, BindOrder, Undo, CountCards, Complete, WrongPIN, RightPIN,
                CreateSession, UnlockWithPUK, ResetPIN, ResetPUK, RevokeByCard, At, Holding
  <2>2. \/ Return(d)
        \/ \E pc \in DeskPC \ Holding : GoTo(d, pc) \/ \E c : SetPIN(d, c, pc)
        \/ CreateCard(d)
    BY <1>5 DEF DeskStep, BindOrder, Undo, CountCards, Complete, WrongPIN, RightPIN,
                CreateSession, UnlockWithPUK, ResetPIN, ResetPUK, RevokeByCard, DeskPC, Holding
  <2>3. CreateCard(d) => desk'[d].key \in {desk[d].key, NoKey}
    <3>1. Return(d) => desk'[d].key = NoKey
      BY Arrives DEF Idle
    <3>2. \A c : desk' = [desk EXCEPT ![d].pc = "bind", ![d].card = c] => desk'[d].key = desk[d].key
      BY HasInHand DEF Typed, CardTypeOK, DeskRow
    <3> QED BY <3>1, <3>2 DEF CreateCard
  <2>4. desk'[d].pc \notin Holding /\ desk'[d].key \in {desk[d].key, NoKey}
    <3>1. CASE Return(d)
      BY <3>1, Arrives DEF Idle, Holding
    <3>2. CASE \E pc \in DeskPC \ Holding : GoTo(d, pc) \/ \E c : SetPIN(d, c, pc)
      BY <3>2, Arrives
    <3>3. CASE CreateCard(d)
      BY <2>3, <3>3, Arrives DEF Holding
    <3> QED BY <2>2, <3>1, <3>2, <3>3
  <2>5. \A k \in Keys : k \in Lost' <=> k \in Lost
    <3>1. CASE Undo(d)
      <4>1. desk[d].card \in Cards
        BY <3>1, HasInHand DEF Undo, At, UsesCard, DeskPC
      <4> QED BY <3>1, <4>1, CardAssumption DEF Undo, Lost
    <3>2. CASE ~Undo(d)
      BY <1>5, <3>2
         DEF DeskStep, CreateCard, BindOrder, CountCards, Complete, WrongPIN, RightPIN,
             CreateSession, UnlockWithPUK, ResetPIN, ResetPUK, RevokeByCard, Lost
    <3> QED BY <3>1, <3>2
  <2> QED BY <1>1, <2>1, <2>4, <2>5, KeysQuiet
<1>6. ASSUME NEW c \in Cards, NEW k \in Keys, DeleteCert(d, c, k) PROVE KeyInv'
  <2>1. /\ cert[k] # NoCard /\ UNCHANGED <<device, cert>> /\ Lost' = Lost
        /\ \E pc \in DeskPC \ Holding : Start(d, pc, c, k)
    BY <1>6 DEF DeleteCert, DeskPC, Holding, Lost
  <2>2. desk[d].pc = "idle" /\ desk'[d].pc \notin Holding /\ desk'[d].key = k
    BY <2>1, Arrives
  <2> QED BY <1>1, <2>1, <2>2, KeysQuiet DEF Holding
<1>7. CASE Authorize(d) \/ \E c \in Cards :
                 \/ DeleteCard(d, c) \/ GenerateKeyPair(d, c)
                 \/ \E right \in BOOLEAN : VerifyPIN(d, c, right)
                 \/ \E pc \in {"unlock", "reset"} : ChangePIN(d, c, pc)
  <2>1. UNCHANGED <<device, cert>> /\ Lost' = Lost
    BY <1>7 DEF Authorize, DeleteCard, GenerateKeyPair, VerifyPIN, ChangePIN, Lost
  <2>2. \/ \E c : \E pc \in DeskPC \ Holding : Start(d, pc, c, NoKey)
        \/ \E c, right : VerifyPIN(d, c, right)
    BY <1>7 DEF Authorize, DeleteCard, GenerateKeyPair, ChangePIN, DeskPC, Holding
  <2>3. desk[d].pc = "idle" /\ desk'[d].pc \notin Holding /\ desk'[d].key = NoKey
    BY <2>2, Arrives DEF Holding
  <2> QED BY <1>1, <2>1, <2>3, KeysQuiet DEF Holding
<1> QED BY <1>2, <1>3, <1>4, <1>5, <1>6, <1>7 DEF Acts

LEMMA StraysStep ==
    Typed /\ Typed' /\ CardsHeld /\ KeyInv /\ [CardNext]_cardVars => CardsHeld' /\ KeyInv'
<1> SUFFICES ASSUME Typed, Typed', CardsHeld, KeyInv, [CardNext]_cardVars PROVE CardsHeld' /\ KeyInv'
  OBVIOUS
<1>1. CASE \E d \in Desks : Acts(d)
  BY <1>1, CardsHeldActs, KeysActs
<1>2. CASE Refund \/ UNCHANGED cardVars \/ \E t \in Tokens : EndSession(t)
  <2>1. UNCHANGED <<card, device, cert, desk, left, abandoned>>
    BY <1>2 DEF Refund, EndSession, cardVars
  <2>2. CardsHeld'
    BY <2>1 DEF CardsHeld, Unbound
  <2>3. KeyInv'
    BY <2>1 DEF KeyInv, NewKeysFree, UndestroyedLost, KeysHeld, Unmatched, Lost
  <2> QED BY <2>2, <2>3
<1>3. CASE Restart
  <2>1. /\ UNCHANGED <<card, device, cert>> /\ \A d \in Desks : desk'[d].pc = "idle"
        /\ left' = left \cup {c \in Cards : Unbound(c)} \cup {k \in Keys \ abandoned : Unmatched(k)}
        /\ UNCHANGED abandoned
    BY <1>3 DEF Restart, Idle
  <2>2. CardsHeld'
    BY <2>1, CardAssumption DEF CardsHeld, Unbound
  <2>3. KeyInv'
    BY <2>1 DEF KeyInv, NewKeysFree, UndestroyedLost, KeysHeld, Unmatched, Lost
  <2> QED BY <2>2, <2>3
<1> QED BY <1>1, <1>2, <1>3, NextActs

-----------------------------------------------------------------------------
(* Theorems *)

CardInv == Typed /\ OrderInv /\ SessionsFollowPin /\ CardsHeld /\ KeyInv

LEMMA CardInvHolds == CardSpec => []CardInv
<1>1. CardInit => CardInv
  <2> SUFFICES ASSUME CardInit PROVE SessionsFollowPin /\ CardsHeld /\ KeyInv
    BY TypedInit, OrderInit DEF CardInv
  <2>1. SessionsFollowPin
    BY DEF CardInit, SessionsFollowPin, NoSession
  <2>2. CardsHeld
    BY DEF CardInit, CardsHeld, Unbound, NewCard
  <2>3. KeyInv
    BY DEF CardInit, KeyInv, NewKeysFree, UndestroyedLost, KeysHeld, Unmatched, Idle
  <2> QED BY <2>1, <2>2, <2>3
<1>2. CardInv /\ [CardNext]_cardVars => CardInv'
  BY TypedStep, OrderStep, SessionsStep, StraysStep DEF CardInv
<1> QED BY <1>1, <1>2, PTL DEF CardSpec

\* The rows of cards, certificates, sessions and requests keep their types; a counter of wrong
\* PINs never exceeds the retries of the card.
THEOREM CloudCardTypes == CardSpec => []CardTypeOK
<1>1. CardInv => CardTypeOK
  BY DEF CardInv, Typed
<1> QED BY <1>1, CardInvHolds, PTL

\* An order gives at most the cards that were bought, whoever opens and deletes them at the
\* same time, and is completed when they were opened and not before (BindOrder,
\* markCardOrderFulfilled).
THEOREM CardOrderAlwaysKept == CardSpec => []CardOrderKept
<1>1. CardInv => CardOrderKept
  BY DEF CardInv, OrderInv
<1> QED BY <1>1, CardInvHolds, PTL

\* Cards without their order, keys without a certificate and certificates without their key are
\* in the hands of a request; or their clean-up failed or was cut off by a restart; or, a key,
\* its certificate was deleted with the card or by a request that could not read it as one of
\* its card's, neither of which destroys the key (handleCreateCard, GenerateKeyPair, DeleteCert,
\* CardRepo.Delete).
THEOREM NothingEverStrays == CardSpec => []NothingStrays
<1>1. CardInv => NothingStrays
  BY DEF CardInv, CardsHeld, KeyInv, KeysHeld, NothingStrays, Making, Lost
<1> QED BY <1>1, CardInvHolds, PTL

\* A session ends with the PIN it was opened by, however entering a PIN, changing it and
\* ending sessions overlap (RevokeByCard).  Two kinds of session are excused, and may outlive
\* their PIN: one whose PIN was read before the change and which began after the change ended
\* the others, and those that a reset leaves when it has set the PIN and fails to set the PUK.
THEOREM SessionsAlwaysFollowPin == CardSpec => []SessionsFollowPin
<1>1. CardInv => SessionsFollowPin
  BY DEF CardInv
<1> QED BY <1>1, CardInvHolds, PTL

-----------------------------------------------------------------------------
(* Sessions of the local manager *)

\* What a connection knows: the session it works on, and the kind of its operation.
Operating == {"init", "do", "update", "append", "final", "copy", "answer"}
ConnKnows(r) == (r.pc # "idle" => r.h \in Handles) /\ (r.pc \in Operating => r.kind \in Kinds)

\* The connections that do anything are finitely many, also when those that could are not.
Busy == {c \in Conns : conn[c].pc # "idle"}

ConnInv ==
    /\ SessionsTypeOK
    /\ \A c \in Conns : ConnKnows(conn[c])
    /\ IsFiniteSet(Busy)

ConnTakes(c, r) == conn' = [conn EXCEPT ![c] = r]

LEMMA NoRequestKnows == NoRequest \in Conn /\ ConnKnows(NoRequest)
<1>1. 0 \in 0 .. MaxSessions
  BY CardSessionsAssumption
<1> QED BY <1>1 DEF NoRequest, Conn, ConnPC, ConnKnows, Operating

LEMMA ConnHas ==
    ASSUME ConnInv, NEW c \in Conns
    PROVE  conn[c] \in Conn /\ ConnKnows(conn[c]) /\ conn \in [Conns -> Conn]
BY DEF ConnInv, SessionsTypeOK

\* A connection continues with what it has, or is done.
LEMMA ConnContinues ==
    ASSUME ConnInv, NEW c \in Conns, conn[c].pc # "idle", NEW pc \in ConnPC, Continue(c, pc),
           pc \in Operating => conn[c].pc \in Operating
    PROVE  \E r \in Conn : /\ ConnKnows(r) /\ ConnTakes(c, r) /\ r.pc = pc /\ r.h = conn[c].h
                           /\ r.kind = conn[c].kind /\ r.data = conn[c].data
<1> DEFINE r == [conn[c] EXCEPT !.pc = pc]
<1>1. /\ r \in Conn /\ r.pc = pc /\ r.h = conn[c].h /\ r.kind = conn[c].kind
      /\ r.data = conn[c].data
  BY ConnHas DEF Conn
<1>2. ConnKnows(r)
  BY <1>1, ConnHas DEF ConnKnows
<1> QED BY <1>1, <1>2 DEF Continue, ConnTakes

LEMMA ConnFinishes ==
    ASSUME ConnInv, NEW c \in Conns, Finish(c)
    PROVE  \E r \in Conn : ConnKnows(r) /\ ConnTakes(c, r) /\ r.pc = "idle" /\ r.data = {}
BY NoRequestKnows DEF Finish, ConnTakes, NoRequest

\* What arrives at a connection leaves sessions, buffers and signatures alone.
LEMMA Arriving ==
    ASSUME ConnInv, NEW c \in Conns, Arrive(c)
    PROVE  /\ \/ conn' = conn
              \/ \E r \in Conn : /\ ConnKnows(r) /\ ConnTakes(c, r) /\ r.data = {}
                                 /\ r.pc \notin {"copy", "answer"}
           /\ conn[c] = NoRequest
           /\ UNCHANGED <<sessions, tokenIn, buffer, fed, signedIn, due>>
           /\ open' \subseteq Handles /\ next' \in 1 .. MaxSessions + 1
<1>1. conn[c] = NoRequest /\ UNCHANGED <<sessions, tokenIn, buffer, fed, signedIn, due>>
  BY DEF Arrive, OpenSession, CloseSession, CloseAllSessions, Request
<1>2. ASSUME NEW h \in Handles, NEW pc \in ConnPC, pc \notin {"copy", "answer"},
             NEW as \in {"public", "user", "so"}, NEW kind \in Kinds \cup {"none"},
             pc \in Operating => kind \in Kinds, Request(c, h, pc, as, kind)
      PROVE  \E r \in Conn : /\ ConnKnows(r) /\ ConnTakes(c, r) /\ r.data = {}
                             /\ r.pc \notin {"copy", "answer"}
  <2> DEFINE r == [NoRequest EXCEPT !.pc = pc, !.h = h, !.as = as, !.kind = kind]
  <2>1. h \in 0 .. MaxSessions
    BY CardSessionsAssumption DEF Handles
  <2>2. r \in Conn /\ r.pc = pc /\ r.h = h /\ r.kind = kind /\ r.data = {}
    BY <2>1, NoRequestKnows DEF Conn, NoRequest
  <2>3. ConnKnows(r) /\ conn' = [conn EXCEPT ![c] = r]
    BY <1>2, <2>2 DEF ConnKnows, Request
  <2> QED BY <1>2, <2>2, <2>3 DEF ConnTakes
<1>3. open \subseteq Handles /\ next \in 1 .. MaxSessions + 1 /\ MaxSessions \in Nat
  BY CardSessionsAssumption DEF ConnInv, SessionsTypeOK
<1>4. CASE OpenSession(c) \/ CloseAllSessions(c) \/ \E h \in Handles : CloseSession(c, h)
  <2>1. conn' = conn
    BY <1>4 DEF OpenSession, CloseAllSessions, CloseSession
  <2>2. open' \subseteq Handles
    BY <1>3, <1>4 DEF OpenSession, CloseAllSessions, CloseSession
  <2>3. next' \in 1 .. MaxSessions + 1
    <3>1. next' = next \/ (next \in 1 .. MaxSessions /\ next' = next + 1)
      BY <1>4 DEF OpenSession, CloseAllSessions, CloseSession, Handles
    <3> QED BY <1>3, <3>1
  <2> QED BY <1>1, <2>1, <2>2, <2>3
<1>5. CASE \E h \in Handles :
              \/ \E as \in {"user", "so"} : Request(c, h, "login", as, "none")
              \/ Request(c, h, "logout", "public", "none")
              \/ \E k \in Kinds, pc \in {"init", "do"} : Request(c, h, pc, "public", k)
              \/ \E pc \in {"update", "final"} : "sign" \in Kinds /\ Request(c, h, pc, "public", "sign")
  <2>1. PICK h \in Handles :
              \/ \E as \in {"user", "so"} : Request(c, h, "login", as, "none")
              \/ Request(c, h, "logout", "public", "none")
              \/ \E k \in Kinds, pc \in {"init", "do"} : Request(c, h, pc, "public", k)
              \/ \E pc \in {"update", "final"} : "sign" \in Kinds /\ Request(c, h, pc, "public", "sign")
    BY <1>5
  <2>2. UNCHANGED <<open, next>>
    BY <2>1 DEF Request
  <2>3. \E r \in Conn : /\ ConnKnows(r) /\ ConnTakes(c, r) /\ r.data = {}
                        /\ r.pc \notin {"copy", "answer"}
    <3>1. /\ {"login", "logout", "init", "do", "update", "final"} \subseteq ConnPC
          /\ "login" \notin Operating /\ "logout" \notin Operating
      BY DEF ConnPC, Operating
    <3> QED BY <1>2, <2>1, <3>1
  <2> QED BY <1>1, <1>3, <2>2, <2>3
<1> QED BY <1>4, <1>5 DEF Arrive

\* What a session may become when a request logs in or out: nothing is begun or taken over.
SessionsSettle ==
    /\ sessions' \in [Handles -> Session]
    /\ \A h \in Handles : sessions'[h].active = sessions[h].active

LEMMA SessionEdited ==
    ASSUME ConnInv, NEW h \in Handles, NEW st \in {"public", "user", "so"},
           NEW m \in Conns \cup {NoConn},
           \/ UNCHANGED sessions
           \/ sessions' = [sessions EXCEPT ![h].mu = m]
           \/ sessions' = [sessions EXCEPT ![h].state = st]
           \/ sessions' = [sessions EXCEPT ![h].state = st, ![h].mu = m]
    PROVE  SessionsSettle
<1>1. sessions \in [Handles -> Session] /\ sessions[h] \in Session
  BY DEF ConnInv, SessionsTypeOK
<1>2. /\ [sessions[h] EXCEPT !.mu = m] \in Session
      /\ [sessions[h] EXCEPT !.mu = m].active = sessions[h].active
  BY <1>1 DEF Session
<1>3. /\ [sessions[h] EXCEPT !.state = st] \in Session
      /\ [sessions[h] EXCEPT !.state = st].active = sessions[h].active
  BY <1>1 DEF Session
<1>4. /\ [sessions[h] EXCEPT !.state = st, !.mu = m] \in Session
      /\ [sessions[h] EXCEPT !.state = st, !.mu = m].active = sessions[h].active
  BY <1>1 DEF Session
<1>5. \/ UNCHANGED sessions
      \/ sessions' = [sessions EXCEPT ![h] = [sessions[h] EXCEPT !.mu = m]]
      \/ sessions' = [sessions EXCEPT ![h] = [sessions[h] EXCEPT !.state = st]]
      \/ sessions' = [sessions EXCEPT ![h] = [sessions[h] EXCEPT !.state = st, !.mu = m]]
  BY <1>1
<1> QED BY <1>1, <1>2, <1>3, <1>4, <1>5 DEF SessionsSettle

\* A request that logs in or out, or looks at a session only.
LogsInOrOut(c) ==
    \/ LockForLogin(c) \/ CheckReadOnly(c) \/ ProviderLogin(c)
    \/ LockForLogout(c) \/ ProviderLogout(c)
    \/ Collect(c) \/ \E t \in Handles : SyncOne(c, t)
    \/ CheckUpdate(c)

LEMMA LoggingInOrOut ==
    ASSUME ConnInv, NEW c \in Conns, LogsInOrOut(c)
    PROVE  /\ conn[c].pc \notin {"idle", "copy", "answer"}
           /\ \E r \in Conn : /\ ConnKnows(r) /\ ConnTakes(c, r) /\ r.pc \notin {"copy", "answer"}
                              /\ r.data \subseteq conn[c].data
           /\ SessionsSettle /\ tokenIn' \in BOOLEAN
           /\ UNCHANGED <<open, next, buffer, fed, signedIn, due>>
<1> DEFINE Moving == \E r \in Conn : /\ ConnKnows(r) /\ ConnTakes(c, r)
                                     /\ r.pc \notin {"copy", "answer"}
                                     /\ r.data \subseteq conn[c].data
<1>1. conn[c].pc \notin {"idle", "copy", "answer"}
  BY DEF LogsInOrOut, LockForLogin, CheckReadOnly, ProviderLogin, LockForLogout, ProviderLogout,
         Collect, SyncOne, CheckUpdate, Doing
<1>2. /\ conn[c] \in Conn /\ conn[c].h \in Handles /\ conn[c].as \in {"public", "user", "so"}
      /\ open \subseteq Handles /\ tokenIn \in BOOLEAN /\ conn \in [Conns -> Conn]
  BY <1>1, ConnHas DEF ConnKnows, ConnInv, SessionsTypeOK, Conn
<1>3. UNCHANGED <<open, next, buffer, fed, signedIn, due>>
  BY DEF LogsInOrOut, LockForLogin, CheckReadOnly, ProviderLogin, LockForLogout, ProviderLogout,
         Collect, SyncOne, CheckUpdate
<1>4. tokenIn' \in BOOLEAN
  BY <1>2 DEF LogsInOrOut, LockForLogin, CheckReadOnly, ProviderLogin, LockForLogout, ProviderLogout,
              Collect, SyncOne, CheckUpdate
<1>5. Finish(c) => Moving
  <2> SUFFICES ASSUME Finish(c) PROVE Moving
    OBVIOUS
  <2>1. PICK r \in Conn : ConnKnows(r) /\ ConnTakes(c, r) /\ r.pc = "idle" /\ r.data = {}
    BY ConnFinishes
  <2> QED BY <2>1
<1>6. ASSUME NEW pc \in {"checkReadOnly", "provider", "collect", "providerOut", "append"},
             Continue(c, pc), pc = "append" => conn[c].pc \in Operating
      PROVE  Moving
  <2>1. pc \in ConnPC /\ (pc \in Operating => conn[c].pc \in Operating) /\ pc \notin {"copy", "answer"}
    BY <1>6 DEF ConnPC, Operating
  <2>2. PICK r \in Conn : /\ ConnKnows(r) /\ ConnTakes(c, r) /\ r.pc = pc /\ r.h = conn[c].h
                          /\ r.kind = conn[c].kind /\ r.data = conn[c].data
    BY <1>1, <1>6, <2>1, ConnContinues
  <2> QED BY <2>1, <2>2
<1>7. ASSUME NEW targets \in SUBSET Handles, NEW r, r = [conn[c] EXCEPT !.pc = "sync", !.targets = targets],
             ConnTakes(c, r)
      PROVE  Moving
  <2>1. r \in Conn /\ r.pc = "sync" /\ r.h = conn[c].h /\ r.data = conn[c].data
    BY <1>2, <1>7 DEF Conn, ConnPC
  <2>2. ConnKnows(r)
    BY <1>2, <2>1 DEF ConnKnows, Operating
  <2> QED BY <1>7, <2>1, <2>2
<1> HIDE DEF Moving
<1>8. Moving
  <2>1. CASE \/ LockForLogin(c) \/ CheckReadOnly(c) \/ ProviderLogin(c) \/ LockForLogout(c)
             \/ ProviderLogout(c)
    BY <1>5, <1>6, <2>1 DEF LockForLogin, CheckReadOnly, ProviderLogin, LoginFails, LoginSucceeds,
                            LockForLogout, ProviderLogout
  <2>2. CASE CheckUpdate(c)
    <3>1. conn[c].pc \in Operating
      BY <2>2 DEF CheckUpdate, Doing, Operating
    <3> QED BY <1>5, <1>6, <2>2, <3>1 DEF CheckUpdate
  <2>3. CASE Collect(c)
    <3>1. CASE conn' = [conn EXCEPT ![c].pc = "sync", ![c].targets = open \ {conn[c].h}]
      <4>1. ConnTakes(c, [conn[c] EXCEPT !.pc = "sync", !.targets = open \ {conn[c].h}])
        BY <1>2, <3>1 DEF ConnTakes
      <4> QED BY <1>2, <1>7, <4>1
    <3> QED BY <1>5, <2>3, <3>1 DEF Collect
  <2>4. CASE \E t \in Handles : SyncOne(c, t)
    <3>1. PICK t \in Handles : SyncOne(c, t)
      BY <2>4
    <3>2. CASE conn' = [conn EXCEPT ![c].targets = @ \ {t}]
      <4>1. conn[c].pc = "sync" /\ conn[c].targets \subseteq Handles
        BY <1>2, <3>1 DEF SyncOne, Doing, Conn
      <4>2. [conn[c] EXCEPT !.pc = "sync", !.targets = conn[c].targets \ {t}]
            = [conn[c] EXCEPT !.targets = conn[c].targets \ {t}]
        BY <1>2, <4>1 DEF Conn
      <4>3. conn' = [conn EXCEPT ![c] = [conn[c] EXCEPT !.targets = conn[c].targets \ {t}]]
        BY <1>2, <3>2
      <4> QED BY <1>7, <4>1, <4>2, <4>3 DEF ConnTakes
    <3> QED BY <1>5, <3>1, <3>2 DEF SyncOne
  <2> QED BY <2>1, <2>2, <2>3, <2>4 DEF LogsInOrOut
<1>9. SessionsSettle
  <2>1. CASE \E t \in Handles : SyncOne(c, t)
    <3>1. PICK t \in Handles : SyncOne(c, t)
      BY <2>1
    <3>2. PICK st \in {"public", "user", "so"} : st = Synced(t, conn[c].as)
      <4>1. sessions[t] \in Session
        BY DEF ConnInv, SessionsTypeOK
      <4> QED BY <1>2, <4>1 DEF Synced, Session
    <3>3. sessions' = [sessions EXCEPT ![t].state = st]
      BY <3>1, <3>2 DEF SyncOne
    <3> QED BY <3>3, SessionEdited
  <2>2. CASE ~\E t \in Handles : SyncOne(c, t)
    <3>1. PICK h \in Handles, st \in {"public", "user", "so"}, m \in Conns \cup {NoConn} :
             \/ UNCHANGED sessions
             \/ sessions' = [sessions EXCEPT ![h].mu = m]
             \/ sessions' = [sessions EXCEPT ![h].state = st, ![h].mu = m]
      <4>1. CASE LockForLogin(c) \/ LockForLogout(c)
        BY <1>2, <4>1 DEF LockForLogin, LockForLogout
      <4>2. CASE CheckReadOnly(c)
        BY <1>2, <4>2 DEF CheckReadOnly
      <4>3. CASE ProviderLogin(c)
        BY <1>2, <4>3 DEF ProviderLogin, LoginFails, LoginSucceeds
      <4>4. CASE ProviderLogout(c)
        BY <1>2, <4>4 DEF ProviderLogout
      <4>5. CASE Collect(c) \/ CheckUpdate(c)
        BY <1>2, <4>5 DEF Collect, CheckUpdate
      <4> QED BY <2>2, <4>1, <4>2, <4>3, <4>4, <4>5 DEF LogsInOrOut
    <3> QED BY <3>1, SessionEdited
  <2> QED BY <2>1, <2>2
<1> QED BY <1>1, <1>3, <1>4, <1>8, <1>9 DEF Moving

LEMMA ConnsKept ==
    ASSUME ConnInv, NEW c \in Conns, NEW r \in Conn, ConnKnows(r), ConnTakes(c, r)
    PROVE  /\ conn' \in [Conns -> Conn] /\ conn'[c] = r /\ \A e \in Conns \ {c} : conn'[e] = conn[e]
           /\ \A e \in Conns : ConnKnows(conn'[e])
           /\ IsFiniteSet(Busy')
<1>1. /\ conn' \in [Conns -> Conn] /\ conn'[c] = r /\ \A e \in Conns \ {c} : conn'[e] = conn[e]
  BY ConnHas DEF ConnTakes
<1>2. \A e \in Conns : ConnKnows(conn'[e])
  BY <1>1 DEF ConnInv
<1>3. Busy' \subseteq Busy \cup {c}
  BY <1>1 DEF Busy
<1>4. IsFiniteSet(Busy \cup {c})
  BY FS_AddElement DEF ConnInv
<1>5. IsFiniteSet(Busy')
  BY <1>3, <1>4, FS_Subset
<1> QED BY <1>1, <1>2, <1>5

\* The connections that compute an operation that was taken over.
Answering(h, k) ==
    {c \in Conns : conn[c].pc \in {"copy", "answer"} /\ conn[c].h = h /\ conn[c].kind = k}

AnsweredOnce ==
    \A h \in Handles, k \in Kinds :
        due[<<h, k>>] = Cardinality(Answering(h, k)) + IF k \in sessions[h].active THEN 1 ELSE 0

LEMMA AnsweredUnfolded ==
    (OneAnswerPerInit <=> AnsweredOnce) /\ (OneAnswerPerInit' <=> AnsweredOnce')
BY DEF OneAnswerPerInit, AnsweredOnce, Answering

LEMMA AnsweringFinite ==
    ASSUME ConnInv, NEW h, NEW k
    PROVE  IsFiniteSet(Answering(h, k)) /\ Cardinality(Answering(h, k)) \in Nat
<1>1. Answering(h, k) \subseteq Busy /\ IsFiniteSet(Busy)
  BY DEF Answering, Busy, ConnInv
<1> QED BY <1>1, FS_Subset, FS_CardinalityType

\* A part is in one place at most: in a buffer, in the hands of a connection that signs, or in
\* a signature; and it is nowhere before it was fed.
PartInv ==
    \A p \in Parts :
        /\ signedIn[p] <= 1 /\ (p > fed => signedIn[p] = 0)
        /\ \A h \in Handles : p \in buffer[h] =>
              /\ p <= fed /\ signedIn[p] = 0
              /\ \A g \in Handles : p \in buffer[g] => g = h
              /\ \A c \in Conns : p \notin conn[c].data
        /\ \A c \in Conns : p \in conn[c].data =>
              /\ p <= fed /\ signedIn[p] = 0
              /\ \A e \in Conns : p \in conn[e].data => e = c

SessionsInv == ConnInv /\ OneAnswerPerInit /\ PartInv

\* Parts stay where they are, or are lost.
LEMMA PartsStay ==
    ASSUME SessionsInv, UNCHANGED <<buffer, fed, signedIn>>,
           \A e \in Conns : conn'[e].data \subseteq conn[e].data
    PROVE  PartInv'
BY DEF SessionsInv, PartInv

\* Nothing is begun, taken over or answered.
LEMMA AnswersStay ==
    ASSUME SessionsInv, NEW c \in Conns, \A e \in Conns \ {c} : conn'[e] = conn[e],
           UNCHANGED due, \A h \in Handles : sessions'[h].active = sessions[h].active,
           \/ conn[c].pc \notin {"copy", "answer"} /\ conn'[c].pc \notin {"copy", "answer"}
           \/ /\ conn[c].pc = "copy" /\ conn'[c].pc = "answer"
              /\ conn'[c].h = conn[c].h /\ conn'[c].kind = conn[c].kind
    PROVE  OneAnswerPerInit'
<1>1. \A h, k : Answering(h, k)' = Answering(h, k)
  BY DEF Answering
<1>2. AnsweredOnce => AnsweredOnce'
  BY <1>1 DEF AnsweredOnce
<1> QED BY <1>2, AnsweredUnfolded DEF SessionsInv

LEMMA ArrivingKeeps ==
    ASSUME SessionsInv, NEW c \in Conns, Arrive(c) \/ LogsInOrOut(c)
    PROVE  SessionsInv'
<1>1. ConnInv /\ conn[c] \in Conn /\ conn \in [Conns -> Conn] /\ SessionsTypeOK
  BY ConnHas DEF SessionsInv, ConnInv
<1>2. /\ conn[c].pc \notin {"copy", "answer"}
      /\ \/ conn' = conn
         \/ \E r \in Conn : /\ ConnKnows(r) /\ ConnTakes(c, r) /\ r.pc \notin {"copy", "answer"}
                            /\ r.data \subseteq conn[c].data
      /\ SessionsSettle /\ tokenIn' \in BOOLEAN /\ open' \subseteq Handles
      /\ next' \in 1 .. MaxSessions + 1 /\ UNCHANGED <<buffer, fed, signedIn, due>>
  <2>1. CASE Arrive(c)
    <3>1. NoRequest.pc = "idle" /\ NoRequest.data = {}
      BY DEF NoRequest
    <3>2. SessionsSettle /\ tokenIn' \in BOOLEAN
      BY <1>1, <2>1, Arriving DEF SessionsSettle, SessionsTypeOK
    <3> QED BY <1>1, <2>1, <3>1, <3>2, Arriving
  <2>2. CASE LogsInOrOut(c)
    BY <1>1, <2>2, LoggingInOrOut DEF SessionsTypeOK
  <2> QED BY <2>1, <2>2
<1>3. /\ conn' \in [Conns -> Conn] /\ \A e \in Conns \ {c} : conn'[e] = conn[e]
      /\ \A e \in Conns : ConnKnows(conn'[e])
      /\ IsFiniteSet(Busy')
      /\ conn'[c].pc \notin {"copy", "answer"} /\ conn'[c].data \subseteq conn[c].data
  <2>1. CASE conn' = conn
    <3>1. Busy' = Busy
      BY <2>1 DEF Busy
    <3> QED BY <1>1, <1>2, <2>1, <3>1 DEF ConnInv
  <2>2. CASE conn' # conn
    BY <1>1, <1>2, <2>2, ConnsKept
  <2> QED BY <2>1, <2>2
<1>4. SessionsTypeOK'
  BY <1>1, <1>2, <1>3 DEF SessionsTypeOK, SessionsSettle
<1>5. (\A e \in Conns : ConnKnows(conn[e]))'
  BY <1>3 DEF ConnKnows
<1>6. ConnInv'
  BY <1>3, <1>4, <1>5 DEF ConnInv
<1>7. OneAnswerPerInit'
  BY <1>2, <1>3, AnswersStay DEF SessionsSettle
<1>8. PartInv'
  BY <1>2, <1>3, PartsStay
<1> QED BY <1>6, <1>7, <1>8 DEF SessionsInv

\* The types after the step of a connection that works on an operation.
LEMMA OperationTyped ==
    ASSUME ConnInv, NEW c \in Conns, NEW r \in Conn, ConnKnows(r), ConnTakes(c, r),
           UNCHANGED <<open, next, tokenIn>>, sessions' \in [Handles -> Session],
           buffer' \in [Handles -> SUBSET Parts], fed' \in 0 .. MaxParts,
           signedIn' \in [Parts -> Nat], due' \in [Handles \X Kinds -> Int]
    PROVE  ConnInv'
<1>1. /\ conn' \in [Conns -> Conn] /\ \A e \in Conns : ConnKnows(conn'[e])
      /\ IsFiniteSet(Busy')
  BY ConnsKept
<1>2. SessionsTypeOK'
  BY <1>1 DEF ConnInv, SessionsTypeOK
<1>3. (\A e \in Conns : ConnKnows(conn[e]))'
  BY <1>1 DEF ConnKnows
<1> QED BY <1>1, <1>2, <1>3 DEF ConnInv

LEMMA ConnTyped ==
    ASSUME ConnInv, NEW c \in Conns, conn[c].pc \in Operating
    PROVE  /\ conn[c] \in Conn /\ conn[c].pc # "idle" /\ conn[c].h \in Handles
           /\ conn[c].kind \in Kinds /\ conn[c].data \subseteq Parts
           /\ conn \in [Conns -> Conn] /\ sessions \in [Handles -> Session]
           /\ due \in [Handles \X Kinds -> Int] /\ buffer \in [Handles -> SUBSET Parts]
           /\ fed \in 0 .. MaxParts /\ signedIn \in [Parts -> Nat] /\ MaxParts \in Nat
BY CardSessionsAssumption DEF ConnInv, SessionsTypeOK, ConnKnows, Conn, Operating

LEMMA InitKeeps ==
    ASSUME SessionsInv, NEW c \in Conns, InitOperation(c)
    PROVE  SessionsInv'
<1>1. ConnInv /\ conn[c].pc = "init" /\ conn[c].pc \in Operating
  BY DEF SessionsInv, InitOperation, Doing, Operating
<1>2. /\ conn[c].h \in Handles /\ conn[c].kind \in Kinds /\ sessions \in [Handles -> Session]
      /\ due \in [Handles \X Kinds -> Int]
  BY <1>1, ConnTyped
<1>3. PICK h \in Handles, k \in Kinds : h = conn[c].h /\ k = conn[c].kind
  BY <1>2
<1>4. PICK r \in Conn : ConnKnows(r) /\ ConnTakes(c, r) /\ r.pc = "idle" /\ r.data = {}
  BY <1>1, ConnFinishes DEF InitOperation
<1>5. conn'[c] = r /\ \A e \in Conns \ {c} : conn'[e] = conn[e]
  BY <1>1, <1>4, ConnsKept
<1>6. UNCHANGED <<open, next, tokenIn, buffer, fed, signedIn>>
  BY DEF InitOperation
<1>7. \A x, y : Answering(x, y)' = Answering(x, y)
  BY <1>1, <1>4, <1>5 DEF Answering
<1>8. CASE UNCHANGED <<sessions, due>>
  <2>1. ConnInv'
    BY <1>1, <1>4, <1>6, <1>8, OperationTyped DEF ConnInv, SessionsTypeOK
  <2>2. OneAnswerPerInit'
    BY <1>1, <1>4, <1>5, <1>8, AnswersStay
  <2>3. PartInv'
    BY <1>4, <1>5, <1>6, PartsStay
  <2> QED BY <2>1, <2>2, <2>3 DEF SessionsInv
<1>9. CASE /\ k \notin sessions[h].active
           /\ sessions' = [sessions EXCEPT ![h].active = @ \cup {k}]
           /\ due' = [due EXCEPT ![<<h, k>>] = @ + 1]
  <2>1. sessions[h] \in Session
    BY <1>2
  <2>2. LET s == [sessions[h] EXCEPT !.active = sessions[h].active \cup {k}]
        IN  s \in Session /\ s.active = sessions[h].active \cup {k}
    BY <2>1 DEF Session
  <2>3. sessions' = [sessions EXCEPT ![h] = [sessions[h] EXCEPT !.active = sessions[h].active \cup {k}]]
    BY <1>2, <1>9
  <2>4. /\ sessions' \in [Handles -> Session]
        /\ sessions'[h].active = sessions[h].active \cup {k}
        /\ \A x \in Handles \ {h} : sessions'[x] = sessions[x]
    BY <1>2, <2>2, <2>3
  <2>5. /\ due' \in [Handles \X Kinds -> Int] /\ due'[<<h, k>>] = due[<<h, k>>] + 1
        /\ \A x \in Handles, y \in Kinds : <<x, y>> # <<h, k>> => due'[<<x, y>>] = due[<<x, y>>]
    BY <1>2, <1>9
  <2>6. ConnInv'
    BY <1>1, <1>4, <1>6, <2>4, <2>5, OperationTyped DEF ConnInv, SessionsTypeOK
  <2>7. AnsweredOnce'
    <3> SUFFICES ASSUME NEW x \in Handles, NEW y \in Kinds
                 PROVE  due'[<<x, y>>] = Cardinality(Answering(x, y)')
                                         + IF y \in sessions'[x].active THEN 1 ELSE 0
      BY DEF AnsweredOnce
    <3>1. due[<<x, y>>] = Cardinality(Answering(x, y)) + IF y \in sessions[x].active THEN 1 ELSE 0
      BY AnsweredUnfolded DEF SessionsInv, AnsweredOnce
    <3>2. Cardinality(Answering(x, y)) \in Nat
      BY <1>1, AnsweringFinite
    <3>3. CASE x = h /\ y = k
      BY <1>7, <1>9, <2>4, <2>5, <3>1, <3>2, <3>3
    <3>4. CASE ~(x = h /\ y = k)
      <4>1. y \in sessions'[x].active <=> y \in sessions[x].active
        BY <2>4, <3>4
      <4>2. due'[<<x, y>>] = due[<<x, y>>]
        BY <2>5, <3>4
      <4> QED BY <1>7, <3>1, <4>1, <4>2
    <3> QED BY <3>3, <3>4
  <2>8. PartInv'
    BY <1>4, <1>5, <1>6, PartsStay
  <2> QED BY <2>6, <2>7, <2>8, AnsweredUnfolded DEF SessionsInv
<1> QED BY <1>3, <1>8, <1>9 DEF InitOperation

LEMMA TakeKeeps ==
    ASSUME SessionsInv, NEW c \in Conns,
           TakeOperation(c, "do", "answer") \/ TakeOperation(c, "final", "copy")
    PROVE  SessionsInv'
<1>1. ConnInv /\ conn[c].pc \in {"do", "final"} /\ conn[c].pc \in Operating
  BY DEF SessionsInv, TakeOperation, Doing, Operating
<1>2. /\ conn[c].h \in Handles /\ conn[c].kind \in Kinds /\ sessions \in [Handles -> Session]
      /\ conn[c].pc # "idle"
  BY <1>1, ConnTyped
<1>3. PICK h \in Handles, k \in Kinds : h = conn[c].h /\ k = conn[c].kind
  BY <1>2
<1>4. UNCHANGED <<open, next, tokenIn, buffer, fed, signedIn, due>>
  BY DEF TakeOperation
<1>5. CASE Finish(c) /\ UNCHANGED sessions
  <2>1. PICK r \in Conn : ConnKnows(r) /\ ConnTakes(c, r) /\ r.pc = "idle" /\ r.data = {}
    BY <1>1, <1>5, ConnFinishes
  <2>2. conn'[c] = r /\ \A e \in Conns \ {c} : conn'[e] = conn[e]
    BY <1>1, <2>1, ConnsKept
  <2>3. ConnInv'
    BY <1>1, <1>4, <1>5, <2>1, OperationTyped DEF ConnInv, SessionsTypeOK
  <2>4. OneAnswerPerInit'
    BY <1>1, <1>4, <1>5, <2>1, <2>2, AnswersStay
  <2>5. PartInv'
    BY <1>4, <2>1, <2>2, PartsStay
  <2> QED BY <2>3, <2>4, <2>5 DEF SessionsInv
<1>6. ASSUME NEW to \in {"copy", "answer"}, Continue(c, to), k \in sessions[h].active,
             sessions' = [sessions EXCEPT ![h].active = @ \ {k}]
      PROVE  SessionsInv'
  <2>1. PICK r \in Conn : /\ ConnKnows(r) /\ ConnTakes(c, r) /\ r.pc = to /\ r.h = h
                          /\ r.kind = k /\ r.data = conn[c].data
    <3>1. to \in ConnPC
      BY DEF ConnPC
    <3> QED BY <1>1, <1>2, <1>3, <1>6, <3>1, ConnContinues
  <2>2. conn'[c] = r /\ \A e \in Conns \ {c} : conn'[e] = conn[e]
    BY <1>1, <2>1, ConnsKept
  <2>3. sessions[h] \in Session
    BY <1>2
  <2>4. LET s == [sessions[h] EXCEPT !.active = sessions[h].active \ {k}]
        IN  s \in Session /\ s.active = sessions[h].active \ {k}
    BY <2>3 DEF Session
  <2>5. sessions' = [sessions EXCEPT ![h] = [sessions[h] EXCEPT !.active = sessions[h].active \ {k}]]
    BY <1>2, <1>6
  <2>6. /\ sessions' \in [Handles -> Session]
        /\ sessions'[h].active = sessions[h].active \ {k}
        /\ \A x \in Handles \ {h} : sessions'[x] = sessions[x]
    BY <1>2, <2>4, <2>5
  <2>7. ConnInv'
    BY <1>1, <1>4, <2>1, <2>6, OperationTyped DEF ConnInv, SessionsTypeOK
  <2>8. /\ Answering(h, k)' = Answering(h, k) \cup {c} /\ c \notin Answering(h, k)
        /\ \A x, y : ~(x = h /\ y = k) => Answering(x, y)' = Answering(x, y)
    BY <1>1, <2>1, <2>2 DEF Answering
  <2>9. AnsweredOnce'
    <3> SUFFICES ASSUME NEW x \in Handles, NEW y \in Kinds
                 PROVE  due[<<x, y>>] = Cardinality(Answering(x, y)')
                                        + IF y \in sessions'[x].active THEN 1 ELSE 0
      BY <1>4 DEF AnsweredOnce
    <3>1. due[<<x, y>>] = Cardinality(Answering(x, y)) + IF y \in sessions[x].active THEN 1 ELSE 0
      BY AnsweredUnfolded DEF SessionsInv, AnsweredOnce
    <3>2. Cardinality(Answering(x, y)) \in Nat /\ IsFiniteSet(Answering(x, y))
      BY <1>1, AnsweringFinite
    <3>3. CASE x = h /\ y = k
      <4>1. Cardinality(Answering(h, k)') = Cardinality(Answering(h, k)) + 1
        BY <2>8, <3>2, <3>3, FS_AddElement
      <4> QED BY <1>6, <2>6, <3>1, <3>2, <3>3, <4>1
    <3>4. CASE ~(x = h /\ y = k)
      <4>1. y \in sessions'[x].active <=> y \in sessions[x].active
        BY <2>6, <3>4
      <4> QED BY <2>8, <3>1, <3>4, <4>1
    <3> QED BY <3>3, <3>4
  <2>10. PartInv'
    BY <1>4, <2>1, <2>2, PartsStay
  <2> QED BY <2>7, <2>9, <2>10, AnsweredUnfolded DEF SessionsInv
<1> QED BY <1>3, <1>5, <1>6 DEF TakeOperation, Ready

LEMMA AppendKeeps ==
    ASSUME SessionsInv, NEW c \in Conns, AppendPart(c)
    PROVE  SessionsInv'
<1>1. ConnInv /\ conn[c].pc = "append" /\ conn[c].pc \in Operating /\ PartInv
  BY DEF SessionsInv, AppendPart, Doing, Operating
<1>2. PICK h \in Handles : h = conn[c].h
  BY <1>1, ConnTyped
<1>3. /\ buffer \in [Handles -> SUBSET Parts] /\ fed \in 0 .. MaxParts /\ MaxParts \in Nat
      /\ signedIn \in [Parts -> Nat]
  BY <1>1, ConnTyped
<1>4. PICK r \in Conn : ConnKnows(r) /\ ConnTakes(c, r) /\ r.pc = "idle" /\ r.data = {}
  BY <1>1, ConnFinishes DEF AppendPart
<1>5. conn'[c] = r /\ \A e \in Conns \ {c} : conn'[e] = conn[e]
  BY <1>1, <1>4, ConnsKept
<1>6. UNCHANGED <<open, sessions, next, tokenIn, signedIn, due>>
  BY DEF AppendPart
<1>7. \/ UNCHANGED <<fed, buffer>>
      \/ /\ fed < MaxParts /\ fed' = fed + 1
         /\ buffer' = [buffer EXCEPT ![h] = @ \cup {fed + 1}]
  BY <1>2 DEF AppendPart
<1>8. fed' \in 0 .. MaxParts /\ buffer' \in [Handles -> SUBSET Parts]
  BY <1>3, <1>7 DEF Parts
<1>9. ConnInv'
  BY <1>1, <1>4, <1>6, <1>8, OperationTyped DEF ConnInv, SessionsTypeOK
<1>10. OneAnswerPerInit'
  BY <1>1, <1>4, <1>5, <1>6, AnswersStay
<1>11. PartInv'
  <2>1. CASE UNCHANGED <<fed, buffer>>
    BY <1>4, <1>5, <1>6, <2>1, PartsStay
  <2>2. CASE /\ fed < MaxParts /\ fed' = fed + 1
             /\ buffer' = [buffer EXCEPT ![h] = @ \cup {fed + 1}]
    <3>1. \A e \in Conns : conn'[e].data \subseteq conn[e].data
      BY <1>4, <1>5
    <3>2. /\ fed + 1 \in Parts /\ ~(fed + 1 <= fed) /\ fed + 1 > fed
          /\ \A p \in Parts : (p > fed + 1 => p > fed) /\ (p <= fed => p <= fed + 1)
      BY <1>3, <2>2 DEF Parts
    <3>3. \A p \in Parts, g \in Handles :
             p \in buffer'[g] <=> p \in buffer[g] \/ (g = h /\ p = fed + 1)
      BY <1>3, <2>2
    <3>4. /\ signedIn[fed + 1] = 0 /\ \A g \in Handles : fed + 1 \notin buffer[g]
          /\ \A e \in Conns : fed + 1 \notin conn[e].data
      BY <1>1, <3>2 DEF PartInv
    <3>5. \A p \in Parts :
             /\ signedIn'[p] <= 1 /\ (p > fed' => signedIn'[p] = 0)
             /\ \A g \in Handles : p \in buffer'[g] => p <= fed' /\ signedIn'[p] = 0
             /\ \A e \in Conns : p \in conn'[e].data => p <= fed' /\ signedIn'[p] = 0
      <4> SUFFICES ASSUME NEW p \in Parts
                   PROVE  /\ signedIn[p] <= 1 /\ (p > fed + 1 => signedIn[p] = 0)
                          /\ \A g \in Handles : p \in buffer'[g] => p <= fed + 1 /\ signedIn[p] = 0
                          /\ \A e \in Conns : p \in conn'[e].data => p <= fed + 1 /\ signedIn[p] = 0
        BY <1>6, <2>2
      <4>1. CASE p = fed + 1
        BY <3>1, <3>4, <4>1, <1>3
      <4>2. CASE p # fed + 1
        BY <1>1, <3>1, <3>2, <3>3, <4>2 DEF PartInv
      <4> QED BY <4>1, <4>2
    <3>6. \A p \in Parts :
             /\ \A g \in Handles : p \in buffer'[g] =>
                   /\ \A f \in Handles : p \in buffer'[f] => f = g
                   /\ \A e \in Conns : p \notin conn'[e].data
             /\ \A e \in Conns : p \in conn'[e].data => \A f \in Conns : p \in conn'[f].data => f = e
      BY <1>1, <3>1, <3>3, <3>4 DEF PartInv
    <3> QED BY <3>5, <3>6, Zenon DEF PartInv
  <2> QED BY <1>7, <2>1, <2>2
<1> QED BY <1>9, <1>10, <1>11 DEF SessionsInv

LEMMA CopyKeeps ==
    ASSUME SessionsInv, NEW c \in Conns, CopyParts(c)
    PROVE  SessionsInv'
<1>1. ConnInv /\ conn[c].pc = "copy" /\ conn[c].pc \in Operating /\ PartInv
  BY DEF SessionsInv, CopyParts, Doing, Operating
<1>2. /\ conn[c] \in Conn /\ conn[c].h \in Handles /\ conn \in [Conns -> Conn]
      /\ buffer \in [Handles -> SUBSET Parts] /\ conn[c].kind \in Kinds
  BY <1>1, ConnTyped
<1>3. PICK h \in Handles : h = conn[c].h
  BY <1>2
<1> DEFINE r == [conn[c] EXCEPT !.pc = "answer", !.data = buffer[h]]
<1>4. /\ r \in Conn /\ r.pc = "answer" /\ r.h = h /\ r.kind = conn[c].kind
      /\ r.data = buffer[h]
  BY <1>2, <1>3 DEF Conn, ConnPC
<1>5. ConnKnows(r)
  BY <1>2, <1>4 DEF ConnKnows
<1>6. ConnTakes(c, r)
  BY <1>2, <1>3 DEF CopyParts, ConnTakes
<1> HIDE DEF r
<1>7. conn'[c] = r /\ \A e \in Conns \ {c} : conn'[e] = conn[e]
  BY <1>1, <1>4, <1>5, <1>6, ConnsKept
<1>8. /\ UNCHANGED <<open, sessions, next, tokenIn, fed, signedIn, due>>
      /\ buffer' = [buffer EXCEPT ![h] = {}]
  BY <1>3 DEF CopyParts
<1>9. /\ buffer' \in [Handles -> SUBSET Parts] /\ buffer'[h] = {}
      /\ \A g \in Handles \ {h} : buffer'[g] = buffer[g]
  BY <1>2, <1>8
<1>10. ConnInv'
  BY <1>1, <1>4, <1>5, <1>6, <1>8, <1>9, OperationTyped DEF ConnInv, SessionsTypeOK
<1>11. OneAnswerPerInit'
  BY <1>1, <1>3, <1>4, <1>7, <1>8, AnswersStay
<1>12. PartInv'
  <2>1. \A p \in Parts, g \in Handles : p \in buffer'[g] => p \in buffer[g] /\ g # h
    BY <1>9
  <2>2. \A p \in Parts, e \in Conns : p \in conn'[e].data =>
           (e = c /\ p \in buffer[h]) \/ (e # c /\ p \in conn[e].data)
    BY <1>4, <1>7
  <2> QED BY <1>1, <1>8, <2>1, <2>2 DEF PartInv
<1> QED BY <1>10, <1>11, <1>12 DEF SessionsInv

LEMMA AnswerKeeps ==
    ASSUME SessionsInv, NEW c \in Conns, Answer(c)
    PROVE  SessionsInv'
<1>1. ConnInv /\ conn[c].pc = "answer" /\ conn[c].pc \in Operating /\ PartInv
  BY DEF SessionsInv, Answer, Doing, Operating
<1>2. /\ conn[c].h \in Handles /\ conn[c].kind \in Kinds /\ due \in [Handles \X Kinds -> Int]
      /\ signedIn \in [Parts -> Nat]
  BY <1>1, ConnTyped
<1>3. PICK h \in Handles, k \in Kinds : h = conn[c].h /\ k = conn[c].kind
  BY <1>2
<1>4. PICK r \in Conn : ConnKnows(r) /\ ConnTakes(c, r) /\ r.pc = "idle" /\ r.data = {}
  BY <1>1, ConnFinishes DEF Answer
<1>5. conn'[c] = r /\ \A e \in Conns \ {c} : conn'[e] = conn[e]
  BY <1>1, <1>4, ConnsKept
<1>6. UNCHANGED <<open, sessions, next, tokenIn, buffer, fed>> /\ due' = [due EXCEPT ![<<h, k>>] = @ - 1]
  BY <1>3 DEF Answer
<1>7. /\ due' \in [Handles \X Kinds -> Int] /\ due'[<<h, k>>] = due[<<h, k>>] - 1
      /\ \A x \in Handles, y \in Kinds : <<x, y>> # <<h, k>> => due'[<<x, y>>] = due[<<x, y>>]
  BY <1>2, <1>6
<1>8. /\ signedIn' \in [Parts -> Nat]
      /\ \A p \in Parts : signedIn'[p] = signedIn[p] \/ (p \in conn[c].data /\ signedIn'[p] = signedIn[p] + 1)
  BY <1>2 DEF Answer
<1>9. ConnInv'
  BY <1>1, <1>4, <1>6, <1>7, <1>8, OperationTyped DEF ConnInv, SessionsTypeOK
<1>10. /\ c \in Answering(h, k) /\ Answering(h, k)' = Answering(h, k) \ {c}
       /\ \A x, y : ~(x = h /\ y = k) => Answering(x, y)' = Answering(x, y)
  BY <1>1, <1>3, <1>4, <1>5 DEF Answering
<1>11. AnsweredOnce'
  <2> SUFFICES ASSUME NEW x \in Handles, NEW y \in Kinds
               PROVE  due'[<<x, y>>] = Cardinality(Answering(x, y)')
                                       + IF y \in sessions[x].active THEN 1 ELSE 0
    BY <1>6 DEF AnsweredOnce
  <2>1. due[<<x, y>>] = Cardinality(Answering(x, y)) + IF y \in sessions[x].active THEN 1 ELSE 0
    BY AnsweredUnfolded DEF SessionsInv, AnsweredOnce
  <2>2. Cardinality(Answering(x, y)) \in Nat /\ IsFiniteSet(Answering(x, y))
    BY <1>1, AnsweringFinite
  <2>3. CASE x = h /\ y = k
    <3>1. Cardinality(Answering(h, k)') = Cardinality(Answering(h, k)) - 1
      BY <1>10, <2>2, <2>3, FS_RemoveElement
    <3> QED BY <1>7, <2>1, <2>2, <2>3, <3>1
  <2>4. CASE ~(x = h /\ y = k)
    <3>1. due'[<<x, y>>] = due[<<x, y>>]
      BY <1>7, <2>4
    <3> QED BY <1>10, <2>1, <2>4, <3>1
  <2> QED BY <2>3, <2>4
<1>12. PartInv'
  <2>1. \A e \in Conns : conn'[e].data \subseteq conn[e].data /\ (e = c => conn'[e].data = {})
    BY <1>4, <1>5
  <2> SUFFICES ASSUME NEW p \in Parts
               PROVE  /\ signedIn'[p] <= 1 /\ (p > fed => signedIn'[p] = 0)
                      /\ \A g \in Handles : p \in buffer[g] =>
                            /\ p <= fed /\ signedIn'[p] = 0
                            /\ \A f \in Handles : p \in buffer[f] => f = g
                            /\ \A e \in Conns : p \notin conn'[e].data
                      /\ \A e \in Conns : p \in conn'[e].data =>
                            /\ p <= fed /\ signedIn'[p] = 0
                            /\ \A f \in Conns : p \in conn'[f].data => f = e
    BY <1>6 DEF PartInv
  <2>2. CASE signedIn'[p] = signedIn[p]
    BY <1>1, <2>1, <2>2 DEF PartInv
  <2>3. CASE p \in conn[c].data /\ signedIn'[p] = signedIn[p] + 1
    <3>1. /\ p <= fed /\ signedIn[p] = 0 /\ \A e \in Conns : p \in conn[e].data => e = c
          /\ \A g \in Handles : p \notin buffer[g]
      BY <1>1, <2>3 DEF PartInv
    <3>2. \A e \in Conns : p \notin conn'[e].data
      BY <2>1, <3>1
    <3>3. ~(p > fed)
      <4>1. p \in Nat /\ fed \in Nat
        BY <1>1, ConnTyped DEF Parts
      <4> QED BY <3>1, <4>1
    <3> QED BY <2>3, <3>1, <3>2, <3>3
  <2> QED BY <1>8, <2>2, <2>3
<1> QED BY <1>9, <1>11, <1>12, AnsweredUnfolded DEF SessionsInv

LEMMA SessionsInvHolds == SessionsSpec => []SessionsInv
<1>1. SessionsInit => SessionsInv
  <2> SUFFICES ASSUME SessionsInit PROVE SessionsInv
    OBVIOUS
  <2>1. Busy = {} /\ \A h, k : Answering(h, k) = {}
    BY DEF SessionsInit, Busy, Answering, NoRequest
  <2>2. IsFiniteSet({}) /\ Cardinality({}) = 0
    BY FS_EmptySet
  <2>3. conn \in [Conns -> Conn] /\ \A c \in Conns : ConnKnows(conn[c])
    BY NoRequestKnows DEF SessionsInit
  <2>4. sessions \in [Handles -> Session]
    <3>1. [state |-> "public", mu |-> NoConn, active |-> {}] \in Session
      BY DEF Session
    <3> QED BY <3>1 DEF SessionsInit
  <2>5. SessionsTypeOK
    <3>1. next \in 1 .. MaxSessions + 1 /\ fed \in 0 .. MaxParts
      BY CardSessionsAssumption DEF SessionsInit
    <3>2. /\ open \subseteq Handles /\ tokenIn \in BOOLEAN /\ buffer \in [Handles -> SUBSET Parts]
      BY DEF SessionsInit
    <3>3. signedIn \in [Parts -> Nat] /\ due \in [Handles \X Kinds -> Int]
      BY DEF SessionsInit
    <3> QED BY <2>3, <2>4, <3>1, <3>2, <3>3 DEF SessionsTypeOK
  <2>6. AnsweredOnce
    <3> SUFFICES ASSUME NEW h \in Handles, NEW k \in Kinds
                 PROVE  due[<<h, k>>] = Cardinality(Answering(h, k))
                                        + IF k \in sessions[h].active THEN 1 ELSE 0
      BY DEF AnsweredOnce
    <3>1. <<h, k>> \in Handles \X Kinds /\ due[<<h, k>>] = 0 /\ sessions[h].active = {}
      BY DEF SessionsInit
    <3>2. Cardinality(Answering(h, k)) = 0
      BY <2>1, <2>2
    <3> QED BY <3>1, <3>2
  <2>7. PartInv
    BY DEF SessionsInit, PartInv, NoRequest
  <2> QED BY <2>1, <2>2, <2>3, <2>5, <2>6, <2>7, AnsweredUnfolded DEF SessionsInv, ConnInv
<1>2. SessionsInv /\ [SessionsNext]_sessionVars => SessionsInv'
  <2> SUFFICES ASSUME SessionsInv, [SessionsNext]_sessionVars PROVE SessionsInv'
    OBVIOUS
  <2>1. ASSUME NEW c \in Conns, Step(c) PROVE SessionsInv'
    BY <2>1, ArrivingKeeps, InitKeeps, TakeKeeps, AppendKeeps, CopyKeeps, AnswerKeeps
       DEF Step, LogsInOrOut
  <2>2. ASSUME NEW c \in Conns, Arrive(c) PROVE SessionsInv'
    BY <2>2, ArrivingKeeps
  <2>3. CASE UNCHANGED sessionVars
    <3>1. ConnInv'
      BY <2>3 DEF sessionVars, SessionsInv, ConnInv, SessionsTypeOK, ConnKnows, Busy
    <3>2. OneAnswerPerInit' /\ PartInv'
      BY <2>3 DEF sessionVars, SessionsInv, OneAnswerPerInit, PartInv
    <3> QED BY <3>1, <3>2 DEF SessionsInv
  <2> QED BY <2>1, <2>2, <2>3 DEF SessionsNext
<1> QED BY <1>1, <1>2, PTL DEF SessionsSpec

\* Handles, sessions, buffers and connections keep their types.
THEOREM SessionTypes == SessionsSpec => []SessionsTypeOK
<1>1. SessionsInv => SessionsTypeOK
  BY DEF SessionsInv, ConnInv
<1> QED BY <1>1, SessionsInvHolds, PTL

\* An operation that was begun once is answered once, although any connection may finish it
\* and several try at the same time (ipc/handler.go).
THEOREM OneAnswerPerInitAlways == SessionsSpec => []OneAnswerPerInit
<1>1. SessionsInv => OneAnswerPerInit
  BY DEF SessionsInv
<1> QED BY <1>1, SessionsInvHolds, PTL

\* A part that was fed is in one signature at most, whoever asks for it and whatever is fed
\* meanwhile (handler_digest_verify_random.go).
THEOREM PartAlwaysSignedOnce == SessionsSpec => []PartSignedOnce
<1>1. SessionsInv => PartSignedOnce
  BY DEF SessionsInv, PartInv, PartSignedOnce
<1> QED BY <1>1, SessionsInvHolds, PTL

-----------------------------------------------------------------------------
(* The mutexes of the sessions *)

\* The mutexes of all sessions but g, and g's when it becomes m.
MutexBecomes(g, m) ==
    /\ sessions'[g].mu = m
    /\ \A h \in Handles \ {g} : sessions'[h].mu = sessions[h].mu

MutexesStay == \A h \in Handles : sessions'[h].mu = sessions[h].mu

\* How a statement of one connection goes with the mutex of its session.
LEMMA MutexKept ==
    ASSUME ConnInv, MutexesAreHeld, NEW c \in Conns, NEW g \in Handles,
           conn[c].pc = "idle" \/ conn[c].h = g,
           \A e \in Conns \ {c} : conn'[e] = conn[e],
           \/ conn[c].pc \notin Locking /\ conn'[c].pc \notin Locking /\ MutexesStay
           \/ /\ conn[c].pc \in Locking /\ conn'[c].pc \in Locking /\ conn'[c].h = g
              /\ MutexesStay
           \/ /\ conn[c].pc \notin Locking /\ conn'[c].pc \in Locking /\ conn'[c].h = g
              /\ Free(g) /\ MutexBecomes(g, c)
           \/ conn[c].pc \in Locking /\ conn'[c].pc \notin Locking /\ MutexBecomes(g, NoConn)
    PROVE  MutexesAreHeld'
<1>1. "idle" \notin Locking /\ \A e \in Conns : e # NoConn
  BY CardSessionsAssumption DEF Locking
<1>2. \A e \in Conns, h \in Handles : sessions[h].mu = e <=> conn[e].h = h /\ conn[e].pc \in Locking
  BY DEF MutexesAreHeld
<1> SUFFICES ASSUME NEW e \in Conns, NEW h \in Handles
             PROVE  sessions'[h].mu = e <=> conn'[e].h = h /\ conn'[e].pc \in Locking
  BY DEF MutexesAreHeld, Locking
<1>3. CASE conn[c].pc \notin Locking /\ conn'[c].pc \notin Locking /\ MutexesStay
  BY <1>2, <1>3 DEF MutexesStay
<1>4. CASE conn[c].pc \in Locking /\ conn'[c].pc \in Locking /\ conn'[c].h = g /\ MutexesStay
  BY <1>1, <1>2, <1>4 DEF MutexesStay
<1>5. CASE /\ conn[c].pc \notin Locking /\ conn'[c].pc \in Locking /\ conn'[c].h = g
           /\ Free(g) /\ MutexBecomes(g, c)
  BY <1>1, <1>2, <1>5 DEF MutexBecomes, Free
<1>6. CASE conn[c].pc \in Locking /\ conn'[c].pc \notin Locking /\ MutexBecomes(g, NoConn)
  BY <1>1, <1>2, <1>6 DEF MutexBecomes
<1> QED BY <1>3, <1>4, <1>5, <1>6

\* What an update of one session does to the mutexes.
LEMMA MutexEdited ==
    ASSUME sessions \in [Handles -> Session], NEW g \in Handles, NEW st, NEW m, NEW ops
    PROVE  /\ UNCHANGED sessions => MutexesStay
           /\ sessions' = [sessions EXCEPT ![g].state = st] => MutexesStay
           /\ sessions' = [sessions EXCEPT ![g].active = ops] => MutexesStay
           /\ sessions' = [sessions EXCEPT ![g].mu = m] => MutexBecomes(g, m)
           /\ sessions' = [sessions EXCEPT ![g].state = st, ![g].mu = m] => MutexBecomes(g, m)
<1>1. DOMAIN sessions = Handles /\ \A h \in Handles : sessions[h] \in Session
  OBVIOUS
<1>2. /\ [sessions[g] EXCEPT !.state = st].mu = sessions[g].mu
      /\ [sessions[g] EXCEPT !.active = ops].mu = sessions[g].mu
      /\ [sessions[g] EXCEPT !.mu = m].mu = m
      /\ [sessions[g] EXCEPT !.state = st, !.mu = m].mu = m
  BY <1>1 DEF Session
<1> QED BY <1>1, <1>2 DEF MutexesStay, MutexBecomes

\* The statement that a connection goes to.
LEMMA ConnAt ==
    ASSUME ConnInv, NEW c \in Conns
    PROVE  /\ Finish(c) => conn'[c].pc = "idle" /\ \A e \in Conns \ {c} : conn'[e] = conn[e]
           /\ \A pc : Continue(c, pc) => /\ conn'[c].pc = pc /\ conn'[c].h = conn[c].h
                                         /\ \A e \in Conns \ {c} : conn'[e] = conn[e]
<1>1. conn[c] \in Conn /\ conn \in [Conns -> Conn]
  BY ConnHas
<1>2. ASSUME NEW pc, Continue(c, pc)
      PROVE  /\ conn'[c].pc = pc /\ conn'[c].h = conn[c].h
             /\ \A e \in Conns \ {c} : conn'[e] = conn[e]
  <2>1. [conn[c] EXCEPT !.pc = pc].pc = pc /\ [conn[c] EXCEPT !.pc = pc].h = conn[c].h
    BY <1>1 DEF Conn
  <2>2. conn' = [conn EXCEPT ![c] = [conn[c] EXCEPT !.pc = pc]]
    BY <1>1, <1>2 DEF Continue
  <2> QED BY <1>1, <2>1, <2>2
<1>3. Finish(c) => conn'[c].pc = "idle" /\ \A e \in Conns \ {c} : conn'[e] = conn[e]
  BY <1>1 DEF Finish, NoRequest
<1> QED BY <1>2, <1>3

LEMMA MutexStep ==
    ASSUME ConnInv, MutexesAreHeld, NEW c \in Conns, Step(c)
    PROVE  MutexesAreHeld'
<1>1. conn[c].pc # "idle" /\ conn[c].h \in Handles /\ sessions \in [Handles -> Session]
  <2>1. conn[c].pc # "idle"
    BY DEF Step, LockForLogin, CheckReadOnly, ProviderLogin, LockForLogout, ProviderLogout, Collect,
           SyncOne, InitOperation, TakeOperation, CheckUpdate, AppendPart, CopyParts, Answer, Doing
  <2> QED BY <2>1, ConnHas DEF ConnKnows, ConnInv, SessionsTypeOK
<1>2. PICK g \in Handles : g = conn[c].h
  BY <1>1
<1>3. CASE LockForLogin(c) \/ LockForLogout(c)
  <2>1. conn[c].pc \notin Locking /\ Free(g)
    BY <1>2, <1>3 DEF LockForLogin, LockForLogout, Doing, Locking
  <2>2. \/ Finish(c) /\ UNCHANGED sessions
        \/ /\ Continue(c, "checkReadOnly") \/ Continue(c, "provider") \/ Continue(c, "providerOut")
           /\ sessions' = [sessions EXCEPT ![g].mu = c]
    BY <1>2, <1>3 DEF LockForLogin, LockForLogout
  <2> QED BY <1>1, <1>2, <2>1, <2>2, ConnAt, MutexEdited, MutexKept DEF Locking
<1>4. CASE CheckReadOnly(c) \/ ProviderLogin(c) \/ ProviderLogout(c)
  <2>1. conn[c].pc \in Locking
    BY <1>4 DEF CheckReadOnly, ProviderLogin, ProviderLogout, Doing, Locking
  <2>2. \/ Continue(c, "provider") /\ UNCHANGED sessions
        \/ /\ Finish(c) \/ Continue(c, "collect")
           /\ \/ sessions' = [sessions EXCEPT ![g].mu = NoConn]
              \/ \E st : sessions' = [sessions EXCEPT ![g].state = st, ![g].mu = NoConn]
    BY <1>2, <1>4 DEF CheckReadOnly, ProviderLogin, LoginFails, LoginSucceeds, ProviderLogout
  <2>3. CASE Continue(c, "provider") /\ UNCHANGED sessions
    BY <1>1, <1>2, <2>1, <2>3, ConnAt, MutexEdited, MutexKept DEF Locking
  <2>4. CASE /\ Finish(c) \/ Continue(c, "collect")
             /\ \/ sessions' = [sessions EXCEPT ![g].mu = NoConn]
                \/ \E st : sessions' = [sessions EXCEPT ![g].state = st, ![g].mu = NoConn]
    <3>1. MutexBecomes(g, NoConn)
      BY <1>1, <2>4, MutexEdited
    <3>2. conn'[c].pc \notin Locking /\ \A e \in Conns \ {c} : conn'[e] = conn[e]
      BY <2>4, ConnAt DEF Locking
    <3> QED BY <1>2, <2>1, <3>1, <3>2, MutexKept
  <2> QED BY <2>2, <2>3, <2>4
<1>5. CASE \E t \in Handles : SyncOne(c, t)
  <2>1. PICK t \in Handles : SyncOne(c, t)
    BY <1>5
  <2>2. MutexesStay /\ conn[c].pc \notin Locking
    BY <1>1, <2>1, MutexEdited DEF SyncOne, Doing, Locking
  <2>3. conn'[c].pc \notin Locking /\ \A e \in Conns \ {c} : conn'[e] = conn[e]
    <3>1. CASE conn' = [conn EXCEPT ![c].targets = @ \ {t}]
      BY <2>1, <3>1, ConnHas DEF SyncOne, Doing, Locking, Conn
    <3> QED BY <2>1, <3>1, ConnAt DEF SyncOne, Locking
  <2> QED BY <1>1, <1>2, <2>2, <2>3, MutexKept
<1>6. CASE Collect(c)
  <2>1. MutexesStay /\ conn[c].pc \notin Locking
    BY <1>6 DEF Collect, Doing, Locking, MutexesStay
  <2>2. conn'[c].pc \notin Locking /\ \A e \in Conns \ {c} : conn'[e] = conn[e]
    <3>1. CASE conn' = [conn EXCEPT ![c].pc = "sync", ![c].targets = open \ {conn[c].h}]
      BY <3>1, ConnHas DEF Locking, Conn
    <3> QED BY <1>6, <3>1, ConnAt DEF Collect, Locking
  <2> QED BY <1>1, <1>2, <2>1, <2>2, MutexKept
<1>7. CASE CopyParts(c)
  <2>1. conn'[c].pc \notin Locking /\ \A e \in Conns \ {c} : conn'[e] = conn[e]
    BY <1>7, ConnHas DEF CopyParts, Locking, Conn
  <2>2. MutexesStay /\ conn[c].pc \notin Locking
    BY <1>7 DEF CopyParts, Doing, Locking, MutexesStay
  <2> QED BY <1>1, <1>2, <2>1, <2>2, MutexKept
<1>8. CASE \/ InitOperation(c) \/ TakeOperation(c, "do", "answer") \/ TakeOperation(c, "final", "copy")
           \/ CheckUpdate(c) \/ AppendPart(c) \/ Answer(c)
  <2>1. /\ conn[c].pc \notin Locking
        /\ \/ Finish(c) \/ Continue(c, "answer") \/ Continue(c, "copy") \/ Continue(c, "append")
    BY <1>8 DEF InitOperation, TakeOperation, CheckUpdate, AppendPart, Answer, Doing, Locking
  <2>2. UNCHANGED sessions \/ \E ops : sessions' = [sessions EXCEPT ![g].active = ops]
    BY <1>2, <1>8 DEF InitOperation, TakeOperation, CheckUpdate, AppendPart, Answer
  <2>3. MutexesStay
    BY <1>1, <2>2, MutexEdited
  <2>4. conn'[c].pc \notin Locking /\ \A e \in Conns \ {c} : conn'[e] = conn[e]
    BY <2>1, ConnAt DEF Locking
  <2> QED BY <1>2, <2>1, <2>3, <2>4, MutexKept
<1> QED BY <1>3, <1>4, <1>5, <1>6, <1>7, <1>8 DEF Step

\* The mutex of a session is held by the request that logs in or out on it, from its lock to its
\* unlock on every path, and by nobody else; no request that holds one waits for another, so that
\* requests never wait for each other (sessionsOfSlot and its callers, card/manager.go).
THEOREM MutexesAlwaysHeld == SessionsSpec => []MutexesAreHeld
<1>1. SessionsInit => MutexesAreHeld
  BY CardSessionsAssumption DEF SessionsInit, MutexesAreHeld, NoRequest, Locking
<1>2. SessionsInv /\ MutexesAreHeld /\ [SessionsNext]_sessionVars => MutexesAreHeld'
  <2> SUFFICES ASSUME SessionsInv, MutexesAreHeld, [SessionsNext]_sessionVars PROVE MutexesAreHeld'
    OBVIOUS
  <2>1. ConnInv
    BY DEF SessionsInv
  <2>2. ASSUME NEW c \in Conns, Step(c) PROVE MutexesAreHeld'
    BY <2>1, <2>2, MutexStep
  <2>3. ASSUME NEW c \in Conns, Arrive(c) PROVE MutexesAreHeld'
    <3>1. conn[c].pc = "idle" /\ UNCHANGED sessions
      BY <2>1, <2>3, Arriving DEF NoRequest
    <3>2. conn'[c].pc \notin Locking /\ \A e \in Conns \ {c} : conn'[e] = conn[e]
      <4>1. CASE \E pc \in {"login", "logout", "init", "do", "update", "final"} :
                    \E h, as, kind : Request(c, h, pc, as, kind)
        <5>1. \A pc, h, as, kind :
                 [NoRequest EXCEPT !.pc = pc, !.h = h, !.as = as, !.kind = kind].pc = pc
          BY DEF NoRequest
        <5> QED BY <2>1, <4>1, <5>1, ConnHas DEF Request, Locking
      <4>2. CASE conn' = conn
        BY <3>1, <4>2 DEF Locking
      <4> QED BY <2>3, <4>1, <4>2 DEF Arrive, OpenSession, CloseSession, CloseAllSessions
    <3>3. MutexesStay /\ "idle" \notin Locking
      BY <3>1 DEF MutexesStay, Locking
    <3>4. CASE Handles # {}
      <4>1. PICK g \in Handles : TRUE
        BY <3>4
      <4> QED BY <2>1, <3>1, <3>2, <3>3, <4>1, MutexKept
    <3> QED BY <3>4 DEF MutexesAreHeld
  <2>4. CASE UNCHANGED sessionVars
    BY <2>4 DEF sessionVars, MutexesAreHeld
  <2> QED BY <2>2, <2>3, <2>4 DEF SessionsNext
<1> QED BY <1>1, <1>2, SessionsInvHolds, PTL DEF SessionsSpec
=============================================================================
