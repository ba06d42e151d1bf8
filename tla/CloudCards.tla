----------------------------- MODULE CloudCards -----------------------------
(***************************************************************************)
(* Cloud cards of one user: opening them for a paid order, PIN sessions,   *)
(* keys in a device and their certificates (card/service.go,               *)
(* card/pin_session.go, api/handler_card.go, api/handler_business.go).     *)
(* Sessions are in memory, everything else is in the database or the       *)
(* device; nothing spans the two.                                          *)
(*                                                                         *)
(* Every card has a PIN, and its zone is a device.  Entries of PUK and     *)
(* admin key are right: a wrong one changes nothing.  Signing and          *)
(* decrypting change nothing either.                                       *)
(***************************************************************************)
EXTENDS Integers, FiniteSets

CONSTANTS
    Cards,          \* rows of cards
    Keys,           \* keys in the device, and the rows of certificates for them
    Tokens,         \* tokens of PIN sessions
    Desks,          \* concurrent requests
    NoCard, NoKey,
    Limit,          \* SpecQuantity of the order
    Retries         \* cards.pin_retries

ASSUME CardAssumption ==
    /\ NoCard \notin Cards /\ NoKey \notin Keys /\ Cards \cap Keys = {}
    /\ Limit \in Nat /\ Retries \in Nat \ {0}

VARIABLES
    order,          \* cert_orders.status
    card,           \* cards
    device,         \* keys that exist in the device
    cert,           \* certificates.card_uuid, by the key of the certificate
    session,        \* PINSessionStore.sessions
    desk,           \* the requests
    usedUp,         \* for the properties: the order once had all its cards
    missed,         \* for the properties: the order could not be completed
    left,           \* for the properties: cards and keys whose clean-up failed or was cut off
    abandoned       \* for the properties: keys whose certificates were deleted without them

cardVars == <<order, card, device, cert, session, desk, usedUp, missed, left, abandoned>>

-----------------------------------------------------------------------------
CardRow == [there : BOOLEAN, bound : BOOLEAN, failed : 0..Retries, locked : BOOLEAN]
NewCard == [there |-> FALSE, bound |-> FALSE, failed |-> 0, locked |-> FALSE]

\* Whether the PIN has changed since the session's PIN was read, and if so, whether it was
\* the task of that change to end the session: for the properties.
SessionState == {"valid", "outdated", "excused"}
NoSession == [card |-> NoCard, state |-> "valid"]

DeskPC == {"idle", "create", "bind", "count", "complete", "undo", "clear", "delete",
           "wrong", "right", "session", "unlock", "reset", "puk", "revoke",
           "generate", "insert", "reclaim", "destroy", "remove", "other"}
\* failed is what the request has read; changed, for the properties, that the PIN it has
\* read is no longer the PIN.
Idle == [pc |-> "idle", card |-> NoCard, key |-> NoKey, failed |-> 0, changed |-> FALSE]

At(d, pc) == desk[d].pc = pc
GoTo(d, pc) == desk' = [desk EXCEPT ![d].pc = pc]
Return(d) == desk' = [desk EXCEPT ![d] = Idle]
Start(d, pc, c, k) ==
    /\ desk[d] = Idle
    /\ desk' = [desk EXCEPT ![d] = [Idle EXCEPT !.pc = pc, !.card = c, !.key = k]]

Bound == {c \in Cards : card[c].there /\ card[c].bound}
KeysOn(c) == {k \in Keys : cert[k] = c}

\* A fresh identifier: one that nothing refers to.
FreshCards ==
    {c \in Cards : /\ card[c] = NewCard /\ \A d \in Desks : desk[d].card # c
                   /\ \A t \in Tokens : session[t].card # c}
FreshKeys ==
    {k \in Keys \ device : cert[k] = NoCard /\ \A d \in Desks : desk[d].key # k}

CardInit ==
    /\ order = "paid"
    /\ card = [c \in Cards |-> NewCard]
    /\ device = {} /\ cert = [k \in Keys |-> NoCard]
    /\ session = [t \in Tokens |-> NoSession]
    /\ desk = [d \in Desks |-> Idle]
    /\ usedUp = FALSE /\ missed = FALSE /\ left = {} /\ abandoned = {}

-----------------------------------------------------------------------------
(* Opening a card *)

\* authorizeCardCreation. Its count of cards is read with errors ignored, and a failure
\* counts as none: it keeps nobody out for certain.
Authorize(d) ==
    /\ order = "paid" /\ Start(d, "create", NoCard, NoKey)
    /\ UNCHANGED <<order, card, device, cert, session, usedUp, missed, left, abandoned>>

CreateCard(d) ==
    /\ At(d, "create")
    /\ \/ \E c \in FreshCards :
             /\ card' = [card EXCEPT ![c].there = TRUE]
             /\ desk' = [desk EXCEPT ![d].pc = "bind", ![d].card = c]
       \/ Return(d) /\ UNCHANGED card
    /\ UNCHANGED <<order, device, cert, session, usedUp, missed, left, abandoned>>

\* Mutant of BindOrder: the count of authorizeCardCreation is trusted.
BindUncounted(d) ==
    /\ At(d, "bind")
    /\ card' = [card EXCEPT ![desk[d].card].bound = TRUE]
    /\ usedUp' = (usedUp \/ Cardinality(Bound) + 1 >= Limit)
    /\ GoTo(d, "count")
    /\ UNCHANGED <<order, device, cert, session, missed, left, abandoned>>

\* One UPDATE counts and binds; cardOrderLimit is zero when it cannot read the order.
BindOrder(d) ==
    LET c == desk[d].card IN
    /\ At(d, "bind")
    /\ \/ /\ card[c].there /\ Cardinality(Bound) < Limit
          /\ card' = [card EXCEPT ![c].bound = TRUE]
          /\ usedUp' = (usedUp \/ Cardinality(Bound) + 1 = Limit)
          /\ GoTo(d, "count")
       \/ GoTo(d, "undo") /\ UNCHANGED <<card, usedUp>>
    /\ UNCHANGED <<order, device, cert, session, missed, left, abandoned>>

\* DeleteCard of a card that was not bound; its error is ignored.
Undo(d) ==
    LET c == desk[d].card IN
    /\ At(d, "undo")
    /\ \/ /\ IF card[c].there THEN GoTo(d, "clear") ELSE Return(d)
          /\ UNCHANGED left
       \/ Return(d) /\ left' = left \cup {c}
    /\ UNCHANGED <<order, card, device, cert, session, usedUp, missed, abandoned>>

\* markCardOrderFulfilled counts ...
CountCards(d) ==
    /\ At(d, "count")
    /\ \/ /\ IF Cardinality(Bound) < Limit THEN Return(d) ELSE GoTo(d, "complete")
          /\ UNCHANGED missed
       \/ Return(d) /\ missed' = TRUE
    /\ UNCHANGED <<order, card, device, cert, session, usedUp, left, abandoned>>

\* ... and completes the order; its error is ignored.
Complete(d) ==
    /\ At(d, "complete")
    /\ \/ order' = (IF order = "paid" THEN "completed" ELSE order) /\ UNCHANGED missed
       \/ missed' = TRUE /\ UNCHANGED order
    /\ Return(d)
    /\ UNCHANGED <<card, device, cert, session, usedUp, left, abandoned>>

\* A refund that was requested before a card was opened is approved.
Refund ==
    /\ order = "paid" /\ order' = "refunded"
    /\ UNCHANGED <<card, device, cert, session, desk, usedUp, missed, left, abandoned>>

-----------------------------------------------------------------------------
(* Deleting a card *)

DeleteCard(d, c) ==
    /\ card[c].there /\ Start(d, "clear", c, NoKey)
    /\ UNCHANGED <<order, card, device, cert, session, usedUp, missed, left, abandoned>>

\* The certificates of the card are deleted, and nobody destroys their keys.
Drop(c, rest) ==
    /\ cert' = [k \in Keys |-> IF cert[k] = c THEN NoCard ELSE cert[k]]
    /\ left' = rest \ KeysOn(c)
    /\ abandoned' = abandoned \cup (KeysOn(c) \cap device)

\* CardRepo.Delete; an error leaves a card that was to be undone behind.
Stays(c) ==
    /\ left' = IF card[c].bound THEN left ELSE left \cup {c}
    /\ UNCHANGED <<cert, abandoned>>

ClearCerts(d) ==
    LET c == desk[d].card IN
    /\ At(d, "clear")
    /\ \/ Drop(c, left) /\ GoTo(d, "delete")
       \/ Return(d) /\ Stays(c)
    /\ UNCHANGED <<order, card, device, session, usedUp, missed>>

\* The foreign key deletes the certificates that came since.
DeleteRow(d) ==
    LET c == desk[d].card IN
    /\ At(d, "delete")
    /\ \/ /\ card' = [card EXCEPT ![c] = NewCard]
          /\ Drop(c, left \ {c})
       \/ Stays(c) /\ UNCHANGED card
    /\ Return(d)
    /\ UNCHANGED <<order, device, session, usedUp, missed>>

-----------------------------------------------------------------------------
(* PIN and sessions *)

\* VerifyPIN reads the row and compares ...
VerifyPIN(d, c, right) ==
    /\ card[c].there /\ ~card[c].locked
    /\ desk[d] = Idle
    /\ desk' = [desk EXCEPT ![d] = [Idle EXCEPT !.pc = IF right THEN "right" ELSE "wrong",
                                        !.card = c, !.failed = card[c].failed]]
    /\ UNCHANGED <<order, card, device, cert, session, usedUp, missed, left, abandoned>>

\* UpdatePINStatus.
SetStatus(c, failed, locked) ==
    card' = IF card[c].there THEN [card EXCEPT ![c].failed = failed, ![c].locked = locked] ELSE card

\* ... and writes a counter made from what it has read ...
WrongPIN(d) ==
    LET n == desk[d].failed + 1 IN
    /\ At(d, "wrong")
    /\ SetStatus(desk[d].card, n, n >= Retries) \/ UNCHANGED card
    /\ Return(d)
    /\ UNCHANGED <<order, device, cert, session, usedUp, missed, left, abandoned>>

\* ... or none, if there were failures; the error is ignored.
RightPIN(d) ==
    /\ At(d, "right")
    /\ \/ desk[d].failed > 0 /\ SetStatus(desk[d].card, 0, FALSE)
       \/ UNCHANGED card
    /\ GoTo(d, "session")
    /\ UNCHANGED <<order, device, cert, session, usedUp, missed, left, abandoned>>

\* PINSessionStore.Create, for the PIN that was read.
CreateSession(d) ==
    /\ At(d, "session")
    /\ \E t \in {x \in Tokens : session[x] = NoSession} :
          session' = [session EXCEPT ![t] =
                          [card |-> desk[d].card,
                           state |-> IF desk[d].changed THEN "excused" ELSE "valid"]]
    /\ Return(d)
    /\ UNCHANGED <<order, card, device, cert, usedUp, missed, left, abandoned>>

\* Revoke by logging out, or the end of the session's time.
EndSession(t) ==
    /\ session[t] # NoSession /\ session' = [session EXCEPT ![t] = NoSession]
    /\ UNCHANGED <<order, card, device, cert, desk, usedUp, missed, left, abandoned>>

\* UnlockWithPUK and ResetWithAdminKey have accepted their secret.
ChangePIN(d, c, pc) ==
    /\ card[c].there /\ Start(d, pc, c, NoKey)
    /\ UNCHANGED <<order, card, device, cert, session, usedUp, missed, left, abandoned>>

\* UpdatePINData for request d, which goes on to pc.
SetPIN(d, c, pc) ==
    /\ card' = IF card[c].there
               THEN [card EXCEPT ![c].failed = 0, ![c].locked = FALSE] ELSE card
    /\ session' = [t \in Tokens |-> IF session[t] = [card |-> c, state |-> "valid"]
                                    THEN [session[t] EXCEPT !.state = "outdated"]
                                    ELSE session[t]]
    /\ desk' = [e \in Desks |->
                  IF e = d THEN [desk[d] EXCEPT !.pc = pc]
                  ELSE IF desk[e].card = c /\ desk[e].pc \in {"right", "session"}
                  THEN [desk[e] EXCEPT !.changed = TRUE] ELSE desk[e]]

\* With or without a new PIN.
UnlockWithPUK(d) ==
    LET c == desk[d].card IN
    /\ At(d, "unlock")
    /\ \/ SetPIN(d, c, "revoke")
       \/ SetStatus(c, 0, FALSE) /\ GoTo(d, "revoke") /\ UNCHANGED session
       \/ Return(d) /\ UNCHANGED <<card, session>>
    /\ UNCHANGED <<order, device, cert, usedUp, missed, left, abandoned>>

\* The PIN first, if a new one was given, ...
ResetPIN(d) ==
    LET c == desk[d].card IN
    /\ At(d, "reset")
    /\ \/ SetPIN(d, c, "puk")
       \/ GoTo(d, "puk") /\ UNCHANGED <<card, session>>
       \/ Return(d) /\ UNCHANGED <<card, session>>
    /\ UNCHANGED <<order, device, cert, usedUp, missed, left, abandoned>>

\* ... then the PUK; when that fails the request ends and the sessions stay.
ResetPUK(d) ==
    /\ At(d, "puk")
    /\ \/ GoTo(d, "revoke") /\ UNCHANGED session
       \/ /\ Return(d)
          /\ session' = [t \in Tokens |->
                            IF session[t] = [card |-> desk[d].card, state |-> "outdated"]
                            THEN [session[t] EXCEPT !.state = "excused"] ELSE session[t]]
    /\ UNCHANGED <<order, card, device, cert, usedUp, missed, left, abandoned>>

\* Mutant of RevokeByCard: the sessions of a locked card only.
RevokeLocked(d) ==
    /\ At(d, "revoke")
    /\ session' = [t \in Tokens |-> IF session[t].card = desk[d].card /\ card[desk[d].card].locked
                                    THEN NoSession ELSE session[t]]
    /\ Return(d)
    /\ UNCHANGED <<order, card, device, cert, usedUp, missed, left, abandoned>>

RevokeByCard(d) ==
    /\ At(d, "revoke")
    /\ session' = [t \in Tokens |-> IF session[t].card = desk[d].card THEN NoSession ELSE session[t]]
    /\ Return(d)
    /\ UNCHANGED <<order, card, device, cert, usedUp, missed, left, abandoned>>

-----------------------------------------------------------------------------
(* Keys, for requests with a session *)

\* checkPINSession.
Admitted(c) == card[c].there /\ \E t \in Tokens : session[t].card = c

GenerateKeyPair(d, c) ==
    /\ Admitted(c) /\ Start(d, "generate", c, NoKey)
    /\ UNCHANGED <<order, card, device, cert, session, usedUp, missed, left, abandoned>>

GenerateKey(d) ==
    /\ At(d, "generate")
    /\ \/ \E k \in FreshKeys :
             /\ device' = device \cup {k}
             /\ desk' = [desk EXCEPT ![d].pc = "insert", ![d].key = k]
       \/ Return(d) /\ UNCHANGED device
    /\ UNCHANGED <<order, card, cert, session, usedUp, missed, left, abandoned>>

\* Mutant of InsertCert: a certificate that is refused leaves its key.
InsertOrForget(d) ==
    /\ At(d, "insert")
    /\ cert' = IF card[desk[d].card].there THEN [cert EXCEPT ![desk[d].key] = desk[d].card] ELSE cert
    /\ Return(d)
    /\ UNCHANGED <<order, card, device, session, usedUp, missed, left, abandoned>>

\* The foreign key refuses a certificate of a card that is gone.
InsertCert(d) ==
    /\ At(d, "insert")
    /\ \/ /\ card[desk[d].card].there
          /\ cert' = [cert EXCEPT ![desk[d].key] = desk[d].card] /\ Return(d)
       \/ GoTo(d, "reclaim") /\ UNCHANGED cert
    /\ UNCHANGED <<order, card, device, session, usedUp, missed, left, abandoned>>

\* Destroy of the device; an error leaves the key behind.
Destroy(k) ==
    \/ device' = device \ {k} /\ left' = left \ {k} /\ abandoned' = abandoned \ {k}
    \/ left' = left \cup ({k} \cap device) /\ UNCHANGED <<device, abandoned>>

Reclaim(d) ==
    /\ At(d, "reclaim") /\ Destroy(desk[d].key) /\ Return(d)
    /\ UNCHANGED <<order, card, cert, session, usedUp, missed>>

\* When certForCard fails, because the certificate is of another card or cannot be read,
\* DeleteCert deletes the certificate all the same and leaves its key.
DeleteCert(d, c, k) ==
    /\ Admitted(c) /\ cert[k] # NoCard
    /\ \E pc \in {"destroy", "other"} : (pc = "destroy" => cert[k] = c) /\ Start(d, pc, c, k)
    /\ UNCHANGED <<order, card, device, cert, session, usedUp, missed, left, abandoned>>

DestroyKey(d) ==
    /\ At(d, "destroy") /\ Destroy(desk[d].key) /\ GoTo(d, "remove")
    /\ UNCHANGED <<order, card, cert, session, usedUp, missed>>

RemoveCert(d) ==
    LET k == desk[d].key IN
    /\ At(d, "remove")
    /\ \/ cert' = [cert EXCEPT ![k] = NoCard] /\ left' = left \ ({k} \ device)
       \/ left' = left \cup {k} /\ UNCHANGED cert
    /\ Return(d)
    /\ UNCHANGED <<order, card, device, session, usedUp, missed, abandoned>>

RemoveOther(d) ==
    LET k == desk[d].key IN
    /\ At(d, "other")
    /\ \/ cert' = [cert EXCEPT ![k] = NoCard] /\ abandoned' = abandoned \cup ({k} \cap device)
       \/ UNCHANGED <<cert, abandoned>>
    /\ Return(d)
    /\ UNCHANGED <<order, card, device, session, usedUp, missed, left>>

-----------------------------------------------------------------------------
Unbound(c) == card[c].there /\ ~card[c].bound
Unmatched(k) == (k \in device) # (cert[k] # NoCard)

\* Sessions are lost, and what the requests had in hand is left as it is.
Restart ==
    /\ session' = [t \in Tokens |-> NoSession]
    /\ desk' = [d \in Desks |-> Idle]
    /\ missed' = (missed \/ \E d \in Desks : desk[d].pc \in {"count", "complete"})
    /\ left' = left \cup {c \in Cards : Unbound(c)} \cup {k \in Keys \ abandoned : Unmatched(k)}
    /\ \E d \in Desks : desk[d] # Idle
    /\ UNCHANGED <<order, card, device, cert, usedUp, abandoned>>

\* A statement of a request on its own.
DeskStep(d) ==
    \/ CreateCard(d) \/ BindOrder(d) \/ Undo(d) \/ CountCards(d) \/ Complete(d)
    \/ ClearCerts(d) \/ DeleteRow(d)
    \/ WrongPIN(d) \/ RightPIN(d) \/ CreateSession(d)
    \/ UnlockWithPUK(d) \/ ResetPIN(d) \/ ResetPUK(d) \/ RevokeByCard(d)
    \/ GenerateKey(d) \/ InsertCert(d) \/ Reclaim(d) \/ DestroyKey(d) \/ RemoveCert(d)
    \/ RemoveOther(d)

CardNext ==
    \/ \E d \in Desks : Authorize(d) \/ DeskStep(d)
    \/ \E d \in Desks, c \in Cards :
          \/ DeleteCard(d, c) \/ GenerateKeyPair(d, c)
          \/ \E right \in BOOLEAN : VerifyPIN(d, c, right)
          \/ \E pc \in {"unlock", "reset"} : ChangePIN(d, c, pc)
          \/ \E k \in Keys : DeleteCert(d, c, k)
    \/ Refund
    \/ \E t \in Tokens : EndSession(t)
    \/ Restart

CardSpec == CardInit /\ [][CardNext]_cardVars

-----------------------------------------------------------------------------
(* Properties *)

CardTypeOK ==
    /\ order \in {"paid", "completed", "refunded"}
    /\ card \in [Cards -> CardRow]
    /\ device \subseteq Keys /\ cert \in [Keys -> Cards \cup {NoCard}]
    /\ session \in [Tokens -> [card : Cards \cup {NoCard}, state : SessionState]]
    /\ desk \in [Desks -> [pc : DeskPC, card : Cards \cup {NoCard}, key : Keys \cup {NoKey},
                           failed : 0..Retries, changed : BOOLEAN]]
    /\ left \subseteq Cards \cup Keys /\ abandoned \subseteq Keys
    /\ usedUp \in BOOLEAN /\ missed \in BOOLEAN

\* An order gives at most the cards that were bought, whoever opens and deletes them at the
\* same time; it is completed when they were opened and not before, and stays open only if
\* the statements that complete it fail (BindOrder, markCardOrderFulfilled).
CardOrderKept ==
    /\ Cardinality(Bound) <= Limit
    /\ order = "completed" => usedUp
    /\ order = "paid" /\ Cardinality(Bound) = Limit /\ Limit > 0 =>
           missed \/ \E d \in Desks : desk[d].pc \in {"count", "complete"}

\* No card is had without the order it was opened for, no key is in the device without a
\* certificate, and no certificate is without its key: the requests that make and delete
\* them clean up behind each other (handleCreateCard, GenerateKeyPair, DeleteCert).  What
\* strays is one of two things: left, because a statement of the clean-up failed or a
\* restart came before it, or abandoned, a key whose certificate was deleted with its card
\* (CardRepo.Delete) or by a request that could not read it as one of its card's
\* (DeleteCert): there no key is destroyed, although nothing of the deletion failed.
NothingStrays ==
    /\ \A c \in Cards \ left :
           Unbound(c) => \E d \in Desks : /\ desk[d].pc \in {"bind", "undo", "clear", "delete"}
                                         /\ desk[d].card = c
    /\ \A k \in Keys \ (left \cup abandoned) : Unmatched(k) => \E d \in Desks : desk[d].key = k

\* Not so: the deletion of certificates leaves no orphan keys unless destroying them fails
\* (card/service.go:446).  A card may be deleted with its certificates, and a certificate
\* through another card.
NoOrphanKeys ==
    \A k \in Keys \ left : Unmatched(k) => \E d \in Desks : desk[d].key = k

\* A session ends with the PIN it was opened by: when PUK or admin key have set a new PIN,
\* no session of the old one is left, except one whose PIN was read before and which began
\* afterwards, and those of a reset that failed halfway (RevokeByCard in
\* handleUnlockWithPUK and handleResetWithAdminKey).
SessionsFollowPin ==
    \A t \in Tokens :
        session[t].state = "outdated" =>
            \E d \in Desks : desk[d].pc \in {"puk", "revoke"} /\ desk[d].card = session[t].card
=============================================================================
