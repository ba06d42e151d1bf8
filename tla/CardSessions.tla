---------------------------- MODULE CardSessions ----------------------------
(***************************************************************************)
(* The local manager behind the PKCS#11 drivers: the sessions of one slot  *)
(* (clients/internal/card/manager.go, engine.go) and the handlers of the   *)
(* IPC server that log in and out, sign, encrypt and decrypt               *)
(* (clients/internal/ipc/handler.go).  Every connection is served by its   *)
(* own goroutine and may name any session.  A session has a mutex, the     *)
(* slot (card/local/slot.go) and the manager have one each; the latter two *)
(* are held within single steps only.                                      *)
(***************************************************************************)
EXTENDS Integers, FiniteSets

CONSTANTS
    Conns,          \* connections of the IPC server
    Kinds,          \* kinds of operations: "sign", "decrypt", "encrypt"
    NoConn,
    ReadOnly,       \* handles that are opened without CKF_RW_SESSION
    MaxSessions,    \* bound: sessions opened
    MaxParts        \* bound: parts fed to signatures

ASSUME CardSessionsAssumption ==
    /\ NoConn \notin Conns /\ Kinds \subseteq {"sign", "decrypt", "encrypt"}
    /\ MaxSessions \in Nat \ {0} /\ MaxParts \in Nat /\ ReadOnly \subseteq 1 .. MaxSessions

VARIABLES
    open,       \* Manager.sessions
    sessions,   \* Session, also of closed handles that a request still holds
    next,       \* the handle that OpenSession returns next
    tokenIn,    \* local.Slot: loggedIn
    buffer,     \* dvSessions: the parts that SignUpdate has collected
    fed,        \* parts fed so far
    signedIn,   \* for the properties: signatures over each part
    due,        \* for the properties: operations begun and not answered yet
    conn        \* what each connection is doing

sessionVars == <<open, sessions, next, tokenIn, buffer, fed, signedIn, due, conn>>

-----------------------------------------------------------------------------
Handles == 1 .. MaxSessions

Parts == 1 .. MaxParts

Session == [state : {"public", "user", "so"}, mu : Conns \cup {NoConn}, active : SUBSET Kinds]

ConnPC == {"idle", "login", "checkReadOnly", "provider", "logout", "providerOut", "collect", "sync",
           "init", "do", "update", "append", "final", "copy", "answer"}

Conn == [pc : ConnPC, h : 0 .. MaxSessions, as : {"public", "user", "so"}, kind : Kinds \cup {"none"},
         targets : SUBSET Handles, data : SUBSET Parts]

NoRequest == [pc |-> "idle", h |-> 0, as |-> "public", kind |-> "none", targets |-> {}, data |-> {}]

Doing(c, pc) == conn[c].pc = pc

Continue(c, pc) == conn' = [conn EXCEPT ![c].pc = pc]

Finish(c) == conn' = [conn EXCEPT ![c] = NoRequest]

Free(h) == sessions[h].mu = NoConn

IsLoggedIn(h) == sessions[h].state # "public"

-----------------------------------------------------------------------------
(* Opening and closing *)

OpenSession(c) ==
    /\ conn[c] = NoRequest /\ next \in Handles
    /\ open' = open \cup {next}
    /\ next' = next + 1
    /\ UNCHANGED <<sessions, tokenIn, buffer, fed, signedIn, due, conn>>

CloseSession(c, h) ==
    /\ conn[c] = NoRequest /\ h \in open
    /\ open' = open \ {h}
    /\ UNCHANGED <<sessions, next, tokenIn, buffer, fed, signedIn, due, conn>>

CloseAllSessions(c) ==
    /\ conn[c] = NoRequest
    /\ open' = {}
    /\ UNCHANGED <<sessions, next, tokenIn, buffer, fed, signedIn, due, conn>>

\* GetSession: the request keeps the session, also when it is closed in the meantime.
Request(c, h, pc, as, kind) ==
    /\ conn[c] = NoRequest /\ h \in open
    /\ conn' = [conn EXCEPT ![c] = [NoRequest EXCEPT !.pc = pc, !.h = h, !.as = as, !.kind = kind]]
    /\ UNCHANGED <<open, sessions, next, tokenIn, buffer, fed, signedIn, due>>

-----------------------------------------------------------------------------
(* Login *)

LockForLogin(c) ==
    LET h == conn[c].h IN
    /\ Doing(c, "login") /\ Free(h)
    /\ IF IsLoggedIn(h) \/ (conn[c].as = "so" /\ h \in ReadOnly)
       THEN Finish(c) /\ UNCHANGED sessions
       ELSE /\ sessions' = [sessions EXCEPT ![h].mu = c]
            /\ Continue(c, IF conn[c].as = "so" THEN "checkReadOnly" ELSE "provider")
    /\ UNCHANGED <<open, next, tokenIn, buffer, fed, signedIn, due>>

\* hasROSessionForSlot, with the mutex of the session held.
CheckReadOnly(c) ==
    /\ Doing(c, "checkReadOnly")
    /\ IF open \cap ReadOnly # {}
       THEN Finish(c) /\ sessions' = [sessions EXCEPT ![conn[c].h].mu = NoConn]
       ELSE Continue(c, "provider") /\ UNCHANGED sessions
    /\ UNCHANGED <<open, next, tokenIn, buffer, fed, signedIn, due>>

LoginFails(c) == Finish(c) /\ sessions' = [sessions EXCEPT ![conn[c].h].mu = NoConn]

\* Mutant of LoginSucceeds: the other sessions are updated under the mutex of this one.
SucceedLocked(c) ==
    /\ sessions' = [sessions EXCEPT ![conn[c].h].state = conn[c].as]
    /\ Continue(c, "collect")

\* The state of the session, then its mutex; a user's login reaches the other sessions.
LoginSucceeds(c) ==
    /\ sessions' = [sessions EXCEPT ![conn[c].h].state = conn[c].as, ![conn[c].h].mu = NoConn]
    /\ IF conn[c].as = "user" THEN Continue(c, "collect") ELSE Finish(c)

\* local.Slot.Login under its own mutex: it fails when somebody is logged in, on a wrong PIN
\* or a locked one, and when the objects cannot be loaded.
ProviderLogin(c) ==
    /\ Doing(c, "provider")
    /\ \/ LoginFails(c) /\ UNCHANGED tokenIn
       \/ ~tokenIn /\ tokenIn' = TRUE /\ LoginSucceeds(c)
    /\ UNCHANGED <<open, next, buffer, fed, signedIn, due>>

-----------------------------------------------------------------------------
(* Logout *)

LockForLogout(c) ==
    LET h == conn[c].h IN
    /\ Doing(c, "logout") /\ Free(h)
    /\ IF IsLoggedIn(h)
       THEN sessions' = [sessions EXCEPT ![h].mu = c] /\ Continue(c, "providerOut")
       ELSE Finish(c) /\ UNCHANGED sessions
    /\ UNCHANGED <<open, next, tokenIn, buffer, fed, signedIn, due>>

ProviderLogout(c) ==
    /\ Doing(c, "providerOut")
    /\ tokenIn' = FALSE
    /\ sessions' = [sessions EXCEPT ![conn[c].h].state = "public", ![conn[c].h].mu = NoConn]
    /\ Continue(c, "collect")
    /\ UNCHANGED <<open, next, buffer, fed, signedIn, due>>

-----------------------------------------------------------------------------
(* updateSlotSessionsState and revertSlotSessionsToPublic *)

\* sessionsOfSlot copies the sessions and gives the manager's mutex back.
Collect(c) ==
    LET others == open \ {conn[c].h} IN
    /\ Doing(c, "collect")
    /\ IF others = {} THEN Finish(c)
       ELSE conn' = [conn EXCEPT ![c].pc = "sync", ![c].targets = others]
    /\ UNCHANGED <<open, sessions, next, tokenIn, buffer, fed, signedIn, due>>

\* The state that session t takes when the slot is logged in as a user, or out.
Synced(t, as) ==
    IF as = "user" /\ sessions[t].state # "public" THEN sessions[t].state ELSE as

\* One of the sessions that are left, under its own mutex.
SyncOne(c, t) ==
    /\ Doing(c, "sync") /\ t \in conn[c].targets /\ Free(t)
    /\ sessions' = [sessions EXCEPT ![t].state = Synced(t, conn[c].as)]
    /\ IF conn[c].targets = {t} THEN Finish(c)
       ELSE conn' = [conn EXCEPT ![c].targets = @ \ {t}]
    /\ UNCHANGED <<open, next, tokenIn, buffer, fed, signedIn, due>>

-----------------------------------------------------------------------------
(* SignInit, DecryptInit, EncryptInit and what follows them *)

InitOperation(c) ==
    LET h == conn[c].h   k == conn[c].kind IN
    /\ Doing(c, "init") /\ Free(h)
    /\ IF k \in sessions[h].active THEN UNCHANGED <<sessions, due>>
       ELSE /\ sessions' = [sessions EXCEPT ![h].active = @ \cup {k}]
            /\ due' = [due EXCEPT ![<<h, k>>] = @ + 1]
    /\ Finish(c)
    /\ UNCHANGED <<open, next, tokenIn, buffer, fed, signedIn>>

\* An operation that was begun; to sign and to decrypt somebody must be logged in.
Ready(c) ==
    /\ conn[c].kind \in sessions[conn[c].h].active
    /\ tokenIn \/ conn[c].kind = "encrypt"

\* Mutant of TakeOperation: the operation stays active until it is answered.
TakeAndKeep(c, from, to) ==
    /\ Doing(c, from) /\ Free(conn[c].h)
    /\ IF Ready(c) THEN Continue(c, to) ELSE Finish(c)
    /\ UNCHANGED <<open, sessions, next, tokenIn, buffer, fed, signedIn, due>>

\* What was begun is taken over, under the mutex, and computed without it.
TakeOperation(c, from, to) ==
    LET h == conn[c].h IN
    /\ Doing(c, from) /\ Free(h)
    /\ IF Ready(c)
       THEN Continue(c, to) /\ sessions' = [sessions EXCEPT ![h].active = @ \ {conn[c].kind}]
       ELSE Finish(c) /\ UNCHANGED sessions
    /\ UNCHANGED <<open, next, tokenIn, buffer, fed, signedIn, due>>

\* SignUpdate looks at the session, ...
CheckUpdate(c) ==
    /\ Doing(c, "update") /\ Free(conn[c].h)
    /\ IF "sign" \in sessions[conn[c].h].active THEN Continue(c, "append") ELSE Finish(c)
    /\ UNCHANGED <<open, sessions, next, tokenIn, buffer, fed, signedIn, due>>

\* ... and appends under another mutex.
AppendPart(c) ==
    /\ Doing(c, "append")
    /\ IF fed < MaxParts
       THEN fed' = fed + 1 /\ buffer' = [buffer EXCEPT ![conn[c].h] = @ \cup {fed + 1}]
       ELSE UNCHANGED <<fed, buffer>>
    /\ Finish(c)
    /\ UNCHANGED <<open, sessions, next, tokenIn, signedIn, due>>

\* Mutant of CopyParts: the parts are not taken out of the buffer.
CopyAndKeep(c) ==
    /\ Doing(c, "copy")
    /\ conn' = [conn EXCEPT ![c].pc = "answer", ![c].data = buffer[conn[c].h]]
    /\ UNCHANGED <<open, sessions, next, tokenIn, buffer, fed, signedIn, due>>

CopyParts(c) ==
    /\ Doing(c, "copy")
    /\ conn' = [conn EXCEPT ![c].pc = "answer", ![c].data = buffer[conn[c].h]]
    /\ buffer' = [buffer EXCEPT ![conn[c].h] = {}]
    /\ UNCHANGED <<open, sessions, next, tokenIn, fed, signedIn, due>>

\* Provider.Sign, Decrypt or Encrypt, which may fail: logging out has removed all objects.
Answer(c) ==
    /\ Doing(c, "answer")
    /\ due' = [due EXCEPT ![<<conn[c].h, conn[c].kind>>] = @ - 1]
    /\ \/ tokenIn /\ signedIn' = [p \in Parts |-> signedIn[p] + IF p \in conn[c].data THEN 1 ELSE 0]
       \/ UNCHANGED signedIn
    /\ Finish(c)
    /\ UNCHANGED <<open, sessions, next, tokenIn, buffer, fed>>

-----------------------------------------------------------------------------
SessionsInit ==
    /\ open = {}
    /\ sessions = [h \in Handles |-> [state |-> "public", mu |-> NoConn, active |-> {}]]
    /\ next = 1
    /\ tokenIn = FALSE
    /\ buffer = [h \in Handles |-> {}]
    /\ fed = 0
    /\ signedIn = [p \in Parts |-> 0]
    /\ due = [hk \in Handles \X Kinds |-> 0]
    /\ conn = [c \in Conns |-> NoRequest]

\* The rest of a request that has its session.
Step(c) ==
    \/ LockForLogin(c) \/ CheckReadOnly(c) \/ ProviderLogin(c)
    \/ LockForLogout(c) \/ ProviderLogout(c)
    \/ Collect(c) \/ \E t \in Handles : SyncOne(c, t)
    \/ InitOperation(c)
    \/ TakeOperation(c, "do", "answer") \/ TakeOperation(c, "final", "copy")
    \/ CheckUpdate(c) \/ AppendPart(c) \/ CopyParts(c) \/ Answer(c)

Arrive(c) ==
    \/ OpenSession(c)
    \/ CloseAllSessions(c)
    \/ \E h \in Handles :
          \/ CloseSession(c, h)
          \/ \E as \in {"user", "so"} : Request(c, h, "login", as, "none")
          \/ Request(c, h, "logout", "public", "none")
          \/ \E k \in Kinds, pc \in {"init", "do"} : Request(c, h, pc, "public", k)
          \/ \E pc \in {"update", "final"} : "sign" \in Kinds /\ Request(c, h, pc, "public", "sign")

SessionsNext == \E c \in Conns : Step(c) \/ Arrive(c)

SessionsSpec == SessionsInit /\ [][SessionsNext]_sessionVars

\* A goroutine goes on, and sync.Mutex lets nobody who waits be overtaken for ever.
FairSessionsSpec == SessionsSpec /\ \A c \in Conns : SF_sessionVars(Step(c))

-----------------------------------------------------------------------------
(* Properties *)

\* Types of the manager, the token, the buffers and the connections.
SessionsTypeOK ==
    /\ open \subseteq Handles /\ next \in 1 .. MaxSessions + 1
    /\ sessions \in [Handles -> Session]
    /\ tokenIn \in BOOLEAN
    /\ buffer \in [Handles -> SUBSET Parts] /\ fed \in 0 .. MaxParts
    /\ signedIn \in [Parts -> Nat] /\ due \in [Handles \X Kinds -> Int]
    /\ conn \in [Conns -> Conn]

\* Every request is answered: logging in and out on several sessions at once never ends
\* in connections that wait for each other's sessions (manager.go:157-257, 287-321).
EveryRequestReturns == \A c \in Conns : conn[c] # NoRequest ~> conn[c] = NoRequest

\* An operation that was begun once is answered once, although any connection may finish
\* it and several try at the same time (ipc/handler.go:490-561).
OneAnswerPerInit ==
    \A h \in Handles, k \in Kinds :
        due[<<h, k>>] = Cardinality({c \in Conns : conn[c].pc \in {"copy", "answer"}
                                                   /\ conn[c].h = h /\ conn[c].kind = k})
                        + IF k \in sessions[h].active THEN 1 ELSE 0

\* A part that was fed to a session is in one signature at most, whoever asks for it and
\* whatever is fed meanwhile (handler_digest_verify_random.go:118-181).
PartSignedOnce == \A p \in Parts : signedIn[p] <= 1

\* The statements that run with the mutex of the session locked: none of them waits for
\* another one.
Locking == {"checkReadOnly", "provider", "providerOut"}

\* The mutex of a session is held by the request that logs in or out on it, from its lock to
\* its unlock on every path, and by nobody else: so no two sessions are locked by requests
\* that wait for each other (manager.go:157-257; 287-321 lock one session at a time).
MutexesAreHeld ==
    \A c \in Conns, h \in Handles :
        sessions[h].mu = c <=> conn[c].h = h /\ conn[c].pc \in Locking

-----------------------------------------------------------------------------
(* What a comment says and the code does not keep *)

\* manager.go:288: all sessions of a token share its login.  When no request runs, every
\* open session shows what the token is.
LoginIsShared ==
    (\A c \in Conns : conn[c] = NoRequest) =>
        \A h \in open : IsLoggedIn(h) <=> tokenIn
=============================================================================
