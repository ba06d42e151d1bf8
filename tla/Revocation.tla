----------------------------- MODULE Revocation -----------------------------
(***************************************************************************)
(* How the revocation of a certificate becomes known: the revocation list  *)
(* of one CA (ca/service.go), the handlers that add to it, the cache of    *)
(* its signed CRL with the schedulers that renew it (revocation/service.go)*)
(* and the OCSP answers (revocation/service.go, revocation/responder.go).  *)
(* The maps of the service are keyed by CA, so one CA stands for all.      *)
(***************************************************************************)
EXTENDS Integers, FiniteSets

CONSTANTS
    Certs,          \* certificates of the CA, named by their serial numbers
    Spelling,       \* [Certs -> {"digits", "letters", "odd"}], see Spell
    Typing,         \* ways in which administrators write serials, see Typed
    Protected,      \* certificates whose plan does not allow the user to revoke
    Configs,        \* enabled rows of revocation_services of type "crl"
    Interval,       \* [Configs -> Nat \ {0}], crl_interval in minutes
    Desks,          \* concurrent requests
    Loops,          \* goroutines of runCRLScheduler
    NoCert, NoLoop, NoCRL,
    MaxMishaps      \* bound: failures and restarts

ASSUME RevocationAssumption ==
    /\ Spelling \in [Certs -> {"digits", "letters", "odd"}] /\ Protected \subseteq Certs
    /\ Typing \subseteq {"lower", "upper", "zeros"}
    /\ Interval \in [Configs -> Nat \ {0}] /\ MaxMishaps \in Nat
    /\ NoCert \notin Certs /\ NoLoop \notin Loops

VARIABLES
    status,         \* certificates.revocation_status, "deleted" without a row
    rows,           \* revoked_certs: pairs of a certificate and how its serial is written
    configured,     \* revocation_services
    cache,          \* crlCache: the rows the cached CRL was made of, or NoCRL
    registered,     \* schedulers: the loop that renews the CRL, or NoLoop
    loops,          \* the goroutines
    desk,           \* the requests
    mishaps,        \* failures and restarts so far
    unlisted        \* for the properties: revocations whose INSERT failed or never ran

tableVars == <<status, rows, configured>>
revocationVars == <<tableVars, cache, registered, loops, desk, mishaps, unlisted>>

-----------------------------------------------------------------------------
(* How serial numbers are written.  A serial has a letter among its digits  *)
(* ("letters"), an odd number of digits ("odd"), or neither ("digits").     *)

\* The issuer writes %x: lower case, no leading zero.  OCSP looks for upper case in whole
\* bytes.  Only without letters and with an even number of digits are the two the same text.
Spell(c, how) == <<c, IF Spelling[c] = "digits" THEN "both" ELSE how>>

Issued(c) == Spell(c, "lower")

Asked(c) == Spell(c, "upper")

\* What an administrator may type for the serial of c: as it is issued (or with letters in both
\* cases, which is found in the same way), as OCSP asks for it, or with more zeros in front.
Typed(c) == {IF how = "zeros" THEN <<c, how>> ELSE Spell(c, how) : how \in Typing}

Texts == {<<c, how>> : c \in Certs, how \in {"both", "lower", "upper", "zeros"}}

\* In upper case a text is the one OCSP looks for, unless a zero is missing or too many.
UpperIsAsked(text) ==
    \/ text = Asked(text[1])
    \/ text[2] # "zeros" /\ Spelling[text[1]] # "odd"

\* The serials on a CRL made of these rows: GenerateCRL parses every text as hexadecimal.
Serials(texts) == {t[1] : t \in texts}

-----------------------------------------------------------------------------
LoopState == [pc : {"off", "wait", "list", "store"}, every : Nat, cancelled : BOOLEAN,
              read : SUBSET Texts]

DeskState == [pc : {"idle", "mark", "insert", "list", "store"}, cert : Certs \cup {NoCert},
              byUser : BOOLEAN, read : SUBSET Texts]

NoTask == [pc |-> "idle", cert |-> NoCert, byUser |-> FALSE, read |-> {}]

Off == [pc |-> "off", every |-> 0, cancelled |-> FALSE, read |-> {}]

RevocationInit ==
    /\ status = [c \in Certs |-> "active"] /\ rows = {} /\ configured = {}
    /\ cache = NoCRL /\ registered = NoLoop
    /\ loops = [l \in Loops |-> Off] /\ desk = [d \in Desks |-> NoTask]
    /\ mishaps = 0 /\ unlisted = {}

Mishap == mishaps < MaxMishaps /\ mishaps' = mishaps + 1

-----------------------------------------------------------------------------
(* Requests *)

\* Both handlers read the certificate and refuse one that is revoked; the user's also asks
\* the plan of the order.
BeginRevoke(d, c, byUser) ==
    /\ desk[d] = NoTask /\ status[c] = "active" /\ (byUser => c \notin Protected)
    /\ desk' = [desk EXCEPT ![d] = [NoTask EXCEPT !.pc = "mark", !.cert = c, !.byUser = byUser]]
    /\ UNCHANGED <<tableVars, cache, registered, loops, mishaps, unlisted>>

\* Mutant of MarkRevoked: the administrator's handler does not add to the list.
MarkAndAnswer(d) ==
    /\ desk[d].pc = "mark"
    /\ LET c == desk[d].cert IN
           status' = [status EXCEPT ![c] = IF @ = "deleted" THEN @ ELSE "revoked"]
    /\ desk' = [desk EXCEPT ![d] = IF @.byUser THEN [@ EXCEPT !.pc = "insert"] ELSE NoTask]
    /\ UNCHANGED <<rows, configured, cache, registered, loops, mishaps, unlisted>>

\* CertRepo.Revoke: an UPDATE by uuid, which finds no row if the certificate is deleted.
MarkRevoked(d) ==
    /\ desk[d].pc = "mark"
    /\ LET c == desk[d].cert IN
           status' = [status EXCEPT ![c] = IF @ = "deleted" THEN @ ELSE "revoked"]
    /\ desk' = [desk EXCEPT ![d].pc = "insert"]
    /\ UNCHANGED <<rows, configured, cache, registered, loops, mishaps, unlisted>>

\* RevokeCert: INSERT OR IGNORE.  Only the user's handler refreshes the CRL after it.
ListRevoked(d) ==
    /\ desk[d].pc = "insert"
    /\ rows' = rows \cup {Issued(desk[d].cert)}
    /\ desk' = [desk EXCEPT ![d] = IF @.byUser THEN [NoTask EXCEPT !.pc = "list"] ELSE NoTask]
    /\ UNCHANGED <<status, configured, cache, registered, loops, mishaps, unlisted>>

\* A failure of the INSERT is logged, and the request goes on to succeed.
ListFails(d) ==
    /\ desk[d].pc = "insert" /\ Mishap
    /\ unlisted' = unlisted \cup {desk[d].cert}
    /\ desk' = [desk EXCEPT ![d] = IF @.byUser THEN [NoTask EXCEPT !.pc = "list"] ELSE NoTask]
    /\ UNCHANGED <<tableVars, cache, registered, loops>>

\* GetCRL answers from the cache; without one it refreshes.
BeginFetch(d) ==
    /\ desk[d] = NoTask /\ cache = NoCRL
    /\ desk' = [desk EXCEPT ![d].pc = "list"]
    /\ UNCHANGED <<tableVars, cache, registered, loops, mishaps, unlisted>>

\* RefreshCRL in a request: GenerateCRL reads the list, signs, and the cache is replaced.
ReadList(d) ==
    /\ desk[d].pc = "list"
    /\ desk' = [desk EXCEPT ![d].pc = "store", ![d].read = rows]
    /\ UNCHANGED <<tableVars, cache, registered, loops, mishaps, unlisted>>

StoreCRL(d) ==
    /\ desk[d].pc = "store" /\ cache' = desk[d].read
    /\ desk' = [desk EXCEPT ![d] = NoTask]
    /\ UNCHANGED <<tableVars, registered, loops, mishaps, unlisted>>

\* The error of a refresh is dropped.
RefreshFails(d) ==
    /\ desk[d].pc = "list" /\ Mishap
    /\ desk' = [desk EXCEPT ![d] = NoTask]
    /\ UNCHANGED <<tableVars, cache, registered, loops, unlisted>>

\* The CA page revokes a serial somebody types; the certificate's own row is left alone.
RevokeSerial(text) ==
    /\ text \notin rows /\ rows' = rows \cup {text}
    /\ UNCHANGED <<status, configured, cache, registered, loops, desk, mishaps, unlisted>>

\* CertRepo.Delete.
DeleteCertificate(c) ==
    /\ status[c] # "deleted" /\ status' = [status EXCEPT ![c] = "deleted"]
    /\ UNCHANGED <<rows, configured, cache, registered, loops, desk, mishaps, unlisted>>

Configure(k) ==
    /\ configured' = IF k \in configured THEN configured \ {k} ELSE configured \cup {k}
    /\ UNCHANGED <<status, rows, cache, registered, loops, desk, mishaps, unlisted>>

-----------------------------------------------------------------------------
(* Schedulers *)

\* The shortest interval of the CRL configurations, 0 without any.
Desired ==
    IF configured = {} THEN 0
    ELSE CHOOSE i \in {Interval[k] : k \in configured} : \A k \in configured : i <= Interval[k]

Outdated == registered # NoLoop /\ loops[registered].every # Desired

Start(l, everyone) ==
    /\ registered' = l
    /\ loops' = [everyone EXCEPT ![l] = [Off EXCEPT !.pc = "list", !.every = Desired]]

\* Mutant of SyncSchedulers: an outdated loop is unregistered and not told to stop.
SyncForgets ==
    /\ LET kept == IF Outdated THEN NoLoop ELSE registered
       IN IF kept = NoLoop /\ Desired # 0
          THEN \E l \in Loops : loops[l] = Off /\ Start(l, loops)
          ELSE Outdated /\ registered' = kept /\ UNCHANGED loops
    /\ UNCHANGED <<tableVars, cache, desk, mishaps, unlisted>>

\* syncSchedulers: stop a loop with another interval, then start one if none is registered.
SyncSchedulers ==
    /\ LET kept == IF Outdated THEN NoLoop ELSE registered
           others == IF Outdated THEN [loops EXCEPT ![registered].cancelled = TRUE] ELSE loops
       IN IF kept = NoLoop /\ Desired # 0
          THEN \E l \in Loops : loops[l] = Off /\ Start(l, others)
          ELSE Outdated /\ registered' = kept /\ loops' = others
    /\ UNCHANGED <<tableVars, cache, desk, mishaps, unlisted>>

LoopTick(l) ==
    /\ loops[l].pc = "wait" /\ ~loops[l].cancelled
    /\ loops' = [loops EXCEPT ![l].pc = "list"]
    /\ UNCHANGED <<tableVars, cache, registered, desk, mishaps, unlisted>>

\* GenerateCRL in a loop; with a cancelled context its queries fail.
LoopRead(l) ==
    /\ loops[l].pc = "list"
    /\ loops' = [loops EXCEPT ![l] =
           IF @.cancelled THEN [@ EXCEPT !.pc = "wait"]
           ELSE [@ EXCEPT !.pc = "store", !.read = rows]]
    /\ UNCHANGED <<tableVars, cache, registered, desk, mishaps, unlisted>>

\* Mutant of LoopFails: the loop returns instead of going on.
LoopGivesUp(l) ==
    /\ loops[l].pc = "list" /\ ~loops[l].cancelled /\ Mishap
    /\ loops' = [loops EXCEPT ![l].pc = "off"]
    /\ UNCHANGED <<tableVars, cache, registered, desk, unlisted>>

\* The error is logged.
LoopFails(l) ==
    /\ loops[l].pc = "list" /\ ~loops[l].cancelled /\ Mishap
    /\ loops' = [loops EXCEPT ![l].pc = "wait"]
    /\ UNCHANGED <<tableVars, cache, registered, desk, unlisted>>

\* Signing and the write of the cache look at no context: a cancelled loop ends its refresh.
LoopStore(l) ==
    /\ loops[l].pc = "store"
    /\ cache' = loops[l].read
    /\ loops' = [loops EXCEPT ![l].pc = "wait", ![l].read = {}]
    /\ UNCHANGED <<tableVars, registered, desk, mishaps, unlisted>>

LoopEnds(l) ==
    /\ loops[l].pc = "wait" /\ loops[l].cancelled
    /\ loops' = [loops EXCEPT ![l] = Off]
    /\ UNCHANGED <<tableVars, cache, registered, desk, mishaps, unlisted>>

\* The server stops and starts again: cache, loops and requests are gone.
Restart ==
    /\ Mishap
    /\ unlisted' = unlisted \cup {desk[d].cert : d \in {e \in Desks : desk[e].pc = "insert"}}
    /\ cache' = NoCRL /\ registered' = NoLoop
    /\ loops' = [l \in Loops |-> Off] /\ desk' = [d \in Desks |-> NoTask]
    /\ UNCHANGED tableVars

-----------------------------------------------------------------------------
Refreshing ==
    \/ \E d \in Desks : ReadList(d) \/ StoreCRL(d)
    \/ \E l \in Loops : LoopTick(l) \/ LoopRead(l) \/ LoopStore(l) \/ LoopEnds(l)
    \/ SyncSchedulers

Requests ==
    \/ \E d \in Desks, c \in Certs, byUser \in BOOLEAN : BeginRevoke(d, c, byUser)
    \/ \E d \in Desks : MarkRevoked(d) \/ ListRevoked(d) \/ BeginFetch(d)
    \/ \E c \in Certs : DeleteCertificate(c) \/ \E text \in Typed(c) : RevokeSerial(text)
    \/ \E k \in Configs : Configure(k)

Mishaps ==
    \/ \E d \in Desks : ListFails(d) \/ RefreshFails(d)
    \/ \E l \in Loops : LoopFails(l)
    \/ Restart

RevocationNext == Refreshing \/ Requests \/ Mishaps

\* Goroutines run, tickers tick, and every request that was begun goes on.
RevocationFairness ==
    /\ WF_revocationVars(SyncSchedulers)
    /\ \A d \in Desks :
           /\ WF_revocationVars(MarkRevoked(d)) /\ WF_revocationVars(ListRevoked(d))
           /\ WF_revocationVars(ReadList(d)) /\ WF_revocationVars(StoreCRL(d))
    /\ \A l \in Loops :
           /\ WF_revocationVars(LoopTick(l)) /\ WF_revocationVars(LoopRead(l))
           /\ WF_revocationVars(LoopStore(l)) /\ WF_revocationVars(LoopEnds(l))

RevocationSpec == RevocationInit /\ [][RevocationNext]_revocationVars

FairRevocationSpec == RevocationSpec /\ RevocationFairness

-----------------------------------------------------------------------------
(* OCSP answers for the serial of c.                                       *)

\* CreateOCSPResponseDER compares the text in upper case as it stands.
BuiltInAnswer(c) == IF Asked(c) \in rows THEN "revoked" ELSE "good"

\* Mutant of RevokedForResponder: the text is compared as it stands.
RevokedAsWritten(c) == Asked(c) \in rows

\* lookupStatus compares UPPER(serial_number) too, ...
RevokedForResponder(c) == \E text \in rows : text[1] = c /\ UpperIsAsked(text)

\* ... and then UPPER(serial_hex) of the certificates.
KnownToResponder(c) == status[c] # "deleted" /\ UpperIsAsked(Issued(c))

ResponderAnswer(c) ==
    IF RevokedForResponder(c) THEN "revoked"
    ELSE IF KnownToResponder(c) THEN "good" ELSE "unknown"

-----------------------------------------------------------------------------
(* Properties *)

\* Types of the tables, the cache and the goroutines (revocation/service.go:43-57).
RevocationTypeOK ==
    /\ status \in [Certs -> {"active", "revoked", "deleted"}]
    /\ rows \subseteq Texts /\ configured \subseteq Configs
    /\ cache = NoCRL \/ cache \subseteq rows
    /\ registered \in Loops \cup {NoLoop}
    /\ loops \in [Loops -> LoopState] /\ desk \in [Desks -> DeskState]
    /\ mishaps \in 0 .. MaxMishaps /\ unlisted \subseteq Certs

\* A certificate that is marked revoked is on the list of its CA, unless the request that
\* marked it is still on its way or its INSERT was lost: the two tables are written one
\* after the other, by requests that may overlap (api/handler_services.go:479-489).
RevokedIsListed ==
    \A c \in Certs : status[c] = "revoked" =>
        \/ Issued(c) \in rows \/ c \in unlisted
        \/ \E d \in Desks : desk[d].pc = "insert" /\ desk[d].cert = c

\* One goroutine at most renews the CRL without having been told to stop, and it is the one
\* that is registered, so that the next change can stop it (revocation/service.go:251-276).
OneSchedulerRuns ==
    \A l \in Loops : loops[l].pc # "off" /\ ~loops[l].cancelled => registered = l

\* With the policy "unknown" an OCSP responder never vouches for a serial that is on the list,
\* in upper or lower case, as it was issued or in whole bytes (revocation/responder.go:265-297):
\* the answer reads two tables that write it in different ways.  Superfluous zeros, which the
\* CA page takes as they are typed, are excepted; see RevokedIsAnswered.
NeverVouchedFor ==
    \A text \in rows : text[2] # "zeros" => ResponderAnswer(text[1]) # "good"

\* Once the interval of the CRL settles, a serial on the list gets onto the CRL that is
\* served and stays there: refreshes that read the list before it was added run out, also
\* those of schedulers that were told to stop (revocation/service.go:281-303).
Published(c) == cache = NoCRL \/ c \in Serials(cache)

IntervalSettles == \E i \in {Interval[k] : k \in Configs} : <>[](Desired = i)

ListedIsPublished ==
    IntervalSettles =>
        \A c \in Certs : c \in Serials(rows) ~> [](cache # NoCRL /\ Published(c))

\* The texts OCSP looks for are those of the table, says the comment at
\* revocation/service.go:345: a listed certificate of this CA is not answered "good".
OcspReadsTheList == \A c \in Certs : Issued(c) \in rows => BuiltInAnswer(c) = "revoked"

\* revocation/responder.go:264: what is revoked is answered "revoked".  The code does not keep
\* it for a serial that was typed with superfluous zeros: the CRL has it (ca/service.go:387),
\* and the responder finds only the certificate, which it calls good.
RevokedIsAnswered == \A c \in Serials(rows) : ResponderAnswer(c) = "revoked"
=============================================================================
