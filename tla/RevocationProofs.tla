-------------------------- MODULE RevocationProofs --------------------------
(* Theorems about the revocation list, the schedulers and the OCSP answers *)
(* for every number of certificates, requests, configurations and loops.   *)
EXTENDS Revocation, TLAPS, NaturalsInduction, WellFoundedInduction

\* What a request or a loop has read is on the list: nothing is ever taken off it.
ReadsAreListed ==
    /\ \A d \in Desks : desk[d].read \subseteq rows
    /\ \A l \in Loops : loops[l].read \subseteq rows

\* A request that marks or lists a certificate knows which one.
CertInHand == \A d \in Desks : desk[d].pc \in {"mark", "insert"} => desk[d].cert \in Certs

RInv == RevocationTypeOK /\ ReadsAreListed /\ CertInHand /\ RevokedIsListed /\ OneSchedulerRuns

LEMMA TextTypes == \A c \in Certs : Issued(c) \in Texts /\ Typed(c) \subseteq Texts
BY RevocationAssumption DEF Issued, Typed, Spell, Texts

\* The shortest interval of the configurations is one of them.
LEMMA DesiredType == ASSUME configured \subseteq Configs PROVE Desired \in Nat
<1>1. CASE configured = {}
  BY <1>1 DEF Desired
<1>2. CASE configured # {}
  <2> DEFINE T == {Interval[k] : k \in configured}
  <2>1. T \subseteq Nat /\ T # {}
    BY <1>2, RevocationAssumption
  <2>2. \E x \in T : \A y \in T : ~(<<y, x>> \in OpToRel(<, Nat))
    BY <2>1, WFMin, NatLessThanWellFounded, Zenon
  <2>3. PICK x \in T : \A y \in T : ~(<<y, x>> \in OpToRel(<, Nat))
    BY <2>2
  <2>4. ASSUME NEW y \in T PROVE ~(y < x)
    <3>1. y \in Nat /\ x \in Nat /\ ~(<<y, x>> \in OpToRel(<, Nat))
      BY <2>1, <2>3
    <3> QED BY <3>1, Zenon DEF OpToRel
  <2>5. \A y \in T : x <= y
    BY <2>1, <2>4
  <2> QED BY <1>2, <2>1, <2>5 DEF Desired
<1> QED BY <1>1, <1>2

LEMMA RInitially == RevocationInit => RInv
<1> SUFFICES ASSUME RevocationInit PROVE RInv
  OBVIOUS
<1> USE RevocationAssumption DEF RevocationInit
<1>1. NoTask \in DeskState /\ Off \in LoopState
  BY DEF NoTask, Off, DeskState, LoopState
<1>2. RevocationTypeOK
  BY <1>1 DEF RevocationTypeOK
<1>3. ReadsAreListed /\ CertInHand
  BY DEF ReadsAreListed, CertInHand, NoTask, Off
<1>4. RevokedIsListed
  BY DEF RevokedIsListed
<1>5. OneSchedulerRuns
  BY DEF OneSchedulerRuns, Off
<1> QED BY <1>2, <1>3, <1>4, <1>5 DEF RInv

-----------------------------------------------------------------------------
(* Steps of requests *)

\* A step of one request that leaves the tables, the cache and the loops alone.
LEMMA DeskStep ==
    ASSUME RInv, NEW d \in Desks, NEW t \in DeskState,
           t.read \subseteq rows, t.pc \in {"mark", "insert"} => t.cert \in Certs,
           desk[d].pc # "insert",
           desk' = [desk EXCEPT ![d] = t],
           UNCHANGED <<tableVars, cache, registered, loops, mishaps, unlisted>>
    PROVE  RInv'
<1> USE DEF RInv, tableVars
<1>1. desk \in [Desks -> DeskState]
  BY DEF RevocationTypeOK
<1>2. desk' \in [Desks -> DeskState]
  BY <1>1
<1>3. RevocationTypeOK'
  BY <1>2 DEF RevocationTypeOK
<1>4. ReadsAreListed' /\ CertInHand'
  BY <1>1 DEF ReadsAreListed, CertInHand
<1>5. RevokedIsListed'
  <2> SUFFICES ASSUME NEW c \in Certs, status[c] = "revoked",
                      NEW e \in Desks, desk[e].pc = "insert", desk[e].cert = c
               PROVE  \E f \in Desks : desk'[f].pc = "insert" /\ desk'[f].cert = c
    BY DEF RevokedIsListed
  <2>1. e # d
    OBVIOUS
  <2> QED BY <1>1, <2>1
<1>6. OneSchedulerRuns'
  BY DEF OneSchedulerRuns
<1> QED BY <1>3, <1>4, <1>5, <1>6

\* A request reads a state in which every field has its type.
LEMMA FieldsOfDesk ==
    ASSUME RInv, NEW d \in Desks
    PROVE  /\ desk[d] \in DeskState /\ desk[d].read \subseteq rows /\ rows \subseteq Texts
           /\ desk[d].pc \in {"mark", "insert"} => desk[d].cert \in Certs
BY DEF RInv, RevocationTypeOK, ReadsAreListed, CertInHand

LEMMA MarkRevokedKeeps == ASSUME RInv, NEW d \in Desks, MarkRevoked(d) PROVE RInv'
<1> USE DEF RInv, MarkRevoked, tableVars
<1> DEFINE k == desk[d].cert
<1>1. k \in Certs /\ desk[d] \in DeskState /\ desk \in [Desks -> DeskState]
  BY FieldsOfDesk DEF RevocationTypeOK
<1>2. desk'[d] = [desk[d] EXCEPT !.pc = "insert"] /\ \A e \in Desks : e # d => desk'[e] = desk[e]
  BY <1>1
<1>3. desk'[d].pc = "insert" /\ desk'[d].cert = k /\ desk'[d] \in DeskState /\ desk'[d].read = desk[d].read
  BY <1>1, <1>2 DEF DeskState
<1>4. RevocationTypeOK'
  BY <1>1, <1>3 DEF RevocationTypeOK
<1>5. ReadsAreListed' /\ CertInHand'
  BY <1>1, <1>2, <1>3 DEF ReadsAreListed, CertInHand
<1>6. RevokedIsListed'
  <2> SUFFICES ASSUME NEW c \in Certs, status'[c] = "revoked"
               PROVE  \/ Issued(c) \in rows \/ c \in unlisted
                      \/ \E e \in Desks : desk'[e].pc = "insert" /\ desk'[e].cert = c
    BY DEF RevokedIsListed
  <2>1. CASE c = k
    BY <1>3, <2>1
  <2>2. CASE c # k
    <3>1. status[c] = "revoked"
      BY <2>2 DEF RevocationTypeOK
    <3> QED BY <1>2, <3>1 DEF RevokedIsListed
  <2> QED BY <2>1, <2>2
<1>7. OneSchedulerRuns'
  BY DEF OneSchedulerRuns
<1> QED BY <1>4, <1>5, <1>6, <1>7

\* After the INSERT, or its failure, the request goes on without the certificate.
LEMMA AfterInsert ==
    ASSUME RInv, NEW d \in Desks, desk[d].pc = "insert",
           desk' = [desk EXCEPT ![d] =
                       IF @.byUser THEN [NoTask EXCEPT !.pc = "list"] ELSE NoTask],
           UNCHANGED <<status, configured, cache, registered, loops>>,
           mishaps' \in 0 .. MaxMishaps, rows \subseteq rows', rows' \subseteq Texts,
           unlisted \subseteq unlisted', unlisted' \subseteq Certs,
           Issued(desk[d].cert) \in rows' \/ desk[d].cert \in unlisted'
    PROVE  RInv'
<1> USE DEF RInv
<1>1. desk \in [Desks -> DeskState] /\ desk[d].cert \in Certs
  BY FieldsOfDesk DEF RevocationTypeOK
<1>2. /\ desk'[d] \in DeskState /\ desk'[d].read = {} /\ desk'[d].pc \in {"idle", "list"}
      /\ \A e \in Desks : e # d => desk'[e] = desk[e]
  BY <1>1 DEF NoTask, DeskState
<1>3. RevocationTypeOK'
  BY <1>1, <1>2 DEF RevocationTypeOK
<1>4. ReadsAreListed' /\ CertInHand'
  BY <1>1, <1>2 DEF ReadsAreListed, CertInHand
<1>5. RevokedIsListed'
  <2> SUFFICES ASSUME NEW c \in Certs, status[c] = "revoked",
                      Issued(c) \notin rows', c \notin unlisted'
               PROVE  \E e \in Desks : desk'[e].pc = "insert" /\ desk'[e].cert = c
    BY DEF RevokedIsListed
  <2>1. PICK e \in Desks : desk[e].pc = "insert" /\ desk[e].cert = c
    BY DEF RevokedIsListed
  <2>2. e # d
    BY <2>1
  <2> QED BY <1>2, <2>1, <2>2
<1>6. OneSchedulerRuns'
  BY DEF OneSchedulerRuns
<1> QED BY <1>3, <1>4, <1>5, <1>6

LEMMA RequestsKeep == ASSUME RInv, Requests PROVE RInv'
<1> USE RevocationAssumption
<1>0. NoTask \in DeskState /\ NoTask.read = {} /\ NoTask.pc = "idle"
  BY DEF NoTask, DeskState
<1>1. ASSUME NEW d \in Desks, NEW c \in Certs, NEW byUser \in BOOLEAN, BeginRevoke(d, c, byUser)
      PROVE  RInv'
  <2> DEFINE t == [NoTask EXCEPT !.pc = "mark", !.cert = c, !.byUser = byUser]
  <2>1. t \in DeskState /\ t.read = {} /\ t.cert = c
    BY DEF NoTask, DeskState
  <2>2. desk[d].pc # "insert"
    BY <1>0, <1>1 DEF BeginRevoke
  <2> QED BY <1>1, <2>1, <2>2, DeskStep DEF BeginRevoke
<1>2. ASSUME NEW d \in Desks, MarkRevoked(d) PROVE RInv'
  BY <1>2, MarkRevokedKeeps
<1>3. ASSUME NEW d \in Desks, ListRevoked(d) PROVE RInv'
  <2>1. desk[d].pc = "insert" /\ desk[d].cert \in Certs /\ rows \subseteq Texts
    BY <1>3, FieldsOfDesk DEF ListRevoked
  <2>2. rows' \subseteq Texts /\ rows \subseteq rows' /\ Issued(desk[d].cert) \in rows'
    BY <1>3, <2>1, TextTypes DEF ListRevoked
  <2>3. mishaps' \in 0 .. MaxMishaps /\ unlisted' = unlisted /\ unlisted' \subseteq Certs
    BY <1>3 DEF ListRevoked, RInv, RevocationTypeOK
  <2> QED BY <1>3, <2>1, <2>2, <2>3, AfterInsert DEF ListRevoked
<1>4. ASSUME NEW d \in Desks, BeginFetch(d) PROVE RInv'
  <2> DEFINE t == [desk[d] EXCEPT !.pc = "list"]
  <2>1. t \in DeskState /\ t.read = {} /\ t.pc = "list"
    BY <1>0, <1>4 DEF BeginFetch, DeskState, NoTask
  <2>2. desk[d].pc # "insert"
    BY <1>0, <1>4 DEF BeginFetch
  <2> QED BY <1>4, <2>1, <2>2, DeskStep DEF BeginFetch
<1>5. ASSUME NEW c \in Certs, DeleteCertificate(c) PROVE RInv'
  BY <1>5 DEF DeleteCertificate, RInv, RevocationTypeOK, ReadsAreListed, CertInHand,
              RevokedIsListed, OneSchedulerRuns
<1>6. ASSUME NEW c \in Certs, NEW text \in Typed(c), RevokeSerial(text) PROVE RInv'
  <2>1. rows' \subseteq Texts
    BY <1>6, TextTypes DEF RevokeSerial, RInv, RevocationTypeOK
  <2> QED
    BY <1>6, <2>1 DEF RevokeSerial, RInv, RevocationTypeOK, ReadsAreListed, CertInHand,
              RevokedIsListed, OneSchedulerRuns
<1>7. ASSUME NEW k \in Configs, Configure(k) PROVE RInv'
  BY <1>7 DEF Configure, RInv, RevocationTypeOK, ReadsAreListed, CertInHand,
              RevokedIsListed, OneSchedulerRuns
<1> QED BY <1>1, <1>2, <1>3, <1>4, <1>5, <1>6, <1>7 DEF Requests

-----------------------------------------------------------------------------
(* Steps of loops *)

\* A step of one loop, of which the table of schedulers learns nothing.
LEMMA LoopStep ==
    ASSUME RInv, NEW l \in Loops, NEW g \in LoopState,
           g.read \subseteq rows, loops[l].pc # "off",
           g.pc # "off" => g.cancelled = loops[l].cancelled,
           loops' = [loops EXCEPT ![l] = g],
           cache' = cache \/ cache' \subseteq rows, mishaps' \in 0 .. MaxMishaps,
           UNCHANGED <<tableVars, registered, desk, unlisted>>
    PROVE  RInv'
<1> USE DEF RInv, tableVars
<1>1. loops \in [Loops -> LoopState]
  BY DEF RevocationTypeOK
<1>2. RevocationTypeOK'
  BY <1>1 DEF RevocationTypeOK
<1>3. ReadsAreListed' /\ CertInHand'
  BY <1>1 DEF ReadsAreListed, CertInHand
<1>4. RevokedIsListed'
  BY DEF RevokedIsListed
<1>5. OneSchedulerRuns'
  BY <1>1 DEF OneSchedulerRuns
<1> QED BY <1>2, <1>3, <1>4, <1>5

LEMMA FieldsOfLoop ==
    ASSUME RInv, NEW l \in Loops
    PROVE  /\ loops[l] \in LoopState /\ loops[l].read \subseteq rows /\ rows \subseteq Texts
           /\ mishaps \in 0 .. MaxMishaps /\ Off \in LoopState
BY DEF RInv, RevocationTypeOK, ReadsAreListed, Off, LoopState

LEMMA SyncKeeps == ASSUME RInv, SyncSchedulers PROVE RInv'
<1> USE DEF RInv, SyncSchedulers, tableVars
<1> DEFINE kept == IF Outdated THEN NoLoop ELSE registered
           others == IF Outdated THEN [loops EXCEPT ![registered].cancelled = TRUE] ELSE loops
<1>1. loops \in [Loops -> LoopState] /\ registered \in Loops \cup {NoLoop}
  BY DEF RevocationTypeOK
<1>2. others \in [Loops -> LoopState] /\ \A m \in Loops : others[m].read = loops[m].read
  BY <1>1 DEF Outdated, LoopState
<1>3. \A m \in Loops : others[m].pc # "off" /\ ~others[m].cancelled => kept = m
  <2> SUFFICES ASSUME NEW m \in Loops, others[m].pc # "off", ~others[m].cancelled PROVE kept = m
    OBVIOUS
  <2>1. CASE Outdated
    <3>1. registered \in Loops /\ others = [loops EXCEPT ![registered].cancelled = TRUE]
      BY <1>1, <2>1 DEF Outdated
    <3>2. others[registered].cancelled
      BY <1>1, <3>1 DEF LoopState
    <3>3. m # registered /\ others[m] = loops[m]
      BY <1>1, <3>1, <3>2
    <3> QED BY <3>3 DEF OneSchedulerRuns
  <2>2. CASE ~Outdated
    BY <2>2 DEF OneSchedulerRuns
  <2> QED BY <2>1, <2>2
<1>4. CASE kept = NoLoop /\ Desired # 0
  <2>1. PICK l \in Loops : loops[l] = Off /\ Start(l, others)
    BY <1>4
  <2> DEFINE g == [Off EXCEPT !.pc = "list", !.every = Desired]
  <2>2. g \in LoopState /\ g.read = {}
    BY DesiredType DEF Off, LoopState, RevocationTypeOK
  <2>3. loops' = [others EXCEPT ![l] = g] /\ registered' = l
    BY <2>1 DEF Start
  <2>4. loops' \in [Loops -> LoopState] /\ \A m \in Loops : loops'[m].read \subseteq rows
    BY <1>2, <2>2, <2>3 DEF ReadsAreListed
  <2>5. OneSchedulerRuns'
    BY <1>2, <1>3, <1>4, <2>3, RevocationAssumption DEF OneSchedulerRuns
  <2>6. RevocationTypeOK' /\ ReadsAreListed'
    BY <2>3, <2>4 DEF RevocationTypeOK, ReadsAreListed
  <2> QED BY <2>5, <2>6 DEF CertInHand, RevokedIsListed
<1>5. CASE ~(kept = NoLoop /\ Desired # 0)
  <2>1. registered' = kept /\ loops' = others
    BY <1>5
  <2>2. kept \in Loops \cup {NoLoop}
    BY <1>1
  <2>3. OneSchedulerRuns'
    BY <1>3, <2>1 DEF OneSchedulerRuns
  <2>4. RevocationTypeOK' /\ ReadsAreListed'
    BY <1>2, <2>1, <2>2 DEF RevocationTypeOK, ReadsAreListed
  <2> QED BY <2>3, <2>4 DEF CertInHand, RevokedIsListed
<1> QED BY <1>4, <1>5

LEMMA RefreshingKeeps == ASSUME RInv, Refreshing PROVE RInv'
<1>1. ASSUME NEW d \in Desks, ReadList(d) PROVE RInv'
  <2> DEFINE t == [desk[d] EXCEPT !.pc = "store", !.read = rows]
  <2>1. desk[d] \in DeskState /\ rows \subseteq Texts
    BY FieldsOfDesk
  <2>2. t \in DeskState /\ t.read = rows /\ t.pc = "store"
    BY <2>1 DEF DeskState
  <2>3. desk' = [desk EXCEPT ![d] = t]
    BY <1>1 DEF ReadList
  <2> QED BY <1>1, <2>2, <2>3, DeskStep DEF ReadList
<1>2. ASSUME NEW d \in Desks, StoreCRL(d) PROVE RInv'
  <2>1. NoTask \in DeskState /\ NoTask.read = {} /\ NoTask.pc = "idle"
    BY RevocationAssumption DEF NoTask, DeskState
  <2>2. desk \in [Desks -> DeskState] /\ cache' \subseteq rows
    BY <1>2, FieldsOfDesk DEF StoreCRL, RInv, RevocationTypeOK
  <2>3. desk' \in [Desks -> DeskState] /\ desk'[d] = NoTask /\ \A e \in Desks : e # d => desk'[e] = desk[e]
    BY <1>2, <2>1, <2>2 DEF StoreCRL
  <2>4. RevocationTypeOK'
    BY <1>2, <2>2, <2>3 DEF StoreCRL, RInv, RevocationTypeOK, tableVars
  <2>5. ReadsAreListed' /\ CertInHand' /\ OneSchedulerRuns'
    BY <1>2, <2>1, <2>3 DEF StoreCRL, RInv, ReadsAreListed, CertInHand, OneSchedulerRuns, tableVars
  <2>6. RevokedIsListed'
    <3>1. \A e \in Desks : desk[e].pc = "insert" => desk'[e] = desk[e]
      BY <1>2, <2>3 DEF StoreCRL
    <3> QED BY <1>2, <3>1 DEF StoreCRL, RInv, RevokedIsListed, tableVars
  <2> QED BY <2>4, <2>5, <2>6 DEF RInv
<1>3. ASSUME NEW l \in Loops, LoopTick(l) PROVE RInv'
  <2> DEFINE g == [loops[l] EXCEPT !.pc = "list"]
  <2>1. g \in LoopState /\ g.read \subseteq rows /\ g.cancelled = loops[l].cancelled
    BY FieldsOfLoop DEF LoopState
  <2> QED BY <1>3, <2>1, FieldsOfLoop, LoopStep DEF LoopTick
<1>4. ASSUME NEW l \in Loops, LoopRead(l) PROVE RInv'
  <2> DEFINE g == IF loops[l].cancelled THEN [loops[l] EXCEPT !.pc = "wait"]
                  ELSE [loops[l] EXCEPT !.pc = "store", !.read = rows]
  <2>1. g \in LoopState /\ g.read \subseteq rows /\ g.cancelled = loops[l].cancelled
    BY FieldsOfLoop DEF LoopState
  <2>2. loops' = [loops EXCEPT ![l] = g]
    BY <1>4 DEF LoopRead
  <2> QED BY <1>4, <2>1, <2>2, FieldsOfLoop, LoopStep DEF LoopRead
<1>5. ASSUME NEW l \in Loops, LoopStore(l) PROVE RInv'
  <2> DEFINE g == [loops[l] EXCEPT !.pc = "wait", !.read = {}]
  <2>1. g \in LoopState /\ g.read \subseteq rows /\ g.cancelled = loops[l].cancelled
    BY FieldsOfLoop DEF LoopState
  <2>2. loops' = [loops EXCEPT ![l] = g]
    BY <1>5 DEF LoopStore
  <2> QED BY <1>5, <2>1, <2>2, FieldsOfLoop, LoopStep DEF LoopStore
<1>6. ASSUME NEW l \in Loops, LoopEnds(l) PROVE RInv'
  <2>1. Off.read = {} /\ Off.pc = "off"
    BY DEF Off
  <2> QED BY <1>6, <2>1, FieldsOfLoop, LoopStep DEF LoopEnds
<1>7. ASSUME SyncSchedulers PROVE RInv'
  BY <1>7, SyncKeeps
<1> QED BY <1>1, <1>2, <1>3, <1>4, <1>5, <1>6, <1>7 DEF Refreshing

-----------------------------------------------------------------------------
(* Failures and restarts *)

LEMMA RestartKeeps == ASSUME RInv, Restart PROVE RInv'
<1> USE RevocationAssumption DEF RInv, Restart, tableVars
<1>1. NoTask \in DeskState /\ NoTask.read = {} /\ NoTask.pc = "idle"
  BY DEF NoTask, DeskState
<1>2. Off \in LoopState /\ Off.read = {} /\ Off.pc = "off"
  BY DEF Off, LoopState
<1>3. mishaps' \in 0 .. MaxMishaps
  BY DEF Mishap, RevocationTypeOK
<1>4. unlisted' \subseteq Certs
  BY DEF RevocationTypeOK, CertInHand
<1>5. RevocationTypeOK'
  BY <1>1, <1>2, <1>3, <1>4 DEF RevocationTypeOK
<1>6. ReadsAreListed' /\ CertInHand' /\ OneSchedulerRuns'
  BY <1>1, <1>2 DEF ReadsAreListed, CertInHand, OneSchedulerRuns
<1>7. RevokedIsListed'
  BY DEF RevokedIsListed
<1> QED BY <1>5, <1>6, <1>7

LEMMA MishapsKeep == ASSUME RInv, Mishaps PROVE RInv'
<1>1. ASSUME NEW d \in Desks, ListFails(d) PROVE RInv'
  <2>1. desk[d].pc = "insert" /\ desk[d].cert \in Certs /\ rows \subseteq Texts
    BY <1>1, FieldsOfDesk DEF ListFails
  <2>2. mishaps' \in 0 .. MaxMishaps /\ rows' = rows
        /\ UNCHANGED <<status, configured, cache, registered, loops>>
    BY <1>1, RevocationAssumption DEF ListFails, Mishap, RInv, RevocationTypeOK, tableVars
  <2>3. unlisted \subseteq unlisted' /\ unlisted' \subseteq Certs /\ desk[d].cert \in unlisted'
    BY <1>1, <2>1 DEF ListFails, RInv, RevocationTypeOK
  <2>4. desk' = [desk EXCEPT ![d] = IF @.byUser THEN [NoTask EXCEPT !.pc = "list"] ELSE NoTask]
    BY <1>1 DEF ListFails
  <2> QED BY <2>1, <2>2, <2>3, <2>4, AfterInsert
<1>2. ASSUME NEW d \in Desks, RefreshFails(d) PROVE RInv'
  <2>1. NoTask \in DeskState /\ NoTask.read = {} /\ NoTask.pc = "idle"
    BY RevocationAssumption DEF NoTask, DeskState
  <2>2. mishaps' \in 0 .. MaxMishaps
    BY <1>2, RevocationAssumption DEF RefreshFails, Mishap, RInv, RevocationTypeOK
  <2>3. desk' = [desk EXCEPT ![d] = NoTask] /\ desk \in [Desks -> DeskState]
    BY <1>2 DEF RefreshFails, RInv, RevocationTypeOK
  <2>4. RevocationTypeOK'
    BY <1>2, <2>1, <2>2, <2>3 DEF RefreshFails, RInv, RevocationTypeOK, tableVars
  <2>5. ReadsAreListed' /\ CertInHand' /\ OneSchedulerRuns'
    BY <1>2, <2>1, <2>3 DEF RefreshFails, RInv, ReadsAreListed, CertInHand, OneSchedulerRuns, tableVars
  <2>6. RevokedIsListed'
    <3>1. \A e \in Desks : desk[e].pc = "insert" => desk'[e] = desk[e]
      BY <1>2, <2>3 DEF RefreshFails
    <3> QED BY <1>2, <3>1 DEF RefreshFails, RInv, RevokedIsListed, tableVars
  <2> QED BY <2>4, <2>5, <2>6 DEF RInv
<1>3. ASSUME NEW l \in Loops, LoopFails(l) PROVE RInv'
  <2> DEFINE g == [loops[l] EXCEPT !.pc = "wait"]
  <2>1. g \in LoopState /\ g.read \subseteq rows /\ g.cancelled = loops[l].cancelled
    BY FieldsOfLoop DEF LoopState
  <2>2. mishaps' \in 0 .. MaxMishaps
    BY <1>3, FieldsOfLoop, RevocationAssumption DEF LoopFails, Mishap
  <2> QED BY <1>3, <2>1, <2>2, LoopStep DEF LoopFails
<1>4. ASSUME Restart PROVE RInv'
  BY <1>4, RestartKeeps
<1> QED BY <1>1, <1>2, <1>3, <1>4 DEF Mishaps

-----------------------------------------------------------------------------
\* The inductive invariant holds in every reachable state: what is read is listed because
\* entries are never removed, which is what makes an old CRL merely late.
THEOREM RInvAlways == RevocationSpec => []RInv
<1>1. RInv /\ [RevocationNext]_revocationVars => RInv'
  <2>1. ASSUME RInv, UNCHANGED revocationVars PROVE RInv'
    BY <2>1 DEF revocationVars, tableVars, RInv, RevocationTypeOK, ReadsAreListed, CertInHand,
                RevokedIsListed, OneSchedulerRuns
  <2> QED BY <2>1, RequestsKeep, RefreshingKeeps, MishapsKeep DEF RevocationNext
<1> QED BY <1>1, RInitially, PTL DEF RevocationSpec

\* The tables, the cache and the goroutines keep their types, and the cached CRL never
\* lists a serial that the table does not (revocation/service.go:147-159).
THEOREM RevocationTypes == RevocationSpec => []RevocationTypeOK
<1>1. RInv => RevocationTypeOK
  BY DEF RInv
<1> QED BY <1>1, RInvAlways, PTL

\* A certificate marked revoked is listed, about to be listed by a request that is on its
\* way, or one whose INSERT was lost (api/handler_services.go:479-489).
THEOREM RevokedAlwaysListed == RevocationSpec => []RevokedIsListed
<1>1. RInv => RevokedIsListed
  BY DEF RInv
<1> QED BY <1>1, RInvAlways, PTL

\* However the configurations change, one loop at most renews the CRL without having been
\* told to stop, and the table of schedulers knows it (revocation/service.go:248-274).
THEOREM OneSchedulerAlways == RevocationSpec => []OneSchedulerRuns
<1>1. RInv => OneSchedulerRuns
  BY DEF RInv
<1> QED BY <1>1, RInvAlways, PTL

\* Whichever way serials are issued, and typed without superfluous zeros, a responder with the
\* policy "unknown" does not vouch for a listed one (revocation/responder.go:265-297).
THEOREM ListedNeverVouchedFor == RevocationSpec => []NeverVouchedFor
<1>1. RInv => NeverVouchedFor
  <2> SUFFICES ASSUME RInv, NEW text \in rows, text[2] # "zeros"
               PROVE  ResponderAnswer(text[1]) # "good"
    BY DEF NeverVouchedFor
  <2>1. CASE Spelling[text[1]] # "odd"
    BY <2>1 DEF ResponderAnswer, RevokedForResponder, UpperIsAsked
  <2>2. CASE Spelling[text[1]] = "odd"
    <3>1. PICK c : c = text[1]
      OBVIOUS
    <3>2. Issued(c) = <<c, "lower">> /\ Asked(c) = <<c, "upper">>
      BY <2>2, <3>1 DEF Issued, Asked, Spell
    <3>3. ~UpperIsAsked(Issued(c))
      BY <2>2, <3>1, <3>2 DEF UpperIsAsked
    <3> QED BY <3>1, <3>3 DEF ResponderAnswer, KnownToResponder
  <2> QED BY <2>1, <2>2
<1> QED BY <1>1, RInvAlways, PTL
=============================================================================
