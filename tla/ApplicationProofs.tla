------------------------ MODULE ApplicationProofs -------------------------
(* Theorems about what an application rests on: the verification of        *)
(* subjects, for every number of subjects, sessions and concurrent         *)
(* requests and every kind of driver; the checks of domains, addresses and *)
(* mailboxes, for every number of rows and of concurrent requests, every   *)
(* policy and every limit; and the quota of a subscription, for every      *)
(* number of requests, administrators, orders and applications.            *)
EXTENDS Identity, Ownership, SubscriptionQuota, FiniteSetTheorems, TLAPS

\* The provider has confirmed the subject.
Confirmed(s) == \E n \in Sessions : session[n].subject = s /\ verdict[n] = "passed"

\* Sessions that the provider can know are there, belong to a subject, and pass only when it
\* says so.
SessionsAreSound ==
    \A n \in Sessions :
        /\ verdict[n] # "open" => session[n].status # "none"
        /\ session[n].status # "none" =>
               /\ session[n].subject \in Subjects
               /\ session[n].version <= subject[session[n].subject].version
        /\ session[n].status = "passed" => verdict[n] = "passed"

\* What a request carries from its statements before still holds of the tables.
InHand(k) ==
    /\ k.pc \in {"insert", "decide", "apply", "approve"} => k.subject \in Subjects
    /\ k.pc = "insert" => k.version <= subject[k.subject].version
    /\ k.pc \in {"start", "startFailed", "session", "decide"} =>
           k.session \in Sessions /\ session[k.session].status # "none"
    /\ k.pc = "decide" => session[k.session].subject = k.subject
    /\ k.pc \in {"session", "decide"} /\ k.passed => verdict[k.session] = "passed"
    /\ k.pc = "apply" /\ k.passed => Confirmed(k.subject)
    /\ k.pc = "approve" => k.read \in Undecided /\ (k.by = "identity" => Confirmed(k.subject))

ConfirmedByIdentity(s, r) == r.status = "approved" /\ r.by = "identity" => Confirmed(s)

IdInv ==
    /\ IdentityTypeOK /\ SessionsAreSound
    /\ \A d \in Desks : InHand(desk[d])
    /\ \A s \in Subjects : ConfirmedByIdentity(s, subject[s])

LEMMA IdleType == Idle \in Desk /\ Idle.pc = "idle" /\ InHand(Idle)
BY IdentityAssumption DEF Idle, Desk, DeskPC, Status, InHand

LEMMA IdleTypeNext == InHand(Idle)'
BY DEF Idle, InHand

LEMMA IdInitially == IdentityInit => IdInv
<1> SUFFICES ASSUME IdentityInit PROVE IdInv
  OBVIOUS
<1> USE IdentityAssumption DEF IdentityInit
<1>1. NewSession \in Session /\ NewSession.status = "none"
  BY DEF NewSession, Session
<1>2. IdentityTypeOK
  BY <1>1, IdleType DEF IdentityTypeOK, Subject, Status, NoSubmission
<1>3. SessionsAreSound
  BY <1>1 DEF SessionsAreSound
<1>4. \A d \in Desks : InHand(desk[d])
  BY IdleType
<1>5. \A s \in Subjects : ConfirmedByIdentity(s, subject[s])
  BY DEF ConfirmedByIdentity, NoSubmission
<1> QED BY <1>2, <1>3, <1>4, <1>5 DEF IdInv

-----------------------------------------------------------------------------
(* Steps *)

\* A request goes on while the tables stay.
LEMMA DeskStep ==
    ASSUME IdInv, NEW d \in Desks, NEW k \in Desk, InHand(k),
           desk' = [desk EXCEPT ![d] = k], UNCHANGED <<subject, session, verdict>>
    PROVE  IdInv'
<1>1. desk \in [Desks -> Desk]
  BY DEF IdInv, IdentityTypeOK
<1>2. IdentityTypeOK'
  BY <1>1 DEF IdInv, IdentityTypeOK
<1>3. SessionsAreSound'
  BY DEF IdInv, SessionsAreSound
<1>4. \A e \in Desks : InHand(desk[e])'
  BY <1>1 DEF IdInv, InHand, Confirmed
<1>5. \A s \in Subjects : ConfirmedByIdentity(s, subject[s])'
  BY DEF IdInv, ConfirmedByIdentity, Confirmed
<1> QED BY <1>2, <1>3, <1>4, <1>5 DEF IdInv

\* A subject is written, and the request that writes it returns.
LEMMA SubjectStep ==
    ASSUME IdInv, NEW s \in Subjects, NEW r \in Subject, ConfirmedByIdentity(s, r),
           r.version \in {subject[s].version, subject[s].version + 1},
           subject' = [subject EXCEPT ![s] = r], UNCHANGED <<session, verdict>>,
           UNCHANGED desk \/ \E d \in Desks : Return(d)
    PROVE  IdInv'
<1>1. desk \in [Desks -> Desk] /\ subject \in [Subjects -> Subject]
  BY DEF IdInv, IdentityTypeOK
<1>2. desk' \in [Desks -> Desk]
  BY <1>1, IdleType DEF Return
<1>3. IdentityTypeOK'
  BY <1>1, <1>2 DEF IdInv, IdentityTypeOK
<1>0. \A t \in Subjects : subject[t].version <= subject'[t].version
  <2> TAKE t \in Subjects
  <2>1. subject[t].version \in Nat
    BY <1>1, IdentityAssumption DEF Subject
  <2>2. subject'[t].version \in {subject[t].version, subject[t].version + 1}
    BY <1>1
  <2> QED BY <2>1, <2>2
<1>00. /\ \A n \in Sessions : session[n] \in Session
       /\ \A e \in Desks : desk[e] \in Desk
       /\ \A t \in Subjects : subject[t] \in Subject /\ subject'[t] \in Subject
  BY <1>1 DEF IdInv, IdentityTypeOK
<1>4. SessionsAreSound'
  <2> SUFFICES ASSUME NEW n \in Sessions, session[n].status # "none"
               PROVE  session[n].version <= subject'[session[n].subject].version
    BY DEF IdInv, SessionsAreSound
  <2>1. session[n].subject \in Subjects
        /\ session[n].version <= subject[session[n].subject].version
    BY DEF IdInv, SessionsAreSound
  <2> QED BY <1>0, <1>00, <2>1, IdentityAssumption DEF Session, Subject
<1>5. \A e \in Desks : InHand(desk[e])'
  <2> SUFFICES ASSUME NEW e \in Desks PROVE InHand(desk[e])'
    OBVIOUS
  <2>1. desk'[e] \in {desk[e], Idle}
    BY <1>1 DEF Return
  <2>2. InHand(desk[e])
    BY DEF IdInv
  <2>3. desk[e].pc = "insert" => desk[e].version <= subject'[desk[e].subject].version
    BY <1>0, <1>00, <2>2, IdentityAssumption DEF InHand, Desk, Subject
  <2> QED BY <2>1, <2>2, <2>3, IdleType DEF InHand, Confirmed
<1>6. \A t \in Subjects : ConfirmedByIdentity(t, subject[t])'
  BY <1>1 DEF IdInv, ConfirmedByIdentity, Confirmed
<1> QED BY <1>3, <1>4, <1>5, <1>6 DEF IdInv

\* A session is inserted or changes its state, and a request goes on.
LEMMA SessionStep ==
    ASSUME IdInv, NEW n \in Sessions, NEW r \in Session,
           r.status # "none", r.subject \in Subjects,
           r.version <= subject[r.subject].version,
           session[n].status # "none" => r.subject = session[n].subject,
           r.status = "passed" => verdict[n] = "passed",
           session' = [session EXCEPT ![n] = r], UNCHANGED <<subject, verdict>>,
           desk' \in [Desks -> Desk],
           \A e \in Desks : desk'[e] = desk[e] \/ InHand(desk[e])'
    PROVE  IdInv'
<1>1. session \in [Sessions -> Session]
  BY DEF IdInv, IdentityTypeOK
<1>2. \A m \in Sessions : session'[m] = IF m = n THEN r ELSE session[m]
  BY <1>1
<1>3. IdentityTypeOK'
  BY <1>1 DEF IdInv, IdentityTypeOK
<1>4. SessionsAreSound'
  BY <1>2 DEF IdInv, SessionsAreSound
<1>5. \A s \in Subjects : Confirmed(s) => Confirmed(s)'
  BY <1>2 DEF IdInv, SessionsAreSound, Confirmed
<1>6. \A e \in Desks : InHand(desk[e])'
  <2> SUFFICES ASSUME NEW e \in Desks, desk'[e] = desk[e] PROVE InHand(desk[e])'
    OBVIOUS
  <2>1. InHand(desk[e])
    BY DEF IdInv
  <2> QED BY <1>2, <1>5, <2>1 DEF InHand
<1>7. \A s \in Subjects : ConfirmedByIdentity(s, subject[s])'
  BY <1>5 DEF IdInv, ConfirmedByIdentity
<1> QED BY <1>3, <1>4, <1>6, <1>7 DEF IdInv

-----------------------------------------------------------------------------
(* The actions *)

\* The user and the administrators write a subject.
LEMMA SubjectSteps ==
    ASSUME IdInv, NEW s \in Subjects,
           CreateSubjectInfo(s) \/ ResubmitSubjectInfo(s) \/ DeleteSubjectInfo(s)
             \/ RejectSubjectInfo(s)
    PROVE  IdInv'
<1>1. subject \in [Subjects -> Subject] /\ subject[s] \in Subject
  BY DEF IdInv, IdentityTypeOK
<1>2. ASSUME NEW v \in 0 .. MaxResubmits, NEW by \in {"nobody", "system", "admin", "identity"},
             NEW r \in Submissions(s, v, by)
      PROVE  r \in Subject /\ r.version = v /\ ConfirmedByIdentity(s, r)
  <2>1. PICK st \in FirstStatus[s] :
            r = [status |-> st, version |-> v, by |-> IF st = "approved" THEN "system" ELSE by]
    BY <1>2 DEF Submissions
  <2>2. st \in {"approved", "pending", "verifying"}
    BY IdentityAssumption
  <2> QED BY <2>1, <2>2 DEF Subject, Status, ConfirmedByIdentity
<1>3. CASE CreateSubjectInfo(s)
  <2>1. 0 \in 0 .. MaxResubmits /\ subject[s].version = 0
    BY <1>3, IdentityAssumption DEF CreateSubjectInfo, NoSubmission
  <2>2. PICK r \in Submissions(s, 0, "nobody") : subject' = [subject EXCEPT ![s] = r]
    BY <1>3 DEF CreateSubjectInfo
  <2>3. r \in Subject /\ r.version = 0 /\ ConfirmedByIdentity(s, r)
    BY <1>2, <2>1
  <2>4. UNCHANGED <<session, verdict, desk>>
    BY <1>3 DEF CreateSubjectInfo
  <2> QED BY <2>1, <2>2, <2>3, <2>4, SubjectStep
<1>4. CASE ResubmitSubjectInfo(s)
  <2>1. /\ subject[s].version + 1 \in 0 .. MaxResubmits
        /\ subject[s].by \in {"nobody", "system", "admin", "identity"}
    BY <1>1, <1>4, IdentityAssumption DEF ResubmitSubjectInfo, Subject
  <2>2. PICK r \in Submissions(s, subject[s].version + 1, subject[s].by) :
            subject' = [subject EXCEPT ![s] = r]
    BY <1>4 DEF ResubmitSubjectInfo
  <2>3. r \in Subject /\ r.version = subject[s].version + 1 /\ ConfirmedByIdentity(s, r)
    BY <1>2, <2>1
  <2>4. UNCHANGED <<session, verdict, desk>>
    BY <1>4 DEF ResubmitSubjectInfo
  <2> QED BY <2>2, <2>3, <2>4, SubjectStep
<1>5. CASE DeleteSubjectInfo(s)
  <2> DEFINE r == [subject[s] EXCEPT !.status = "deleted"]
  <2>1. r \in Subject /\ r.status = "deleted" /\ r.version = subject[s].version
    BY <1>1 DEF Subject, Status
  <2>2. subject' = [subject EXCEPT ![s] = r] /\ UNCHANGED <<session, verdict, desk>>
    BY <1>5 DEF DeleteSubjectInfo
  <2> HIDE DEF r
  <2> QED BY <2>1, <2>2, SubjectStep DEF ConfirmedByIdentity
<1>6. CASE RejectSubjectInfo(s)
  <2> DEFINE r == [subject[s] EXCEPT !.status = "rejected", !.by = "admin"]
  <2>1. r \in Subject /\ r.status = "rejected" /\ r.version = subject[s].version
    BY <1>1 DEF Subject, Status
  <2>2. subject' = [subject EXCEPT ![s] = r] /\ UNCHANGED <<session, verdict, desk>>
    BY <1>6 DEF RejectSubjectInfo, RejectSubject
  <2> HIDE DEF r
  <2> QED BY <2>1, <2>2, SubjectStep DEF ConfirmedByIdentity
<1> QED BY <1>3, <1>4, <1>5, <1>6

\* A request begins.
LEMMA BeginSteps ==
    ASSUME IdInv, NEW d \in Desks,
           \/ \E s \in Subjects : LoadForIdentity(d, s) \/ LoadForApproval(d, s)
           \/ \E n \in Sessions : LearnVerdict(d, n)
    PROVE  IdInv'
<1>1. ASSUME NEW s \in Subjects, LoadForIdentity(d, s) PROVE IdInv'
  <2> DEFINE k == [desk[d] EXCEPT !.pc = "insert", !.subject = s, !.version = subject[s].version]
  <2>0. subject[s].version \in 0 .. MaxResubmits
    BY DEF IdInv, IdentityTypeOK, Subject
  <2>1. k \in Desk /\ k.pc = "insert" /\ k.subject = s /\ k.version = subject[s].version
    BY <1>1, <2>0, IdleType DEF LoadForIdentity, Desk, DeskPC
  <2>3. k.version <= subject[k.subject].version
    BY <2>0, <2>1, IdentityAssumption
  <2>2. desk' = [desk EXCEPT ![d] = k] /\ UNCHANGED <<subject, session, verdict>>
    BY <1>1 DEF LoadForIdentity
  <2> HIDE DEF k
  <2> QED BY <2>1, <2>2, <2>3, DeskStep DEF InHand
<1>2. ASSUME NEW s \in Subjects, LoadForApproval(d, s) PROVE IdInv'
  <2> DEFINE k == [desk[d] EXCEPT !.pc = "approve", !.subject = s,
                                  !.read = subject[s].status, !.by = "admin"]
  <2>1. subject[s] \in Subject /\ subject[s].status \in Undecided
    BY <1>2 DEF LoadForApproval, IdInv, IdentityTypeOK
  <2>2. k \in Desk /\ k.pc = "approve" /\ k.subject = s /\ k.read = subject[s].status
        /\ k.by = "admin"
    BY <1>2, <2>1, IdleType DEF LoadForApproval, Desk, DeskPC, Subject
  <2>3. desk' = [desk EXCEPT ![d] = k] /\ UNCHANGED <<subject, session, verdict>>
    BY <1>2 DEF LoadForApproval
  <2> HIDE DEF k
  <2> QED BY <2>1, <2>2, <2>3, DeskStep DEF InHand
<1>3. ASSUME NEW n \in Sessions, LearnVerdict(d, n) PROVE IdInv'
  <2> DEFINE k == [desk[d] EXCEPT !.pc = "session", !.session = n,
                                  !.passed = (verdict[n] = "passed")]
  <2>1. k \in Desk /\ k.pc = "session" /\ k.session = n /\ k.passed = (verdict[n] = "passed")
    BY <1>3, IdleType DEF LearnVerdict, Desk, DeskPC
  <2>2. k.passed => verdict[n] = "passed"
    BY <2>1, Zenon
  <2>3. desk' = [desk EXCEPT ![d] = k] /\ UNCHANGED <<subject, session, verdict>>
        /\ session[n].status # "none"
    BY <1>3 DEF LearnVerdict
  <2> HIDE DEF k
  <2> QED BY <2>1, <2>2, <2>3, DeskStep DEF InHand
<1> QED BY <1>1, <1>2, <1>3

\* The server and the provider write a session.
LEMMA SessionSteps ==
    ASSUME IdInv,
           \/ \E d \in Desks : InsertSession(d) \/ FailStart(d) \/ DecideSession(d)
           \/ \E n \in Sessions : SessionExpires(n)
    PROVE  IdInv'
<1>1. /\ desk \in [Desks -> Desk] /\ session \in [Sessions -> Session]
      /\ \A d \in Desks : InHand(desk[d])
  BY DEF IdInv, IdentityTypeOK
<1>2. ASSUME NEW d \in Desks, InsertSession(d) PROVE IdInv'
  <2>1. PICK n \in Sessions :
            /\ session[n].status = "none"
            /\ session' = [session EXCEPT ![n] = [status |-> "pending", expired |-> FALSE,
                                                  subject |-> desk[d].subject,
                                                  version |-> desk[d].version]]
            /\ desk' = [desk EXCEPT ![d].pc = "start", ![d].session = n]
    BY <1>2 DEF InsertSession
  <2> DEFINE r == [status |-> "pending", expired |-> FALSE, subject |-> desk[d].subject,
                   version |-> desk[d].version]
  <2>2. desk[d].subject \in Subjects /\ desk[d].version \in 0 .. MaxResubmits
        /\ desk[d].version <= subject[desk[d].subject].version
    BY <1>1, <1>2 DEF InsertSession, InHand, Desk
  <2>3. /\ r \in Session /\ r.status = "pending" /\ r.subject = desk[d].subject
        /\ r.version <= subject[r.subject].version
    BY <2>2 DEF Session
  <2>4. PICK k \in Desk : /\ k.pc = "start" /\ k.session = n
                         /\ desk' = [desk EXCEPT ![d] = k]
    <3> DEFINE j == [desk[d] EXCEPT !.pc = "start", !.session = n]
    <3>1. j \in Desk /\ j.pc = "start" /\ j.session = n
      BY <1>1 DEF Desk, DeskPC
    <3>2. desk' = [desk EXCEPT ![d] = j]
      BY <2>1
    <3> HIDE DEF j
    <3> QED BY <3>1, <3>2
  <2>5. session' = [session EXCEPT ![n] = r] /\ UNCHANGED <<subject, verdict>>
    BY <1>2, <2>1 DEF InsertSession
  <2> HIDE DEF r
  <2>6. desk'[d] = k /\ InHand(k)'
    BY <1>1, <2>3, <2>4, <2>5 DEF InHand
  <2>7. \A e \in Desks : desk'[e] = desk[e] \/ InHand(desk[e])'
    BY <1>1, <2>4, <2>6
  <2>8. desk' \in [Desks -> Desk]
    BY <1>1, <2>4
  <2> QED BY <2>1, <2>2, <2>3, <2>5, <2>7, <2>8, SessionStep
<1>3. ASSUME NEW d \in Desks, FailStart(d) PROVE IdInv'
  <2> DEFINE n == desk[d].session
             r == [session[n] EXCEPT !.status = "failed"]
  <2>1. n \in Sessions /\ session[n].status # "none" /\ session[n].subject \in Subjects
        /\ session[n] \in Session /\ session[n].version <= subject[session[n].subject].version
    BY <1>1, <1>3 DEF FailStart, InHand, IdInv, SessionsAreSound
  <2>2. r \in Session /\ r.status = "failed" /\ r.subject = session[n].subject
        /\ r.version = session[n].version
    BY <2>1 DEF Session
  <2>3. session' = [session EXCEPT ![n] = r] /\ UNCHANGED <<subject, verdict>>
        /\ desk' = [desk EXCEPT ![d] = Idle]
    BY <1>3 DEF FailStart, Return
  <2> HIDE DEF n, r
  <2>4. desk' \in [Desks -> Desk]
        /\ \A e \in Desks : desk'[e] = desk[e] \/ InHand(desk[e])'
    BY <1>1, <2>3, IdleType, IdleTypeNext DEF InHand
  <2> QED BY <2>1, <2>2, <2>3, <2>4, SessionStep
<1>4. ASSUME NEW n \in Sessions, SessionExpires(n) PROVE IdInv'
  <2> DEFINE r == [session[n] EXCEPT !.expired = TRUE]
  <2>1. session[n].status # "none" /\ session[n].subject \in Subjects /\ session[n] \in Session
        /\ (session[n].status = "passed" => verdict[n] = "passed")
        /\ session[n].version <= subject[session[n].subject].version
    BY <1>1, <1>4 DEF SessionExpires, IdInv, SessionsAreSound
  <2>2. r \in Session /\ r.status = session[n].status /\ r.subject = session[n].subject
        /\ r.version = session[n].version
    BY <2>1 DEF Session
  <2>3. session' = [session EXCEPT ![n] = r] /\ UNCHANGED <<subject, verdict, desk>>
    BY <1>4 DEF SessionExpires
  <2> HIDE DEF r
  <2> QED BY <1>1, <2>1, <2>2, <2>3, SessionStep
<1>5. ASSUME NEW d \in Desks, DecideSession(d) PROVE IdInv'
  <2> DEFINE n == desk[d].session
             r == [session[n] EXCEPT !.status =
                      IF @ # "pending" THEN @ ELSE IF desk[d].passed THEN "passed" ELSE "failed"]
  <2>1. /\ desk[d].pc = "decide" /\ desk[d] \in Desk /\ desk[d].subject \in Subjects
        /\ n \in Sessions /\ session[n].status # "none" /\ session[n] \in Session
        /\ session[n].subject = desk[d].subject
        /\ session[n].version <= subject[session[n].subject].version
        /\ desk[d].passed => verdict[n] = "passed"
        /\ session[n].status = "passed" => verdict[n] = "passed"
    BY <1>1, <1>5 DEF DecideSession, InHand, IdInv, SessionsAreSound
  <2>2. /\ r \in Session /\ r.subject = session[n].subject /\ r.status # "none"
        /\ r.version = session[n].version
        /\ r.status = "passed" => desk[d].passed \/ session[n].status = "passed"
    BY <2>1 DEF Session
  <2>3. PICK k \in Desk : /\ k.pc = "apply" /\ k.subject = desk[d].subject
                         /\ k.passed = desk[d].passed
                         /\ desk' = [desk EXCEPT ![d] = k]
    <3> DEFINE j == [desk[d] EXCEPT !.pc = "apply"]
    <3>1. j \in Desk /\ j.pc = "apply" /\ j.subject = desk[d].subject
          /\ j.passed = desk[d].passed
      BY <2>1 DEF Desk, DeskPC
    <3>2. desk' = [desk EXCEPT ![d] = j]
      BY <1>5 DEF DecideSession, GoTo
    <3> HIDE DEF j
    <3> QED BY <3>1, <3>2
  <2>4. session' = [session EXCEPT ![n] = r] /\ UNCHANGED <<subject, verdict>>
    BY <1>5 DEF DecideSession
  <2> HIDE DEF r
  <2>5. k.passed => Confirmed(k.subject)'
    <3>1. CASE desk[d].passed
      <4>1. \E m \in Sessions : session'[m].subject = k.subject /\ verdict'[m] = "passed"
        BY <1>1, <2>1, <2>2, <2>3, <2>4, <3>1
      <4> QED BY <4>1 DEF Confirmed
    <3> QED BY <2>3, <3>1
  <2>6. InHand(k)'
    BY <2>1, <2>3, <2>5 DEF InHand
  <2>7. desk' \in [Desks -> Desk]
        /\ \A e \in Desks : desk'[e] = desk[e] \/ InHand(desk[e])'
    BY <1>1, <2>3, <2>6
  <2> QED BY <2>1, <2>2, <2>4, <2>7, SessionStep
<1> QED BY <1>2, <1>3, <1>4, <1>5

\* The provider decides on a session that has no verdict yet.
LEMMA ProviderStep ==
    ASSUME IdInv, NEW n \in Sessions, ProviderDecides(n)
    PROVE  IdInv'
<1>1. PICK v \in {"passed", "failed"} : verdict' = [verdict EXCEPT ![n] = v]
  BY DEF ProviderDecides
<1>2. /\ verdict \in [Sessions -> {"open", "passed", "failed"}] /\ verdict[n] = "open"
      /\ session[n].status # "none" /\ UNCHANGED <<subject, session, desk>>
  BY DEF IdInv, IdentityTypeOK, ProviderDecides
<1>3. \A m \in Sessions : verdict[m] = "passed" => verdict'[m] = "passed"
  BY <1>1, <1>2
<1>4. IdentityTypeOK'
  BY <1>1, <1>2 DEF IdInv, IdentityTypeOK
<1>5. SessionsAreSound'
  BY <1>1, <1>2, <1>3 DEF IdInv, SessionsAreSound
<1>6. \A s : Confirmed(s) => Confirmed(s)'
  BY <1>2, <1>3 DEF Confirmed
<1>7. \A d \in Desks : InHand(desk[d])'
  <2> SUFFICES ASSUME NEW d \in Desks PROVE InHand(desk[d])'
    OBVIOUS
  <2>1. InHand(desk[d])
    BY DEF IdInv
  <2> QED BY <1>2, <1>3, <1>6, <2>1 DEF InHand
<1>8. \A s \in Subjects : ConfirmedByIdentity(s, subject[s])'
  BY <1>2, <1>6 DEF IdInv, ConfirmedByIdentity
<1> QED BY <1>4, <1>5, <1>7, <1>8 DEF IdInv

\* A request goes on or returns, and may write the subject it is about.
LEMMA RequestSteps ==
    ASSUME IdInv, NEW d \in Desks,
           \/ DriverStarts(d) \/ DriverFails(d) \/ LoadSession(d) \/ ApplyResult(d)
           \/ ApproveSubject(d) \/ Abort(d)
    PROVE  IdInv'
<1>1. desk[d] \in Desk /\ InHand(desk[d]) /\ subject \in [Subjects -> Subject]
  BY DEF IdInv, IdentityTypeOK
<1>2. ASSUME Return(d), UNCHANGED <<subject, session, verdict>> PROVE IdInv'
  BY <1>2, IdleType, DeskStep DEF Return
<1>3. CASE DriverStarts(d) \/ Abort(d)
  BY <1>2, <1>3 DEF DriverStarts, Abort
<1>4. CASE DriverFails(d)
  <2> DEFINE k == [desk[d] EXCEPT !.pc = "startFailed"]
  <2>1. k \in Desk /\ k.pc = "startFailed" /\ k.session = desk[d].session
    BY <1>1 DEF Desk, DeskPC
  <2>2. desk[d].pc = "start" /\ desk' = [desk EXCEPT ![d] = k]
        /\ UNCHANGED <<subject, session, verdict>>
    BY <1>4 DEF DriverFails, GoTo
  <2> HIDE DEF k
  <2> QED BY <1>1, <2>1, <2>2, DeskStep DEF InHand
<1>5. CASE LoadSession(d)
  <2> DEFINE m == desk[d].session
             n == session[m]
             k == [desk[d] EXCEPT !.pc = "apply", !.subject = n.subject,
                                  !.passed = (n.status = "passed")]
             j == [desk[d] EXCEPT !.pc = "decide", !.subject = n.subject]
  <2>1. /\ desk[d].pc = "session" /\ m \in Sessions /\ n.status # "none"
        /\ n.subject \in Subjects /\ (n.status = "passed" => verdict[m] = "passed")
        /\ (desk[d].passed => verdict[m] = "passed")
    BY <1>1, <1>5 DEF LoadSession, InHand, IdInv, SessionsAreSound
  <2>2. /\ k \in Desk /\ k.pc = "apply" /\ k.subject = n.subject
        /\ k.passed = (n.status = "passed")
    BY <1>1, <2>1 DEF Desk, DeskPC
  <2>3. /\ j \in Desk /\ j.pc = "decide" /\ j.subject = n.subject /\ j.session = m
        /\ j.passed = desk[d].passed
    BY <1>1, <2>1 DEF Desk, DeskPC
  <2>4. \/ desk' = [desk EXCEPT ![d] = k] \/ desk' = [desk EXCEPT ![d] = j] \/ Return(d)
    BY <1>5 DEF LoadSession
  <2>5. UNCHANGED <<subject, session, verdict>>
    BY <1>5 DEF LoadSession
  <2> HIDE DEF k, j
  <2>6. k.passed => Confirmed(k.subject)
    <3>1. CASE n.status = "passed"
      BY <2>1, <2>2, <3>1 DEF Confirmed
    <3>2. CASE n.status # "passed"
      BY <2>2, <3>2, Zenon
    <3> QED BY <3>1, <3>2
  <2>7. InHand(k)
    BY <2>1, <2>2, <2>6 DEF InHand
  <2>8. InHand(j)
    BY <2>1, <2>3 DEF InHand
  <2> QED BY <1>2, <2>2, <2>3, <2>4, <2>5, <2>7, <2>8, DeskStep
<1>6. CASE ApplyResult(d)
  <2> DEFINE s == desk[d].subject
  <2>1. desk[d].pc = "apply" /\ s \in Subjects /\ subject[s] \in Subject
        /\ (desk[d].passed => Confirmed(s)) /\ UNCHANGED <<session, verdict>>
    BY <1>1, <1>6 DEF ApplyResult, InHand
  <2>2. CASE RejectSubject(s, "identity") /\ Return(d)
    <3> DEFINE r == [subject[s] EXCEPT !.status = "rejected", !.by = "identity"]
    <3>1. r \in Subject /\ r.status = "rejected" /\ r.version = subject[s].version
      BY <2>1 DEF Subject, Status
    <3>2. subject' = [subject EXCEPT ![s] = r] \/ UNCHANGED subject
      BY <2>2 DEF RejectSubject
    <3> HIDE DEF r
    <3>3. ConfirmedByIdentity(s, r)
      BY <3>1 DEF ConfirmedByIdentity
    <3> QED BY <1>2, <2>1, <2>2, <3>1, <3>2, <3>3, SubjectStep
  <2>3. CASE /\ desk[d].passed
             /\ desk' = [desk EXCEPT ![d].pc = "approve", ![d].read = "verifying",
                                     ![d].by = "identity"]
             /\ UNCHANGED subject
    <3> DEFINE k == [desk[d] EXCEPT !.pc = "approve", !.read = "verifying", !.by = "identity"]
    <3>1. k \in Desk /\ k.pc = "approve" /\ k.read = "verifying" /\ k.by = "identity"
          /\ k.subject = s
      BY <1>1 DEF Desk, DeskPC, Status
    <3>2. desk' = [desk EXCEPT ![d] = k]
      BY <2>3
    <3> HIDE DEF k
    <3>3. InHand(k)
      BY <2>1, <2>3, <3>1 DEF InHand, Undecided
    <3> QED BY <2>1, <2>3, <3>1, <3>2, <3>3, DeskStep
  <2>4. CASE Return(d) /\ UNCHANGED subject
    BY <1>2, <2>1, <2>4
  <2> QED BY <1>6, <2>2, <2>3, <2>4 DEF ApplyResult
<1>7. CASE ApproveSubject(d)
  <2> DEFINE s == desk[d].subject
             r == [subject[s] EXCEPT !.status = "approved", !.by = desk[d].by]
  <2>1. desk[d].pc = "approve" /\ s \in Subjects /\ subject[s] \in Subject
        /\ (desk[d].by = "identity" => Confirmed(s)) /\ desk[d].by \in {"nobody", "admin", "identity"}
    BY <1>1, <1>7 DEF ApproveSubject, InHand, Desk
  <2>2. /\ r \in Subject /\ r.status = "approved" /\ r.by = desk[d].by
        /\ r.version = subject[s].version
    BY <2>1 DEF Subject, Status
  <2>3. (subject' = [subject EXCEPT ![s] = r] \/ UNCHANGED subject)
        /\ Return(d) /\ UNCHANGED <<session, verdict>>
    BY <1>7 DEF ApproveSubject
  <2> HIDE DEF r
  <2>4. ConfirmedByIdentity(s, r)
    BY <2>1, <2>2 DEF ConfirmedByIdentity
  <2> QED BY <1>2, <2>1, <2>2, <2>3, <2>4, SubjectStep
<1> QED BY <1>3, <1>4, <1>5, <1>6, <1>7

LEMMA IdStep == IdInv /\ [IdentityNext]_identityVars => IdInv'
<1> SUFFICES ASSUME IdInv, [IdentityNext]_identityVars PROVE IdInv'
  OBVIOUS
<1>1. CASE UNCHANGED identityVars
  <2>1. \A s : Confirmed(s)' <=> Confirmed(s)
    BY <1>1 DEF identityVars, Confirmed
  <2> QED BY <1>1, <2>1
          DEF identityVars, IdInv, IdentityTypeOK, SessionsAreSound, InHand, ConfirmedByIdentity
<1>2. CASE IdentityNext
  BY <1>2, SubjectSteps, BeginSteps, SessionSteps, ProviderStep, RequestSteps DEF IdentityNext
<1> QED BY <1>1, <1>2

LEMMA IdAlways == IdentitySpec => []IdInv
BY IdInitially, IdStep, PTL DEF IdentitySpec

-----------------------------------------------------------------------------
(* The theorems *)

\* Tables and requests have their types.
THEOREM IdentityTypes == IdentitySpec => []IdentityTypeOK
<1>1. IdInv => IdentityTypeOK
  BY DEF IdInv
<1> QED BY <1>1, IdAlways, PTL

\* No interleaving of answers, repeated answers, expiry and failed starts makes a subject
\* count as confirmed that the provider has not confirmed, as it was submitted last or before.
THEOREM ConfirmedIsProved == IdentitySpec => []IdentityIsProved
<1>1. IdInv => IdentityIsProved
  <2> SUFFICES ASSUME IdInv, NEW s \in Subjects, ByIdentity(s)
               PROVE  \/ ProvedFor(s, subject[s].version)
                      \/ \E v \in 0 .. subject[s].version - 1 : ProvedFor(s, v)
    BY DEF IdentityIsProved
  <2>1. PICK n \in Sessions : session[n].subject = s /\ verdict[n] = "passed"
    BY DEF IdInv, ConfirmedByIdentity, Confirmed, ByIdentity
  <2>2. /\ session[n].version \in Nat /\ subject[s].version \in Nat
        /\ session[n].version <= subject[s].version
    <3>1. session[n] \in Session /\ subject[s] \in Subject
      BY DEF IdInv, IdentityTypeOK
    <3>2. session[n].status # "none"
      BY <2>1 DEF IdInv, SessionsAreSound
    <3> QED BY <2>1, <3>1, <3>2, IdentityAssumption DEF IdInv, SessionsAreSound, Session, Subject
  <2>3. session[n].version = subject[s].version \/ session[n].version \in 0 .. subject[s].version - 1
    BY <2>2
  <2> QED BY <2>1, <2>3 DEF ProvedFor
<1> QED BY <1>1, IdAlways, PTL

\* A decision on a submission is turned around by nobody but the user, who submits again.
THEOREM DecisionsAreFinal == IdentitySpec => DecisionIsFinal
<1> DEFINE A == \A s \in Subjects :
                   subject[s].status \in {"approved", "rejected"} =>
                       \/ subject'[s] = subject[s]
                       \/ subject'[s].version > subject[s].version
                       \/ subject'[s].status = "deleted"
<1>1. IdInv /\ [IdentityNext]_identityVars => [A]_identityVars
  <2> SUFFICES ASSUME IdInv, IdentityNext, NEW s \in Subjects,
                      subject[s].status \in {"approved", "rejected"}
               PROVE  \/ subject'[s] = subject[s]
                      \/ subject'[s].version > subject[s].version
                      \/ subject'[s].status = "deleted"
    BY DEF identityVars
  <2>1. /\ subject \in [Subjects -> Subject] /\ subject[s] \in Subject
        /\ subject[s].status \notin Undecided
    BY DEF IdInv, IdentityTypeOK, Undecided
  <2>2. CASE UNCHANGED subject
    BY <2>2
  <2>3. ASSUME NEW t \in Subjects,
               CreateSubjectInfo(t) \/ RejectSubjectInfo(t) \/ DeleteSubjectInfo(t)
        PROVE  subject'[s] = subject[s] \/ subject'[s].status = "deleted"
    BY <2>1, <2>3 DEF CreateSubjectInfo, NoSubmission, RejectSubjectInfo, RejectSubject,
                      DeleteSubjectInfo, Subject
  <2>4. ASSUME NEW t \in Subjects, ResubmitSubjectInfo(t)
        PROVE  subject'[s] = subject[s] \/ subject'[s].version > subject[s].version
    <3>1. PICK new \in Submissions(t, subject[t].version + 1, subject[t].by) :
              subject' = [subject EXCEPT ![t] = new]
      BY <2>4 DEF ResubmitSubjectInfo
    <3>2. new.version = subject[t].version + 1
      BY DEF Submissions
    <3> QED BY <2>1, <3>1, <3>2, IdentityAssumption DEF Subject
  <2>5. ASSUME NEW d \in Desks, ApplyResult(d) \/ ApproveSubject(d)
        PROVE  subject'[s] = subject[s]
    <3>1. InHand(desk[d])
      BY DEF IdInv
    <3> QED BY <2>1, <2>5, <3>1 DEF ApplyResult, ApproveSubject, RejectSubject, InHand
  <2>6. ASSUME NEW n \in Sessions, \/ ProviderDecides(n) \/ SessionExpires(n)
                                   \/ \E d \in Desks : LearnVerdict(d, n)
        PROVE  UNCHANGED subject
    BY <2>6 DEF ProviderDecides, SessionExpires, LearnVerdict
  <2>7. ASSUME NEW d \in Desks,
               \/ \E t \in Subjects : LoadForIdentity(d, t) \/ LoadForApproval(d, t)
               \/ InsertSession(d) \/ DriverStarts(d) \/ DriverFails(d) \/ FailStart(d)
               \/ LoadSession(d) \/ DecideSession(d) \/ Abort(d)
        PROVE  UNCHANGED subject
    BY <2>7 DEF LoadForIdentity, LoadForApproval, InsertSession, DriverStarts, DriverFails,
                FailStart, LoadSession, DecideSession, Abort
  <2> QED BY <2>2, <2>3, <2>4, <2>5, <2>6, <2>7 DEF IdentityNext
<1> QED BY <1>1, IdAlways, PTL DEF IdentitySpec, DecisionIsFinal

-----------------------------------------------------------------------------
(* Checks of domains, addresses and mailboxes *)

\* A request knows the row it is about, and a token of it that is not newer than the row's.
RowInHand ==
    \A d \in Checks :
        check[d].pc # "idle" =>
            check[d].info \in Infos /\ check[d].token <= info[check[d].info].token

\* Behind a request that is about to verify stands an administrator, or an owner who has
\* shown the token or code it read.
StandsBehind(k) ==
    /\ k.pc \in {"lookup", "tries", "compare", "wrong"} => k.vouched = "owner"
    /\ k.pc \in {"load", "mark"} =>
           \/ k.vouched = "admin"
           \/ k.vouched = "owner" /\ <<k.info, k.token>> \in shown

\* Requests that have passed the limit of an info and have not yet counted their attempt.
InFlight(i) == {d \in Checks : check[d].pc \in {"compare", "wrong"} /\ check[d].info = i}

\* The attempts that are counted and those that may still be.
TriesBounded ==
    \A i \in Infos :
        info[i].tries + Cardinality(InFlight(i)) <= MaxTries - 1 + Cardinality(Checks)

\* A row that is not there yet has had no token; a verified one has been proved.
RowIsSound(i, r) ==
    /\ r.status = "absent" => r.token = 0
    /\ r.status = "verified" =>
           \/ r.vouched = "policy" /\ "none" \in Modes[i]
           \/ r.vouched = "admin"
           \/ r.vouched = "owner" /\ \E t \in 0 .. r.token : <<i, t>> \in shown

OInv ==
    /\ OwnershipTypeOK /\ RowInHand /\ TriesBounded
    /\ \A d \in Checks : StandsBehind(check[d])
    /\ \A i \in Infos : RowIsSound(i, info[i])

LEMMA NoCheckType == NoCheck \in Check
BY OwnershipAssumption DEF NoCheck, Check, CheckPC, Token

\* What resetVerification writes.
LEMMA ResetType ==
    ASSUME NEW i \in Infos, NEW mode \in Modes[i], NEW t \in Token
    PROVE  /\ Reset(mode, t) \in Info /\ Reset(mode, t).token = t /\ Reset(mode, t).tries = 0
           /\ RowIsSound(i, Reset(mode, t))
<1>1. mode \in {"none", "manual", "auto"}
  BY OwnershipAssumption
<1>2. CASE mode = "none"
  BY <1>2 DEF Reset, Info, InfoStatus, RowIsSound
<1>3. CASE mode = "manual"
  BY <1>3 DEF Reset, Info, InfoStatus, RowIsSound
<1>4. CASE mode = "auto"
  BY <1>4 DEF Reset, Info, InfoStatus, RowIsSound
<1> QED BY <1>1, <1>2, <1>3, <1>4

LEMMA FlightsAreFinite ==
    \A i : /\ IsFiniteSet(InFlight(i)) /\ Cardinality(InFlight(i)) \in Nat
           /\ Cardinality(InFlight(i)) <= Cardinality(Checks) /\ Cardinality(Checks) \in Nat
<1> TAKE i
<1>1. InFlight(i) \subseteq Checks /\ IsFiniteSet(Checks)
  BY OwnershipAssumption DEF InFlight
<1>2. IsFiniteSet(InFlight(i)) /\ Cardinality(InFlight(i)) <= Cardinality(Checks)
  BY <1>1, FS_Subset
<1> QED BY <1>1, <1>2, FS_CardinalityType

LEMMA FlightsAreFiniteNext ==
    \A i : /\ IsFiniteSet(InFlight(i)') /\ Cardinality(InFlight(i)') \in Nat
           /\ Cardinality(InFlight(i)') <= Cardinality(Checks)
<1> TAKE i
<1>1. InFlight(i)' \subseteq Checks /\ IsFiniteSet(Checks)
  BY OwnershipAssumption DEF InFlight
<1>2. IsFiniteSet(InFlight(i)') /\ Cardinality(InFlight(i)') <= Cardinality(Checks)
  BY <1>1, FS_Subset
<1> QED BY <1>1, <1>2, FS_CardinalityType

LEMMA OInitially == OwnershipInit => OInv
<1> SUFFICES ASSUME OwnershipInit PROVE OInv
  OBVIOUS
<1> USE OwnershipAssumption DEF OwnershipInit
<1>1. \A i \in Infos : info[i] = [status |-> "absent", token |-> 0, tries |-> 0,
                                  vouched |-> "nobody"]
  BY DEF Reset
<1>2. OwnershipTypeOK
  <2>1. [Reset("auto", 0) EXCEPT !.status = "absent"] \in Info
    BY DEF Reset, Info, InfoStatus, Token
  <2> QED BY <2>1, NoCheckType DEF OwnershipTypeOK
<1>3. RowInHand /\ \A d \in Checks : StandsBehind(check[d])
  BY DEF RowInHand, StandsBehind, NoCheck
<1>4. TriesBounded
  <2> SUFFICES ASSUME NEW i \in Infos
               PROVE  info[i].tries + Cardinality(InFlight(i)) <= MaxTries - 1 + Cardinality(Checks)
    BY DEF TriesBounded
  <2> QED BY <1>1, FlightsAreFinite
<1>5. \A i \in Infos : RowIsSound(i, info[i])
  BY <1>1 DEF RowIsSound
<1> QED BY <1>2, <1>3, <1>4, <1>5 DEF OInv

-----------------------------------------------------------------------------
(* Steps *)

\* A step of one request that leaves the rows alone: it passes the limit, or it is in flight
\* for a row only if it was.
LEMMA RequestStep ==
    ASSUME OInv, NEW d \in Checks, NEW k \in Check,
           k.pc # "idle" => k.info \in Infos /\ k.token <= info[k.info].token,
           StandsBehind(k),
           k.pc \in {"compare", "wrong"} =>
               \/ check[d].pc \in {"compare", "wrong"} /\ k.info = check[d].info
               \/ info[k.info].tries < MaxTries,
           check' = [check EXCEPT ![d] = k], UNCHANGED <<info, shown>>
    PROVE  OInv'
<1> USE OwnershipAssumption DEF OInv
<1>1. check \in [Checks -> Check] /\ info \in [Infos -> Info]
  BY DEF OwnershipTypeOK
<1>2. OwnershipTypeOK'
  BY <1>1 DEF OwnershipTypeOK
<1>3. RowInHand'
  BY <1>1 DEF RowInHand
<1>4. \A e \in Checks : StandsBehind(check[e])'
  BY <1>1 DEF StandsBehind
<1>5. TriesBounded'
  <2> SUFFICES ASSUME NEW i \in Infos
               PROVE  info[i].tries + Cardinality(InFlight(i)')
                        <= MaxTries - 1 + Cardinality(Checks)
    BY DEF TriesBounded
  <2>1. info[i].tries \in Nat
    BY <1>1 DEF Info
  <2>2. CASE InFlight(i)' \subseteq InFlight(i)
    <3>1. Cardinality(InFlight(i)') <= Cardinality(InFlight(i))
      BY <2>2, FlightsAreFinite, FS_Subset
    <3> QED BY <2>1, <3>1, FlightsAreFinite, FlightsAreFiniteNext DEF TriesBounded
  <2>3. CASE info[i].tries < MaxTries
    BY <2>1, <2>3, FlightsAreFinite, FlightsAreFiniteNext
  <2> QED BY <1>1, <2>2, <2>3 DEF InFlight
<1>6. \A i \in Infos : RowIsSound(i, info[i])'
  BY DEF RowIsSound
<1> QED BY <1>2, <1>3, <1>4, <1>5, <1>6

LEMMA ReturnStep ==
    ASSUME OInv, NEW d \in Checks, EndCheck(d), UNCHANGED <<info, shown>>
    PROVE  OInv'
<1>1. NoCheck.pc = "idle" /\ StandsBehind(NoCheck)
  BY DEF NoCheck, StandsBehind
<1>2. check' = [check EXCEPT ![d] = NoCheck]
  BY DEF EndCheck
<1> QED BY <1>1, <1>2, NoCheckType, RequestStep

\* A request in hand goes to another of its steps.
LEMMA GoToStep ==
    ASSUME OInv, NEW d \in Checks, NEW pc \in CheckPC, pc # "idle", Proceed(d, pc),
           check[d].pc # "idle", StandsBehind([check[d] EXCEPT !.pc = pc]),
           pc \in {"compare", "wrong"} =>
               \/ check[d].pc \in {"compare", "wrong"}
               \/ info[check[d].info].tries < MaxTries,
           UNCHANGED <<info, shown>>
    PROVE  OInv'
<1> DEFINE k == [check[d] EXCEPT !.pc = pc]
<1>1. check[d] \in Check
  BY DEF OInv, OwnershipTypeOK
<1>2. k \in Check /\ k.pc = pc /\ k.info = check[d].info /\ k.token = check[d].token
  BY <1>1 DEF Check
<1>3. k.info \in Infos /\ k.token <= info[k.info].token
  BY <1>2 DEF OInv, RowInHand
<1>4. check' = [check EXCEPT ![d] = k]
  BY DEF Proceed
<1> HIDE DEF k
<1>5. StandsBehind(k)
  BY DEF k
<1> QED BY <1>2, <1>3, <1>4, <1>5, RequestStep

\* A row is written while no request moves: its token does not go back, its attempts are
\* those of before or none.
LEMMA RowStep ==
    ASSUME OInv, NEW i \in Infos, NEW r \in Info,
           r.token >= info[i].token, r.tries \in {0, info[i].tries}, RowIsSound(i, r),
           info' = [info EXCEPT ![i] = r], UNCHANGED <<shown, check>>
    PROVE  OInv'
<1> USE OwnershipAssumption DEF OInv
<1>1. info \in [Infos -> Info] /\ check \in [Checks -> Check]
  BY DEF OwnershipTypeOK
<1>2. OwnershipTypeOK'
  BY <1>1 DEF OwnershipTypeOK
<1>3. RowInHand'
  <2> SUFFICES ASSUME NEW d \in Checks, check[d].pc # "idle"
               PROVE  check[d].info \in Infos /\ check[d].token <= info'[check[d].info].token
    BY DEF RowInHand
  <2>1. check[d].info \in Infos /\ check[d].token <= info[check[d].info].token
    BY DEF RowInHand
  <2>2. check[d].token \in Int /\ r.token \in Int /\ info[check[d].info].token \in Int
    BY <1>1, <2>1 DEF Check, Info, Token
  <2> QED BY <1>1, <2>1, <2>2
<1>4. \A d \in Checks : StandsBehind(check[d])'
  BY DEF StandsBehind
<1>5. TriesBounded'
  <2> SUFFICES ASSUME NEW j \in Infos
               PROVE  info'[j].tries + Cardinality(InFlight(j)')
                        <= MaxTries - 1 + Cardinality(Checks)
    BY DEF TriesBounded
  <2>1. InFlight(j)' = InFlight(j)
    BY DEF InFlight
  <2>2. info'[j].tries \in {0, info[j].tries} /\ info[j].tries \in Nat
    BY <1>1 DEF Info
  <2> QED BY <2>1, <2>2, FlightsAreFinite DEF TriesBounded
<1>6. \A j \in Infos : RowIsSound(j, info[j])'
  BY <1>1 DEF RowIsSound
<1> QED BY <1>2, <1>3, <1>4, <1>5, <1>6

\* A request writes the row it is about and returns; an attempt is counted only by a request
\* in flight.
LEMMA WriteStep ==
    ASSUME OInv, NEW d \in Checks, NEW r \in Info,
           check[d].pc # "idle", r.token = info[check[d].info].token,
           \/ r.tries = info[check[d].info].tries
           \/ r.tries = info[check[d].info].tries + 1 /\ d \in InFlight(check[d].info),
           RowIsSound(check[d].info, r),
           info' = [info EXCEPT ![check[d].info] = r], EndCheck(d), UNCHANGED shown
    PROVE  OInv'
<1> USE OwnershipAssumption DEF OInv
<1> DEFINE i == check[d].info
<1>1. info \in [Infos -> Info] /\ check \in [Checks -> Check]
  BY DEF OwnershipTypeOK
<1>2. i \in Infos /\ check' = [check EXCEPT ![d] = NoCheck] /\ NoCheck.pc = "idle"
  BY DEF RowInHand, EndCheck, NoCheck
<1>3. OwnershipTypeOK'
  BY <1>1, <1>2, NoCheckType DEF OwnershipTypeOK
<1>4. RowInHand'
  <2>1. \A j \in Infos : info'[j].token = info[j].token
    BY <1>1, <1>2
  <2> QED BY <1>1, <1>2, <2>1 DEF RowInHand
<1>5. \A e \in Checks : StandsBehind(check[e])'
  BY <1>1, <1>2 DEF StandsBehind
<1>6. TriesBounded'
  <2> SUFFICES ASSUME NEW j \in Infos
               PROVE  info'[j].tries + Cardinality(InFlight(j)')
                        <= MaxTries - 1 + Cardinality(Checks)
    BY DEF TriesBounded
  <2>1. info[j].tries \in Nat /\ info'[j].tries \in Nat
    BY <1>1, <1>2 DEF Info
  <2>2. InFlight(j)' = InFlight(j) \ {d}
    BY <1>1, <1>2 DEF InFlight
  <2>3. CASE info'[j].tries = info[j].tries
    <3>1. Cardinality(InFlight(j)') <= Cardinality(InFlight(j))
      BY <2>2, FlightsAreFinite, FS_Subset
    <3> QED BY <2>1, <2>3, <3>1, FlightsAreFinite, FlightsAreFiniteNext DEF TriesBounded
  <2>4. CASE info'[j].tries = info[j].tries + 1 /\ d \in InFlight(j)
    <3>1. Cardinality(InFlight(j)') = Cardinality(InFlight(j)) - 1
      BY <2>2, <2>4, FlightsAreFinite, FS_RemoveElement
    <3> QED BY <2>1, <2>4, <3>1, FlightsAreFinite, FlightsAreFiniteNext DEF TriesBounded
  <2> QED BY <1>1, <1>2, <2>3, <2>4
<1>7. \A j \in Infos : RowIsSound(j, info[j])'
  BY <1>1, <1>2 DEF RowIsSound
<1> QED BY <1>3, <1>4, <1>5, <1>6, <1>7

-----------------------------------------------------------------------------
(* The actions *)

LEMMA OwnerSteps ==
    ASSUME OInv, NEW i \in Infos,
           CreateExtensionInfo(i) \/ RenewExtensionInfo(i) \/ DeleteExtensionInfo(i)
             \/ RejectExtensionInfo(i)
    PROVE  OInv'
<1> USE OwnershipAssumption
<1>1. info \in [Infos -> Info] /\ info[i] \in Info /\ info[i].token \in Token
  BY DEF OInv, OwnershipTypeOK, Info
<1>2. CASE CreateExtensionInfo(i)
  <2>1. PICK mode \in Modes[i] : info' = [info EXCEPT ![i] = Reset(mode, 0)]
    BY <1>2 DEF CreateExtensionInfo
  <2>2. 0 \in Token
    BY DEF Token
  <2> DEFINE r == Reset(mode, 0)
  <2>3. r \in Info /\ r.token = 0 /\ r.tries = 0 /\ RowIsSound(i, r)
    BY <2>2, ResetType
  <2>4. info[i].token = 0
    BY <1>2 DEF OInv, RowIsSound, CreateExtensionInfo
  <2>5. info' = [info EXCEPT ![i] = r] /\ UNCHANGED <<shown, check>>
    BY <1>2, <2>1 DEF CreateExtensionInfo
  <2>6. r.token >= info[i].token
    BY <2>3, <2>4
  <2> HIDE DEF r
  <2> QED BY <2>3, <2>5, <2>6, RowStep
<1>3. CASE RenewExtensionInfo(i)
  <2>1. PICK mode \in Modes[i] : info' = [info EXCEPT ![i] = Reset(mode, info[i].token + 1)]
    BY <1>3 DEF RenewExtensionInfo
  <2>2. info[i].token + 1 \in Token /\ info[i].token + 1 >= info[i].token
    BY <1>1, <1>3 DEF RenewExtensionInfo, Token
  <2> DEFINE r == Reset(mode, info[i].token + 1)
  <2>3. r \in Info /\ r.token = info[i].token + 1 /\ r.tries = 0 /\ RowIsSound(i, r)
    BY <2>2, ResetType
  <2> HIDE DEF r
  <2>4. info' = [info EXCEPT ![i] = r]
    BY <2>1 DEF r
  <2> QED BY <1>3, <2>2, <2>3, <2>4, RowStep DEF RenewExtensionInfo
<1>4. ASSUME NEW s \in {"deleted", "rejected"}, info' = [info EXCEPT ![i].status = s],
             UNCHANGED <<shown, check>>
      PROVE  OInv'
  <2> DEFINE r == [info[i] EXCEPT !.status = s]
  <2>1. r \in Info /\ r.token = info[i].token /\ r.tries = info[i].tries /\ r.status = s
    BY <1>1 DEF Info, InfoStatus
  <2>2. RowIsSound(i, r) /\ r.token >= info[i].token
    BY <1>1, <2>1 DEF RowIsSound, Token
  <2>3. info' = [info EXCEPT ![i] = r]
    BY <1>4
  <2> HIDE DEF r
  <2> QED BY <1>4, <2>1, <2>2, <2>3, RowStep
<1>5. CASE DeleteExtensionInfo(i)
  BY <1>4, <1>5 DEF DeleteExtensionInfo
<1>6. CASE RejectExtensionInfo(i)
  BY <1>4, <1>6 DEF RejectExtensionInfo
<1> QED BY <1>2, <1>3, <1>5, <1>6

LEMMA ShowStep ==
    ASSUME OInv, NEW i \in Infos, NEW t \in Token, Show(i, t)
    PROVE  OInv'
<1> USE DEF Show
<1>1. OwnershipTypeOK'
  BY DEF OInv, OwnershipTypeOK
<1>2. RowInHand'
  BY DEF OInv, RowInHand
<1>3. TriesBounded'
  <2>1. \A j : InFlight(j)' = InFlight(j)
    BY DEF InFlight
  <2> QED BY <2>1 DEF OInv, TriesBounded
<1>4. \A d \in Checks : StandsBehind(check[d])'
  BY DEF OInv, StandsBehind
<1>5. \A j \in Infos : RowIsSound(j, info[j])'
  BY DEF OInv, RowIsSound
<1> QED BY <1>1, <1>2, <1>3, <1>4, <1>5 DEF OInv

\* A request begins: the row it names, and who asks.
LEMMA BeginCheckSteps ==
    ASSUME OInv, NEW d \in Checks, NEW i \in Infos,
           LoadForCheck(d, i) \/ ApproveExtensionInfo(d, i)
    PROVE  OInv'
<1>1. info[i] \in Info /\ info[i].token \in Token
  BY DEF OInv, OwnershipTypeOK, Info
<1>2. CASE LoadForCheck(d, i)
  <2> DEFINE k == [pc |-> IF i \in Mailboxes THEN "tries" ELSE "lookup",
                   info |-> i, token |-> info[i].token, vouched |-> "owner"]
  <2>1. k \in Check
    BY <1>1 DEF Check, CheckPC
  <2>2. k.info = i /\ k.token <= info[i].token /\ k.pc \in {"tries", "lookup"}
    BY <1>1, OwnershipAssumption DEF Token
  <2>3. StandsBehind(k)
    BY DEF StandsBehind
  <2>4. check' = [check EXCEPT ![d] = k] /\ UNCHANGED <<info, shown>>
    BY <1>2 DEF LoadForCheck
  <2> HIDE DEF k
  <2> QED BY <2>1, <2>2, <2>3, <2>4, RequestStep
<1>3. CASE ApproveExtensionInfo(d, i)
  <2> DEFINE k == [NoCheck EXCEPT !.pc = "load", !.info = i, !.vouched = "admin"]
  <2>1. k \in Check
    BY NoCheckType DEF Check, CheckPC
  <2>2. k.info = i /\ k.token <= info[i].token /\ k.pc = "load"
    BY <1>1, OwnershipAssumption DEF Token, NoCheck
  <2>3. StandsBehind(k)
    BY DEF StandsBehind, NoCheck
  <2>4. check' = [check EXCEPT ![d] = k] /\ UNCHANGED <<info, shown>>
    BY <1>3 DEF ApproveExtensionInfo
  <2> HIDE DEF k
  <2> QED BY <2>1, <2>2, <2>3, <2>4, RequestStep
<1> QED BY <1>2, <1>3

\* A check goes on, or ends without a word written.
LEMMA CheckSteps ==
    ASSUME OInv, NEW d \in Checks,
           LookUp(d) \/ ReadTries(d) \/ CompareCode(d) \/ LoadForMark(d) \/ AbortCheck(d)
    PROVE  OInv'
<1> USE DEF CheckPC
<1>1. check[d] \in Check /\ StandsBehind(check[d])
  BY DEF OInv, OwnershipTypeOK
<1>2. \A pc : LET k == [check[d] EXCEPT !.pc = pc] IN
                 k.pc = pc /\ k.info = check[d].info /\ k.token = check[d].token
                 /\ k.vouched = check[d].vouched
  BY <1>1 DEF Check
<1>3. CASE EndCheck(d) /\ UNCHANGED <<info, shown>>
  BY <1>3, ReturnStep
<1>4. CASE LookUp(d) /\ ~EndCheck(d)
  <2>1. StandsBehind([check[d] EXCEPT !.pc = "load"])
    BY <1>1, <1>2, <1>4 DEF LookUp, StandsBehind
  <2> QED BY <1>4, <2>1, GoToStep DEF LookUp
<1>5. CASE ReadTries(d) /\ ~EndCheck(d)
  <2>1. StandsBehind([check[d] EXCEPT !.pc = "compare"])
    BY <1>1, <1>2, <1>5 DEF ReadTries, StandsBehind
  <2> QED BY <1>5, <2>1, GoToStep DEF ReadTries
<1>6. CASE CompareCode(d) /\ ~EndCheck(d)
  <2>1. StandsBehind([check[d] EXCEPT !.pc = "wrong"])
    BY <1>1, <1>2, <1>6 DEF CompareCode, StandsBehind
  <2>2. CASE Proceed(d, "wrong")
    BY <1>6, <2>1, <2>2, GoToStep DEF CompareCode
  <2>3. CASE <<check[d].info, check[d].token>> \in shown /\ Proceed(d, "load")
    <3>1. StandsBehind([check[d] EXCEPT !.pc = "load"])
      BY <1>1, <1>2, <1>6, <2>3 DEF CompareCode, StandsBehind
    <3> QED BY <1>6, <2>3, <3>1, GoToStep DEF CompareCode
  <2> QED BY <1>6, <2>2, <2>3 DEF CompareCode
<1>7. CASE LoadForMark(d) /\ ~EndCheck(d)
  <2>1. StandsBehind([check[d] EXCEPT !.pc = "mark"])
    BY <1>1, <1>2, <1>7 DEF LoadForMark, StandsBehind
  <2> QED BY <1>7, <2>1, GoToStep DEF LoadForMark
<1> QED BY <1>3, <1>4, <1>5, <1>6, <1>7
        DEF LookUp, ReadTries, CompareCode, LoadForMark, AbortCheck

\* A wrong code is counted, whoever else counts one of the same info.
LEMMA CountStep ==
    ASSUME OInv, NEW d \in Checks, CountTry(d)
    PROVE  OInv'
<1> DEFINE i == check[d].info
           r == [info[i] EXCEPT !.tries = IF InfoExists(i) THEN @ + 1 ELSE @]
<1>1. i \in Infos /\ check[d].pc = "wrong" /\ info[i] \in Info
  BY DEF CountTry, OInv, OwnershipTypeOK, RowInHand
<1>2. r \in Info /\ r.token = info[i].token /\ r.status = info[i].status
      /\ r.vouched = info[i].vouched /\ r.tries \in {info[i].tries, info[i].tries + 1}
  BY <1>1 DEF Info
<1>3. d \in InFlight(i)
  BY <1>1 DEF InFlight
<1>4. RowIsSound(i, r)
  BY <1>1, <1>2 DEF OInv, RowIsSound
<1>5. info' = [info EXCEPT ![i] = r]
  BY DEF CountTry
<1>6. EndCheck(d) /\ UNCHANGED shown
  BY DEF CountTry
<1> HIDE DEF r
<1> QED BY <1>1, <1>2, <1>3, <1>4, <1>5, <1>6, WriteStep

\* A row is marked as verified, whatever became of it since the request began.
LEMMA MarkStep ==
    ASSUME OInv, NEW d \in Checks, MarkVerified(d)
    PROVE  OInv'
<1> DEFINE i == check[d].info
           r == [info[i] EXCEPT !.status = "verified", !.vouched = check[d].vouched]
<1>1. i \in Infos /\ check[d].pc = "mark" /\ info[i] \in Info /\ check[d] \in Check
  BY DEF MarkVerified, OInv, OwnershipTypeOK, RowInHand
<1>2. r \in Info /\ r.token = info[i].token /\ r.vouched = check[d].vouched
      /\ r.tries = info[i].tries
  BY <1>1 DEF Info, InfoStatus, Check
<1>3. RowIsSound(i, r)
  <2>1. CASE check[d].vouched = "admin"
    BY <1>2, <2>1 DEF RowIsSound
  <2>2. CASE check[d].vouched = "owner" /\ <<i, check[d].token>> \in shown
    <3>1. check[d].token \in 0 .. info[i].token
      BY <1>1, OwnershipAssumption DEF OInv, RowInHand, Check, Info, Token
    <3> QED BY <1>2, <2>2, <3>1 DEF RowIsSound
  <2> QED BY <1>1, <2>1, <2>2 DEF OInv, StandsBehind
<1>4. CASE InfoExists(i)
  <2>1. info' = [info EXCEPT ![i] = r] /\ EndCheck(d) /\ UNCHANGED shown
    BY <1>1, <1>4 DEF MarkVerified
  <2> HIDE DEF r
  <2> QED BY <1>1, <1>2, <1>3, <2>1, WriteStep
<1>5. CASE ~InfoExists(i)
  BY <1>5, ReturnStep DEF MarkVerified
<1> QED BY <1>4, <1>5

LEMMA OStep == OInv /\ [OwnershipNext]_ownershipVars => OInv'
<1> SUFFICES ASSUME OInv, [OwnershipNext]_ownershipVars PROVE OInv'
  OBVIOUS
<1>1. CASE UNCHANGED ownershipVars
  BY <1>1 DEF ownershipVars, OInv, OwnershipTypeOK, RowInHand, TriesBounded, StandsBehind,
              RowIsSound, InFlight
<1>2. CASE OwnershipNext
  BY <1>2, OwnerSteps, ShowStep, BeginCheckSteps, CheckSteps, CountStep, MarkStep
     DEF OwnershipNext
<1> QED BY <1>1, <1>2

LEMMA OAlways == OwnershipSpec => []OInv
BY OInitially, OStep, PTL DEF OwnershipSpec

-----------------------------------------------------------------------------
(* The theorems *)

\* Tables, tokens and requests have their types.
THEOREM OwnershipTypes == OwnershipSpec => []OwnershipTypeOK
<1>1. OInv => OwnershipTypeOK
  BY DEF OInv
<1> QED BY <1>1, OAlways, PTL

\* No interleaving of checks, renewals, approvals and rejections verifies an info that
\* nobody stands behind.
THEOREM VerifiedIsProved == OwnershipSpec => []VerifiedWasProved
<1>1. OInv => VerifiedWasProved
  BY DEF OInv, RowIsSound, VerifiedWasProved
<1> QED BY <1>1, OAlways, PTL

\* However many codes are tried side by side, the counter passes the limit by less than the
\* number of requests.
THEOREM TriesStayBounded == OwnershipSpec => []TriesAreLimited
<1>1. OInv => TriesAreLimited
  <2> SUFFICES ASSUME OInv, NEW i \in Infos
               PROVE  info[i].tries <= MaxTries - 1 + Cardinality(Checks)
    BY DEF TriesAreLimited
  <2>1. info[i].tries \in Nat
    BY DEF OInv, OwnershipTypeOK, Info
  <2> QED BY <2>1, FlightsAreFinite, OwnershipAssumption DEF OInv, TriesBounded
<1> QED BY <1>1, OAlways, PTL

\* A verified info is unverified only when its owner deletes or renews it.
THEOREM VerifiedIsKept == OwnershipSpec => VerifiedStays
<1> DEFINE A == \A i \in Infos :
                   info[i].status = "verified" =>
                       \/ info'[i].status \in {"verified", "deleted"}
                       \/ info'[i].token > info[i].token
<1>1. OInv /\ [OwnershipNext]_ownershipVars => [A]_ownershipVars
  <2> SUFFICES ASSUME OInv, OwnershipNext, NEW i \in Infos, info[i].status = "verified"
               PROVE  \/ info'[i].status \in {"verified", "deleted"}
                      \/ info'[i].token > info[i].token
    BY DEF ownershipVars
  <2>1. info \in [Infos -> Info] /\ info[i] \in Info
    BY DEF OInv, OwnershipTypeOK
  <2>2. CASE UNCHANGED info
    BY <2>2
  <2>3. ASSUME NEW j \in Infos, CreateExtensionInfo(j) \/ RejectExtensionInfo(j)
        PROVE  info'[i].status = "verified"
    BY <2>1, <2>3 DEF CreateExtensionInfo, RejectExtensionInfo
  <2>4. ASSUME NEW j \in Infos, RenewExtensionInfo(j)
        PROVE  info'[i].status = "verified" \/ info'[i].token > info[i].token
    <3>1. PICK mode \in Modes[j] : info' = [info EXCEPT ![j] = Reset(mode, info[j].token + 1)]
      BY <2>4 DEF RenewExtensionInfo
    <3>2. i = j => info'[i].token = info[i].token + 1
      BY <2>1, <3>1 DEF Reset
    <3> QED BY <2>1, <3>1, <3>2, OwnershipAssumption DEF Info, Token
  <2>5. ASSUME NEW j \in Infos, DeleteExtensionInfo(j)
        PROVE  info'[i].status \in {"verified", "deleted"}
    BY <2>1, <2>5 DEF DeleteExtensionInfo, Info
  <2>6. ASSUME NEW d \in Checks, CountTry(d) \/ MarkVerified(d)
        PROVE  info'[i].status = "verified"
    BY <2>1, <2>6 DEF CountTry, MarkVerified, Info
  <2>7. ASSUME NEW d \in Checks, NEW j \in Infos,
               LoadForCheck(d, j) \/ ApproveExtensionInfo(d, j)
        PROVE  UNCHANGED info
    BY <2>7 DEF LoadForCheck, ApproveExtensionInfo
  <2>8. ASSUME NEW j \in Infos, NEW t \in Token, Show(j, t)
        PROVE  UNCHANGED info
    BY <2>8 DEF Show
  <2>9. ASSUME NEW d \in Checks,
               LookUp(d) \/ ReadTries(d) \/ CompareCode(d) \/ LoadForMark(d) \/ AbortCheck(d)
        PROVE  UNCHANGED info
    BY <2>9 DEF LookUp, ReadTries, CompareCode, LoadForMark, AbortCheck
  <2> QED BY <2>2, <2>3, <2>4, <2>5, <2>6, <2>7, <2>8, <2>9 DEF OwnershipNext
<1> QED BY <1>1, OAlways, PTL DEF OwnershipSpec, VerifiedStays

-----------------------------------------------------------------------------
(* The quota of a subscription *)

Working == WorkerPC \ {"idle", "order"}

\* A request that reserved a unit holds the lock, so that there is one such request.
LockHeld ==
    \A w \in Workers : /\ worker[w].sub # NoSub => mu = w
                       /\ worker[w].counted => worker[w].sub # NoSub

\* The order in the hands of a request is there, and belongs to the subscription reserved.
OrderInHand ==
    \A w \in Workers :
        worker[w].pc \in Working =>
            /\ worker[w].order \in CertOrders
            /\ order[worker[w].order].status # "none"
            /\ worker[w].sub # NoSub => order[worker[w].order].sub = worker[w].sub

OrderInRow ==
    \A a \in Apps : app[a].state # "none" => /\ app[a].order \in CertOrders
                                             /\ order[app[a].order].status # "none"

AppInHand == \A r \in Reviewers : reviewer[r] # NoApp => app[reviewer[r]].state # "none"

\* What does not count any longer was released.
ReleasedStates ==
    \A a \in Apps :
        app[a].state = "rejected" \/ (RevokeReleases /\ app[a].state = "revoked")
            => app[a].released

\* Units of a subscription that were reserved and never released.
Reserved(s) == {a \in Apps : Unit(a, s) /\ app[a].reserved /\ ~app[a].released}

\* A request that has counted, and has yet to insert its application, has room for it.
Reserving(w, s) ==
    worker[w].sub = s /\ worker[w].counted /\ worker[w].pc \in {"order", "pay", "check", "insert"}

RoomForAll ==
    \A s \in Subs :
        /\ Cardinality(Reserved(s)) <= Quota
        /\ (\E w \in Workers : Reserving(w, s)) => Cardinality(Reserved(s)) < Quota

QInv ==
    /\ QuotaTypeOK /\ LockHeld /\ OrderInHand /\ OrderInRow /\ AppInHand
    /\ ReleasedStates /\ RoomForAll

LEMMA RestType ==
    /\ Resting \in WorkerState /\ Resting.pc = "idle" /\ Resting.sub = NoSub
    /\ ~Resting.counted
BY DEF Resting, WorkerState, WorkerPC

LEMMA ReservedIsFinite ==
    \A s : IsFiniteSet(Reserved(s)) /\ Cardinality(Reserved(s)) \in Nat
<1> TAKE s
<1>1. Reserved(s) \subseteq Apps /\ IsFiniteSet(Apps)
  BY QuotaAssumption DEF Reserved
<1> QED BY <1>1, FS_Subset, FS_CardinalityType

LEMMA QInitially == QuotaInit => QInv
<1> SUFFICES ASSUME QuotaInit PROVE QInv
  OBVIOUS
<1> USE QuotaAssumption DEF QuotaInit
<1>1. NewApp \in AppRow /\ NewApp.state = "none"
  BY DEF NewApp, AppRow
<1>2. QuotaTypeOK
  BY <1>1, RestType DEF QuotaTypeOK, OrderRow
<1>3. LockHeld /\ OrderInHand /\ OrderInRow /\ AppInHand /\ ReleasedStates
  BY <1>1, RestType DEF LockHeld, OrderInHand, OrderInRow, AppInHand, ReleasedStates, Working
<1>4. RoomForAll
  <2>1. \A s : Reserved(s) = {}
    BY <1>1 DEF Reserved, Unit
  <2>2. \A w \in Workers : \A s : ~Reserving(w, s)
    BY RestType DEF Reserving
  <2> QED BY <2>1, <2>2, FS_EmptySet DEF RoomForAll
<1> QED BY <1>2, <1>3, <1>4 DEF QInv

-----------------------------------------------------------------------------
(* Room *)

\* Nobody starts to reserve and no unit is added.
LEMMA RoomStays ==
    ASSUME QInv,
           \A s \in Subs : Reserved(s)' \subseteq Reserved(s),
           \A s \in Subs, w \in Workers : Reserving(w, s)' => Reserving(w, s)
    PROVE  RoomForAll'
<1> SUFFICES ASSUME NEW s \in Subs
             PROVE  /\ Cardinality(Reserved(s)') <= Quota
                    /\ (\E w \in Workers : Reserving(w, s)') => Cardinality(Reserved(s)') < Quota
  BY DEF RoomForAll
<1>1. Cardinality(Reserved(s)') <= Cardinality(Reserved(s))
      /\ Cardinality(Reserved(s)') \in Nat /\ Cardinality(Reserved(s)) \in Nat
  BY ReservedIsFinite, FS_Subset, FS_CardinalityType
<1>2. Cardinality(Reserved(s)) <= Quota
      /\ ((\E w \in Workers : Reserving(w, s)) => Cardinality(Reserved(s)) < Quota)
  BY DEF QInv, RoomForAll
<1> QED BY <1>1, <1>2, QuotaAssumption

\* A step that leaves the applications alone, and the subscriptions of the orders they are for.
LEMMA UnitsStay ==
    ASSUME QInv, UNCHANGED app,
           \A o \in CertOrders : order[o].status # "none" => order'[o].sub = order[o].sub
    PROVE  \A s \in Subs : Reserved(s)' = Reserved(s)
BY DEF QInv, OrderInRow, Reserved, Unit

-----------------------------------------------------------------------------
(* Steps *)

\* The request of worker w goes on, or ends, while the rows stay.
LEMMA WorkerStep ==
    ASSUME QInv, NEW w \in Workers, NEW k \in WorkerState,
           worker' = [worker EXCEPT ![w] = k], UNCHANGED <<tableVars, reviewer>>,
           mishaps' \in 0 .. MaxMishaps,
           k.sub \in {NoSub, worker[w].sub},
           mu' = mu \/ (mu' = Nobody /\ mu = w /\ k.sub = NoSub),
           k.pc \in Working => /\ k.order \in CertOrders /\ order[k.order].status # "none"
                               /\ k.sub # NoSub => order[k.order].sub = k.sub,
           k.counted => k.sub # NoSub,
           \A s \in Subs :
               k.sub = s /\ k.counted /\ k.pc \in {"order", "pay", "check", "insert"}
                   => Reserving(w, s)
    PROVE  QInv'
<1> USE QuotaAssumption DEF tableVars
<1>1. worker \in [Workers -> WorkerState]
  BY DEF QInv, QuotaTypeOK
<1>2. QuotaTypeOK'
  BY <1>1 DEF QInv, QuotaTypeOK
<1>3. LockHeld'
  BY <1>1 DEF QInv, LockHeld
<1>4. OrderInHand'
  BY <1>1 DEF QInv, OrderInHand
<1>5. OrderInRow' /\ AppInHand' /\ ReleasedStates'
  BY DEF QInv, OrderInRow, AppInHand, ReleasedStates
<1>6. RoomForAll'
  <2>1. \A s \in Subs : Reserved(s)' = Reserved(s)
    BY UnitsStay
  <2>2. \A s \in Subs, v \in Workers : Reserving(v, s)' => Reserving(v, s)
    BY <1>1 DEF Reserving
  <2> QED BY <2>1, <2>2, RoomStays
<1> QED BY <1>2, <1>3, <1>4, <1>5, <1>6 DEF QInv

LEMMA LeaveStep ==
    ASSUME QInv, NEW w \in Workers, Leave(w), UNCHANGED <<tableVars, reviewer>>,
           mishaps' \in 0 .. MaxMishaps
    PROVE  QInv'
<1>1. worker' = [worker EXCEPT ![w] = Resting] /\ Resting.pc \notin Working
      /\ (mu' = mu \/ (mu' = Nobody /\ mu = w))
  BY RestType DEF Leave, Working
<1> QED BY <1>1, RestType, WorkerStep

LEMMA GiveUpStep ==
    ASSUME QInv, NEW w \in Workers, GiveUp(w), worker[w].pc \in Working,
           UNCHANGED <<tableVars, reviewer>>, mishaps' \in 0 .. MaxMishaps
    PROVE  QInv'
<1>1. CASE worker[w].sub # NoSub
  <2> DEFINE k == [worker[w] EXCEPT !.pc = "cancel"]
  <2>1. worker[w] \in WorkerState
    BY DEF QInv, QuotaTypeOK
  <2>2. /\ k \in WorkerState /\ k.pc = "cancel" /\ k.sub = worker[w].sub
        /\ k.order = worker[w].order
    BY <2>1 DEF WorkerState, WorkerPC
  <2>3. worker' = [worker EXCEPT ![w] = k] /\ mu' = mu
    BY <1>1 DEF GiveUp
  <2>4. /\ k.order \in CertOrders /\ order[k.order].status # "none"
        /\ k.sub # NoSub => order[k.order].sub = k.sub
    BY <2>2 DEF QInv, OrderInHand
  <2>5. k.counted => k.sub # NoSub
    BY <1>1, <2>2
  <2>6. k.pc \notin {"order", "pay", "check", "insert"}
    BY <2>2
  <2> HIDE DEF k
  <2> QED BY <2>2, <2>3, <2>4, <2>5, <2>6, WorkerStep
<1>2. CASE worker[w].sub = NoSub
  BY <1>2, LeaveStep DEF GiveUp
<1> QED BY <1>1, <1>2

\* A request begins to reserve: nobody else does, and there is room for one more.
LEMMA ReserveStep ==
    ASSUME QInv, NEW w \in Workers, NEW s \in Subs, Reserve(w, s)
    PROVE  QInv'
<1> USE QuotaAssumption DEF Reserve, Admit, tableVars
<1>1. worker \in [Workers -> WorkerState]
  BY DEF QInv, QuotaTypeOK
<1>0. PICK counted \in BOOLEAN :
          /\ HasRoom(s, counted)
          /\ worker' = [worker EXCEPT ![w] = [pc |-> "order", sub |-> s, order |-> NoOrder,
                                             counted |-> counted]]
  OBVIOUS
<1> DEFINE k == [pc |-> "order", sub |-> s, order |-> NoOrder, counted |-> counted]
<1>2. k \in WorkerState /\ k.pc = "order" /\ k.sub = s /\ k.counted = counted
  BY DEF WorkerState, WorkerPC
<1>3. worker' = [worker EXCEPT ![w] = k]
  BY <1>0
<1> HIDE DEF k
<1>31. mishaps' \in 0 .. MaxMishaps
  BY <1>0 DEF QInv, QuotaTypeOK, HasRoom, Mishap
<1>4. QuotaTypeOK'
  BY <1>1, <1>2, <1>3, <1>31 DEF QInv, QuotaTypeOK
<1>5. \A v \in Workers : worker[v].sub = NoSub
  BY DEF QInv, LockHeld
<1>6. LockHeld'
  <2> SUFFICES ASSUME NEW v \in Workers
               PROVE  /\ worker'[v].sub # NoSub => mu' = v
                      /\ worker'[v].counted => worker'[v].sub # NoSub
    BY DEF LockHeld
  <2>1. CASE v = w
    BY <1>1, <1>2, <1>3, <2>1
  <2>2. CASE v # w
    BY <1>1, <1>3, <1>5, <2>2 DEF QInv, LockHeld
  <2> QED BY <2>1, <2>2
<1>7. OrderInHand' /\ OrderInRow' /\ AppInHand' /\ ReleasedStates'
  BY <1>1, <1>2, <1>3
     DEF QInv, OrderInHand, OrderInRow, AppInHand, ReleasedStates, Working
<1>8. RoomForAll'
  <2> SUFFICES ASSUME NEW t \in Subs
               PROVE  /\ Cardinality(Reserved(t)') <= Quota
                      /\ (\E v \in Workers : Reserving(v, t)')
                           => Cardinality(Reserved(t)') < Quota
    BY DEF RoomForAll
  <2>1. Reserved(t)' = Reserved(t) /\ Cardinality(Reserved(t)) <= Quota
    BY UnitsStay DEF QInv, RoomForAll
  <2>2. CASE t = s /\ counted
    <3>0. Cardinality(Uses(s)) < Quota
      BY <1>0, <2>2 DEF HasRoom
    <3>1. Reserved(s) \subseteq Uses(s)
      BY DEF QInv, ReleasedStates, Reserved, Uses
    <3>2. Uses(s) \subseteq Apps
      BY DEF Uses
    <3>3. IsFiniteSet(Uses(s)) /\ Cardinality(Uses(s)) \in Nat
      BY <3>2, FS_Subset, FS_CardinalityType
    <3>4. Cardinality(Reserved(s)) <= Cardinality(Uses(s))
      BY <3>1, <3>3, FS_Subset
    <3> QED BY <2>1, <2>2, <3>0, <3>3, <3>4, ReservedIsFinite
  <2>3. CASE ~(t = s /\ counted)
    <3>1. \A v \in Workers : ~Reserving(v, t)'
      BY <1>1, <1>2, <1>3, <1>5, <2>3 DEF Reserving
    <3> QED BY <2>1, <3>1
  <2> QED BY <2>2, <2>3
<1> QED BY <1>4, <1>6, <1>7, <1>8 DEF QInv

\* One order is written, and the request that writes it may go on: the order keeps its
\* subscription unless it is new.
LEMMA OrderStep ==
    ASSUME QInv, NEW o \in CertOrders, NEW r \in OrderRow, r.status # "none",
           order[o].status # "none" => r.sub = order[o].sub,
           order' = [order EXCEPT ![o] = r],
           UNCHANGED <<sub, app, reviewer, mishaps>>,
           \/ UNCHANGED <<worker, mu>>
           \/ \E w \in Workers :
                 \/ Leave(w)
                 \/ /\ UNCHANGED mu
                    /\ \E k \in WorkerState :
                          /\ worker' = [worker EXCEPT ![w] = k]
                          /\ k.sub = worker[w].sub /\ k.counted = worker[w].counted
                          /\ k.pc \in {"pay", "check"}
                          /\ worker[w].pc \in {"order", "pay"}
                          /\ k.order = o /\ (k.sub # NoSub => r.sub = k.sub)
    PROVE  QInv'
<1> USE QuotaAssumption
<1>1. /\ order \in [CertOrders -> OrderRow] /\ worker \in [Workers -> WorkerState]
      /\ \A q \in CertOrders : order'[q] = IF q = o THEN r ELSE order[q]
  BY DEF QInv, QuotaTypeOK
<1>2. worker' \in [Workers -> WorkerState] /\ mu' \in Workers \cup {Nobody}
  BY <1>1, RestType DEF QInv, QuotaTypeOK, Leave
<1>3. QuotaTypeOK'
  BY <1>1, <1>2 DEF QInv, QuotaTypeOK
<1>4. LockHeld'
  BY <1>1, RestType DEF QInv, LockHeld, Leave
<1>5. OrderInHand'
  <2>1. CASE UNCHANGED <<worker, mu>>
    BY <1>1, <2>1 DEF QInv, OrderInHand
  <2>2. ASSUME NEW w \in Workers, Leave(w) PROVE OrderInHand'
    BY <1>1, <2>2, RestType DEF QInv, OrderInHand, Leave, Working
  <2>3. ASSUME NEW w \in Workers, NEW k \in WorkerState,
               worker' = [worker EXCEPT ![w] = k],
               k.order = o, k.sub # NoSub => r.sub = k.sub
        PROVE  OrderInHand'
    BY <1>1, <2>3 DEF QInv, OrderInHand
  <2> QED BY <2>1, <2>2, <2>3
<1>6. OrderInRow' /\ AppInHand' /\ ReleasedStates'
  BY <1>1 DEF QInv, OrderInRow, AppInHand, ReleasedStates
<1>7. RoomForAll'
  <2>1. \A s \in Subs : Reserved(s)' = Reserved(s)
    BY <1>1, UnitsStay
  <2>2. \A s \in Subs, v \in Workers : Reserving(v, s)' => Reserving(v, s)
    BY <1>1, RestType DEF Reserving, Leave
  <2> QED BY <2>1, <2>2, RoomStays
<1> QED BY <1>3, <1>4, <1>5, <1>6, <1>7 DEF QInv

\* An application changes its state: it is not added, and may be released.
LEMMA AppStep ==
    ASSUME QInv, NEW a \in Apps, NEW r \in AppRow, app[a].state # "none", r.state # "none",
           r.order = app[a].order, r.reserved = app[a].reserved,
           app[a].released => r.released,
           r.state = "rejected" \/ (RevokeReleases /\ r.state = "revoked") => r.released,
           app' = [app EXCEPT ![a] = r],
           NEW q \in OrderRow, q.sub = order[app[a].order].sub, q.status # "none",
           order' = [order EXCEPT ![app[a].order] = q],
           reviewer' \in [Reviewers -> Apps \cup {NoApp}],
           \A v \in Reviewers : reviewer'[v] \in {reviewer[v], NoApp},
           UNCHANGED <<sub, mu, worker, mishaps>>
    PROVE  QInv'
<1> USE QuotaAssumption
<1>1. /\ app \in [Apps -> AppRow] /\ order \in [CertOrders -> OrderRow]
      /\ app[a].order \in CertOrders
  BY DEF QInv, QuotaTypeOK, OrderInRow
<1>2. /\ \A b \in Apps : app'[b] = IF b = a THEN r ELSE app[b]
      /\ \A o \in CertOrders : order'[o].sub = order[o].sub
      /\ \A o \in CertOrders : order[o].status # "none" => order'[o].status # "none"
  BY <1>1
<1>3. QuotaTypeOK'
  BY <1>1 DEF QInv, QuotaTypeOK
<1>4. LockHeld' /\ OrderInHand'
  BY <1>1, <1>2 DEF QInv, LockHeld, OrderInHand
<1>5. OrderInRow' /\ AppInHand' /\ ReleasedStates'
  BY <1>1, <1>2 DEF QInv, OrderInRow, AppInHand, ReleasedStates
<1>6. RoomForAll'
  <2>1. \A s \in Subs : Reserved(s)' \subseteq Reserved(s)
    BY <1>1, <1>2 DEF QInv, OrderInRow, Reserved, Unit
  <2>2. \A s \in Subs, v \in Workers : Reserving(v, s)' => Reserving(v, s)
    BY DEF Reserving
  <2> QED BY <2>1, <2>2, RoomStays
<1> QED BY <1>3, <1>4, <1>5, <1>6 DEF QInv

\* An application is inserted: the request that reserved had room for it, and reserves no more.
LEMMA InsertStep ==
    ASSUME QInv, NEW w \in Workers, InsertApplication(w)
    PROVE  QInv'
<1> USE QuotaAssumption DEF InsertApplication
<1> DEFINE a == FirstOf(FreeApps)
           r == [state |-> "pending", order |-> worker[w].order,
                 reserved |-> worker[w].counted, released |-> FALSE]
           k == [worker[w] EXCEPT !.pc = "advance"]
<1>1. app \in [Apps -> AppRow] /\ worker \in [Workers -> WorkerState] /\ worker[w] \in WorkerState
  BY DEF QInv, QuotaTypeOK
<1>2. a \in Apps /\ app[a].state = "none"
  BY DEF FirstOf, FreeApps
<1>3. worker[w].order \in CertOrders /\ order[worker[w].order].status # "none"
      /\ (worker[w].sub # NoSub => order[worker[w].order].sub = worker[w].sub)
  BY DEF QInv, OrderInHand, Working, WorkerPC
<1>4. r \in AppRow /\ r.state = "pending" /\ r.order = worker[w].order
      /\ r.reserved = worker[w].counted /\ ~r.released
  BY <1>1, <1>3 DEF AppRow, WorkerState
<1>5. k \in WorkerState /\ k.pc = "advance" /\ k.sub = worker[w].sub /\ k.order = worker[w].order
  BY <1>1 DEF WorkerState, WorkerPC
<1>6. app' = [app EXCEPT ![a] = r] /\ worker' = [worker EXCEPT ![w] = k]
      /\ UNCHANGED <<sub, order, mu, reviewer, mishaps>>
  OBVIOUS
<1> HIDE DEF a, r, k
<1>7. QuotaTypeOK'
  BY <1>1, <1>2, <1>4, <1>5, <1>6 DEF QInv, QuotaTypeOK
<1>8. LockHeld' /\ OrderInHand'
  BY <1>1, <1>3, <1>5, <1>6 DEF QInv, LockHeld, OrderInHand
<1>9. OrderInRow' /\ AppInHand' /\ ReleasedStates'
  BY <1>1, <1>2, <1>3, <1>4, <1>6
     DEF QInv, QuotaTypeOK, OrderInRow, AppInHand, ReleasedStates
<1>10. RoomForAll'
  <2> SUFFICES ASSUME NEW s \in Subs
               PROVE  /\ Cardinality(Reserved(s)') <= Quota
                      /\ (\E v \in Workers : Reserving(v, s)')
                           => Cardinality(Reserved(s)') < Quota
    BY DEF RoomForAll
  <2>1. Cardinality(Reserved(s)) \in Nat /\ Cardinality(Reserved(s)) <= Quota
        /\ ((\E v \in Workers : Reserving(v, s)) => Cardinality(Reserved(s)) < Quota)
    BY ReservedIsFinite DEF QInv, RoomForAll
  <2>2. CASE worker[w].sub = s /\ worker[w].counted
    <3>1. Reserved(s)' = Reserved(s) \cup {a}
      BY <1>1, <1>2, <1>3, <1>4, <1>6, <2>2 DEF Reserved, Unit
    <3>2. a \notin Reserved(s)
      BY <1>2 DEF Reserved, Unit
    <3>3. Cardinality(Reserved(s)') = Cardinality(Reserved(s)) + 1
      BY <3>1, <3>2, ReservedIsFinite, FS_AddElement
    <3>4. Reserving(w, s)
      BY <2>2 DEF Reserving
    <3>5. \A v \in Workers : ~Reserving(v, s)'
      <4> SUFFICES ASSUME NEW v \in Workers, Reserving(v, s)' PROVE FALSE
        OBVIOUS
      <4>1. v # w
        BY <1>1, <1>5, <1>6 DEF Reserving
      <4>2. worker[v].sub = s
        BY <1>1, <1>6, <4>1 DEF Reserving
      <4> QED BY <2>2, <4>1, <4>2 DEF QInv, LockHeld
    <3> QED BY <2>1, <3>3, <3>4, <3>5
  <2>3. CASE ~(worker[w].sub = s /\ worker[w].counted)
    <3>0. ~(r.reserved /\ order[r.order].sub = s)
      <4>1. worker[w].counted => worker[w].sub # NoSub
        BY DEF QInv, LockHeld
      <4> QED BY <1>3, <1>4, <2>3, <4>1, Zenon
    <3>1. Reserved(s)' \subseteq Reserved(s)
      <4> SUFFICES ASSUME NEW b \in Apps, b \in Reserved(s)' PROVE b \in Reserved(s)
        BY DEF Reserved
      <4>1. b # a
        BY <1>1, <1>2, <1>6, <3>0 DEF Reserved, Unit
      <4> QED BY <1>1, <1>6, <4>1 DEF Reserved, Unit
    <3>2. Cardinality(Reserved(s)') <= Cardinality(Reserved(s)) /\ Cardinality(Reserved(s)') \in Nat
      BY <3>1, ReservedIsFinite, FS_Subset, FS_CardinalityType
    <3>3. \A v \in Workers : Reserving(v, s)' => Reserving(v, s)
      BY <1>1, <1>5, <1>6 DEF Reserving
    <3> QED BY <2>1, <3>2, <3>3
  <2> QED BY <2>2, <2>3
<1> QED BY <1>7, <1>8, <1>9, <1>10 DEF QInv

-----------------------------------------------------------------------------
(* The actions *)

LEMMA SubmissionSteps ==
    ASSUME QInv, NEW w \in Workers,
           \/ InsertOrder(w) \/ MarkOrderPaid(w) \/ CheckApplication(w)
           \/ AdvanceOrder(w) \/ CancelFailed(w) \/ SubmissionFails(w)
           \/ \E o \in CertOrders : ApplyForOrder(w, o)
    PROVE  QInv'
<1> USE QuotaAssumption
<1>1. /\ worker[w] \in WorkerState /\ \A o \in CertOrders : order[o] \in OrderRow
      /\ mishaps \in 0 .. MaxMishaps
  BY DEF QInv, QuotaTypeOK
<1>2. worker[w].pc \in Working =>
          /\ worker[w].order \in CertOrders
          /\ order[worker[w].order].status # "none"
          /\ worker[w].sub # NoSub => order[worker[w].order].sub = worker[w].sub
  BY DEF QInv, OrderInHand
<1>3. CASE InsertOrder(w)
  <2> DEFINE o == FirstOf(FreeOrders)
             r == [status |-> "pending", sub |-> worker[w].sub]
             k == [worker[w] EXCEPT !.pc = "pay", !.order = o]
  <2>1. o \in CertOrders /\ order[o].status = "none"
    BY <1>3 DEF InsertOrder, FirstOf, FreeOrders
  <2>2. r \in OrderRow /\ r.status = "pending" /\ r.sub = worker[w].sub
    BY <1>1 DEF OrderRow, WorkerState
  <2>3. k \in WorkerState /\ k.pc = "pay" /\ k.order = o /\ k.sub = worker[w].sub
        /\ k.counted = worker[w].counted
    BY <1>1, <2>1 DEF WorkerState, WorkerPC
  <2>4. /\ order' = [order EXCEPT ![o] = r] /\ worker' = [worker EXCEPT ![w] = k]
        /\ worker[w].pc = "order" /\ UNCHANGED <<sub, app, mu, reviewer, mishaps>>
    BY <1>3 DEF InsertOrder
  <2> HIDE DEF o, r, k
  <2> QED BY <2>1, <2>2, <2>3, <2>4, OrderStep
<1>4. CASE MarkOrderPaid(w)
  <2> DEFINE o == worker[w].order
             r == [order[o] EXCEPT !.status = "paid"]
             k == [worker[w] EXCEPT !.pc = "check"]
  <2>1. o \in CertOrders /\ order[o].status # "none" /\ worker[w].pc = "pay"
        /\ (worker[w].sub # NoSub => order[o].sub = worker[w].sub)
    BY <1>2, <1>4 DEF MarkOrderPaid, Working, WorkerPC
  <2>2. r \in OrderRow /\ r.status = "paid" /\ r.sub = order[o].sub
    BY <1>1, <2>1 DEF OrderRow
  <2>3. k \in WorkerState /\ k.pc = "check" /\ k.order = o /\ k.sub = worker[w].sub
        /\ k.counted = worker[w].counted
    BY <1>1 DEF WorkerState, WorkerPC
  <2>4. /\ order' = [order EXCEPT ![o] = r] /\ worker' = [worker EXCEPT ![w] = k]
        /\ UNCHANGED <<sub, app, mu, reviewer, mishaps>>
    BY <1>4 DEF MarkOrderPaid
  <2> HIDE DEF o, r, k
  <2> QED BY <2>1, <2>2, <2>3, <2>4, OrderStep
<1>5. CASE CheckApplication(w)
  <2> DEFINE k == [worker[w] EXCEPT !.pc = "insert"]
  <2>1. worker[w].pc = "check" /\ worker[w].pc \in Working
    BY <1>5 DEF CheckApplication, Working, WorkerPC
  <2>2. CASE GiveUp(w)
    BY <1>1, <1>5, <2>1, <2>2, GiveUpStep DEF CheckApplication
  <2>3. CASE ~GiveUp(w)
    <3>1. worker' = [worker EXCEPT ![w] = k] /\ UNCHANGED <<tableVars, reviewer, mishaps, mu>>
      BY <1>5, <2>3 DEF CheckApplication
    <3>2. k \in WorkerState /\ k.pc = "insert" /\ k.sub = worker[w].sub
          /\ k.order = worker[w].order /\ k.counted = worker[w].counted
      BY <1>1 DEF WorkerState, WorkerPC
    <3>3. \A s \in Subs : k.sub = s /\ k.counted => Reserving(w, s)
      BY <2>1, <3>2 DEF Reserving
    <3>4. k.counted => k.sub # NoSub
      BY <3>2 DEF QInv, LockHeld
    <3> HIDE DEF k
    <3> QED BY <1>1, <1>2, <2>1, <3>1, <3>2, <3>3, <3>4, WorkerStep
  <2> QED BY <2>2, <2>3
<1>6. ASSUME NEW st \in {"paid", "applying", "cancelled"}, worker[w].pc \in Working, Leave(w),
             LET o == worker[w].order IN
                 order' = [order EXCEPT ![o].status = st] \/ UNCHANGED order,
             UNCHANGED <<sub, app, reviewer, mishaps>>
      PROVE  QInv'
  <2> DEFINE o == worker[w].order
             r == [order[o] EXCEPT !.status = st]
  <2>1. o \in CertOrders /\ order[o].status # "none"
    BY <1>2, <1>6
  <2>2. r \in OrderRow /\ r.status = st /\ r.sub = order[o].sub
    BY <1>1, <2>1 DEF OrderRow
  <2>3. CASE UNCHANGED order
    BY <1>1, <1>6, <2>3, LeaveStep DEF tableVars
  <2>4. CASE order' = [order EXCEPT ![o] = r]
    <3> HIDE DEF o, r
    <3> QED BY <1>6, <2>1, <2>2, <2>4, OrderStep
  <2> QED BY <1>6, <2>3, <2>4
<1>7. CASE AdvanceOrder(w)
  <2>1. worker[w].pc \in Working /\ worker[w].order \in CertOrders
    BY <1>2, <1>7 DEF AdvanceOrder, Working, WorkerPC
  <2>2. CASE order[worker[w].order].status = "paid"
    BY <1>6, <1>7, <2>1, <2>2 DEF AdvanceOrder
  <2>3. CASE order[worker[w].order].status # "paid"
    <3>1. UNCHANGED order
      BY <1>7, <2>1, <2>3 DEF AdvanceOrder, QInv, QuotaTypeOK, OrderRow
    <3> QED BY <1>6, <1>7, <2>1, <3>1 DEF AdvanceOrder
  <2> QED BY <2>2, <2>3
<1>8. CASE CancelFailed(w)
  BY <1>6, <1>8 DEF CancelFailed, Working, WorkerPC
<1>9. CASE SubmissionFails(w)
  <2>1. mishaps' \in 0 .. MaxMishaps
    BY <1>1, <1>9 DEF SubmissionFails, Mishap
  <2> QED BY <1>9, <2>1, LeaveStep, GiveUpStep DEF SubmissionFails, Working, WorkerPC
<1>10. ASSUME NEW o \in CertOrders, ApplyForOrder(w, o) PROVE QInv'
  <2> DEFINE k == [Resting EXCEPT !.pc = "check", !.order = o]
  <2>1. k \in WorkerState /\ k.pc = "check" /\ k.order = o /\ k.sub = NoSub /\ ~k.counted
    BY RestType DEF WorkerState, WorkerPC
  <2>2. order[o].status # "none" /\ worker' = [worker EXCEPT ![w] = k]
        /\ UNCHANGED <<tableVars, mu, reviewer, mishaps>>
    BY <1>10 DEF ApplyForOrder
  <2> HIDE DEF k
  <2> QED BY <1>1, <2>1, <2>2, WorkerStep
<1> QED BY <1>3, <1>4, <1>5, <1>7, <1>8, <1>9, <1>10

LEMMA OtherOrderSteps ==
    ASSUME QInv, \/ \E o \in CertOrders : ResolvePending(o)
                 \/ \E s \in Subs : CancelSubscription(s)
    PROVE  QInv'
<1>1. ASSUME NEW o \in CertOrders, ResolvePending(o) PROVE QInv'
  <2>1. PICK to \in {"paid", "cancelled"} : order' = [order EXCEPT ![o].status = to]
    BY <1>1 DEF ResolvePending
  <2> DEFINE r == [order[o] EXCEPT !.status = to]
  <2>2. order[o] \in OrderRow
    BY DEF QInv, QuotaTypeOK
  <2>3. r \in OrderRow /\ r.status = to /\ r.sub = order[o].sub
    BY <2>2 DEF OrderRow
  <2>4. order' = [order EXCEPT ![o] = r]
    BY <2>1
  <2> HIDE DEF r
  <2> QED BY <1>1, <2>3, <2>4, OrderStep DEF ResolvePending
<1>2. ASSUME NEW s \in Subs, CancelSubscription(s) PROVE QInv'
  <2> USE DEF CancelSubscription
  <2>1. QuotaTypeOK' /\ LockHeld' /\ OrderInHand' /\ OrderInRow' /\ AppInHand' /\ ReleasedStates'
    BY <1>2
       DEF QInv, QuotaTypeOK, LockHeld, OrderInHand, OrderInRow, AppInHand, ReleasedStates
  <2>2. RoomForAll'
    BY <1>2, UnitsStay, RoomStays DEF Reserving
  <2> QED BY <2>1, <2>2 DEF QInv
<1> QED BY <1>1, <1>2

LEMMA ReviewSteps ==
    ASSUME QInv,
           \/ \E r \in Reviewers : Approve(r)
           \/ \E a \in Apps : Reject(a) \/ Revoke(a)
    PROVE  QInv'
<1> USE QuotaAssumption
<1>1. /\ \A a \in Apps : app[a] \in AppRow
      /\ order \in [CertOrders -> OrderRow] /\ reviewer \in [Reviewers -> Apps \cup {NoApp}]
      /\ app \in [Apps -> AppRow]
  BY DEF QInv, QuotaTypeOK
<1>2. \A a \in Apps : app[a].state # "none" =>
          app[a].order \in CertOrders /\ order[app[a].order].status # "none"
  BY DEF QInv, OrderInRow
<1>3. ASSUME NEW v \in Reviewers, Approve(v) PROVE QInv'
  <2> DEFINE a == reviewer[v]
             r == [app[a] EXCEPT !.state = "approved"]
             q == [order[app[a].order] EXCEPT !.status = "completed"]
  <2>1. a \in Apps /\ app[a].state # "none" /\ app[a] \in AppRow
    BY <1>1, <1>3 DEF Approve, QInv, AppInHand
  <2>2. r \in AppRow /\ r.state = "approved" /\ r.order = app[a].order
        /\ r.reserved = app[a].reserved /\ r.released = app[a].released
    BY <2>1 DEF AppRow
  <2>3. order[app[a].order] \in OrderRow
    BY <1>1, <1>2, <2>1
  <2>4. q \in OrderRow /\ q.status = "completed" /\ q.sub = order[app[a].order].sub
    BY <2>3 DEF OrderRow
  <2>5. /\ app' = [app EXCEPT ![a] = r] /\ order' = [order EXCEPT ![app[a].order] = q]
        /\ reviewer' = [reviewer EXCEPT ![v] = NoApp]
        /\ UNCHANGED <<sub, mu, worker, mishaps>>
    BY <1>3 DEF Approve
  <2>6. reviewer' \in [Reviewers -> Apps \cup {NoApp}]
        /\ \A u \in Reviewers : reviewer'[u] \in {reviewer[u], NoApp}
    BY <1>1, <2>5
  <2> HIDE DEF a, r, q
  <2> QED BY <2>1, <2>2, <2>4, <2>5, <2>6, AppStep
<1>4. ASSUME NEW a \in Apps, Reject(a) PROVE QInv'
  <2> DEFINE o == app[a].order
             r == [app[a] EXCEPT !.state = "rejected", !.released = TRUE]
             q == IF order[o].status = "applying"
                     /\ ~\E b \in Apps \ {a} : app[b].order = o /\ app[b].state = "pending"
                  THEN [order[o] EXCEPT !.status = "paid"] ELSE order[o]
  <2>1. app[a].state # "none" /\ o \in CertOrders /\ order[o].status # "none"
        /\ order[o] \in OrderRow
    BY <1>1, <1>2, <1>4 DEF Reject
  <2>2. r \in AppRow /\ r.state = "rejected" /\ r.order = o
        /\ r.reserved = app[a].reserved /\ r.released
    BY <1>1 DEF AppRow
  <2>3. q \in OrderRow /\ q.status # "none" /\ q.sub = order[o].sub
    BY <2>1 DEF OrderRow
  <2>4. app' = [app EXCEPT ![a] = r] /\ UNCHANGED <<sub, mu, worker, reviewer, mishaps>>
    BY <1>4 DEF Reject
  <2>5. order' = [order EXCEPT ![o] = q]
    BY <1>1, <1>4, <2>1 DEF Reject
  <2> HIDE DEF r, q
  <2> QED BY <1>1, <2>1, <2>2, <2>3, <2>4, <2>5, AppStep
<1>5. ASSUME NEW a \in Apps, Revoke(a) PROVE QInv'
  <2> DEFINE o == app[a].order
             r == [app[a] EXCEPT !.state = "revoked", !.released = @ \/ RevokeReleases]
  <2>1. app[a].state # "none" /\ o \in CertOrders /\ order[o].status # "none"
        /\ order[o] \in OrderRow
    BY <1>1, <1>2, <1>5 DEF Revoke
  <2>2. r \in AppRow /\ r.state = "revoked" /\ r.order = o
        /\ r.reserved = app[a].reserved /\ r.released = (app[a].released \/ RevokeReleases)
    BY <1>1 DEF AppRow
  <2>3. (app[a].released => r.released)
        /\ (r.state = "rejected" \/ (RevokeReleases /\ r.state = "revoked") => r.released)
    BY <2>2, Zenon
  <2>4. app' = [app EXCEPT ![a] = r] /\ UNCHANGED <<sub, order, mu, worker, reviewer, mishaps>>
    BY <1>5 DEF Revoke
  <2>5. order' = [order EXCEPT ![o] = order[o]]
    BY <1>1, <2>4
  <2> HIDE DEF r
  <2> QED BY <1>1, <2>1, <2>2, <2>3, <2>4, <2>5, AppStep
<1> QED BY <1>3, <1>4, <1>5

\* An approval begins or fails, or everything that runs is cut off.
LEMMA OtherSteps ==
    ASSUME QInv,
           \/ \E r \in Reviewers : IssuanceFails(r) \/ \E a \in Apps : LoadApproval(r, a)
           \/ Restart
    PROVE  QInv'
<1> USE QuotaAssumption DEF tableVars
<1>1. UNCHANGED tableVars /\ mishaps' \in 0 .. MaxMishaps
  BY DEF QInv, QuotaTypeOK, IssuanceFails, LoadApproval, Restart, Mishap
<1>2. reviewer' \in [Reviewers -> Apps \cup {NoApp}] /\ AppInHand'
  BY DEF QInv, QuotaTypeOK, AppInHand, IssuanceFails, LoadApproval, Restart
<1>3. \/ UNCHANGED <<worker, mu>>
      \/ worker' = [w \in Workers |-> Resting] /\ mu' = Nobody
  BY DEF IssuanceFails, LoadApproval, Restart
<1>4. QuotaTypeOK'
  BY <1>1, <1>2, <1>3, RestType DEF QInv, QuotaTypeOK
<1>5. LockHeld' /\ OrderInHand' /\ OrderInRow' /\ ReleasedStates'
  BY <1>1, <1>3, RestType
     DEF QInv, LockHeld, OrderInHand, OrderInRow, ReleasedStates, Working
<1>6. RoomForAll'
  <2>1. \A s \in Subs, w \in Workers : Reserving(w, s)' => Reserving(w, s)
    BY <1>3, RestType DEF Reserving
  <2> QED BY <1>1, <2>1, UnitsStay, RoomStays
<1> QED BY <1>2, <1>4, <1>5, <1>6 DEF QInv

LEMMA QStep == QInv /\ [QuotaNext]_quotaVars => QInv'
<1> SUFFICES ASSUME QInv, [QuotaNext]_quotaVars PROVE QInv'
  OBVIOUS
<1>1. CASE UNCHANGED quotaVars
  BY <1>1 DEF quotaVars, tableVars, QInv, QuotaTypeOK, LockHeld, OrderInHand, OrderInRow,
              AppInHand, ReleasedStates, RoomForAll, Reserved, Reserving, Unit
<1>2. CASE Submission
  BY <1>2, ReserveStep, SubmissionSteps, InsertStep, OtherOrderSteps DEF Submission
<1>3. CASE Review
  BY <1>3, ReviewSteps, OtherSteps DEF Review
<1>4. CASE Mishaps
  BY <1>4, SubmissionSteps, OtherSteps DEF Mishaps
<1> QED BY <1>1, <1>2, <1>3, <1>4 DEF QuotaNext

LEMMA QAlways == QuotaSpec => []QInv
BY QInitially, QStep, PTL DEF QuotaSpec

-----------------------------------------------------------------------------
(* The theorems *)

\* Tables, lock and requests have their types.
THEOREM QuotaTypes == QuotaSpec => []QuotaTypeOK
<1>1. QInv => QuotaTypeOK
  BY DEF QInv
<1> QED BY <1>1, QAlways, PTL

\* However many requests reserve at once, and whatever fails, what was admitted by a count of
\* the quota, and nobody released, stays within it.
THEOREM ReservedStaysWithin == QuotaSpec => []ReservedWithinQuota
<1>1. QInv => ReservedWithinQuota
  <2> SUFFICES ASSUME QInv, NEW s \in Subs
               PROVE  Cardinality({a \in Uses(s) : app[a].reserved /\ ~app[a].released})
                        <= Quota
    BY DEF ReservedWithinQuota
  <2>1. {a \in Uses(s) : app[a].reserved /\ ~app[a].released} = Reserved(s)
    BY DEF QInv, ReleasedStates, Uses, Reserved
  <2> QED BY <2>1 DEF QInv, RoomForAll
<1> QED BY <1>1, QAlways, PTL
=============================================================================
