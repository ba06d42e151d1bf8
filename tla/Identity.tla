------------------------------ MODULE Identity ------------------------------
(***************************************************************************)
(* Verification of subjects: a user submits the data of a subject and has  *)
(* it reviewed by an administrator or confirmed by an identity provider    *)
(* (verification/service.go, identity/provider.go and its drivers, and     *)
(* api/handler_verification.go).  Sessions at the provider, its answers,   *)
(* the reviews and the resubmissions of the user run side by side.         *)
(*                                                                         *)
(* A desk is one request of the server: the statement it runs next, and    *)
(* what it carries from the statements before.                             *)
(***************************************************************************)
EXTENDS Integers

CONSTANTS
    Subjects,       \* rows of subject_infos
    Sessions,       \* rows of identity_sessions
    Desks,          \* concurrent requests
    FirstStatus,    \* [Subjects -> set of status], what prepareSubject makes of the template
    Polled,         \* the driver asks the provider (alipay, wechat_faceid), or is told (callback)
    NoSubject, NoSession,
    MaxResubmits    \* bound: resubmissions of a subject

ASSUME IdentityAssumption ==
    /\ FirstStatus \in [Subjects -> SUBSET {"approved", "pending", "verifying"}]
    /\ Polled \in BOOLEAN /\ MaxResubmits \in Nat
    /\ NoSubject \notin Subjects /\ NoSession \notin Sessions

VARIABLES
    subject,        \* subject_infos
    session,        \* identity_sessions
    verdict,        \* of the provider on a session
    desk

identityVars == <<subject, session, verdict, desk>>

-----------------------------------------------------------------------------
Status == {"none", "deleted", "pending", "verifying", "approved", "rejected"}

\* by is reviewed_by; version counts the submissions, for the properties: so does that of a
\* session, which is the submission whose fields the provider was given.
Subject == [status : Status, by : {"nobody", "system", "admin", "identity"},
            version : 0 .. MaxResubmits]

Session == [status : {"none", "pending", "passed", "failed"}, expired : BOOLEAN,
            subject : Subjects \cup {NoSubject}, version : 0 .. MaxResubmits]

DeskPC == {"idle", "insert", "start", "startFailed", "session", "decide", "apply", "approve"}

\* read is the status of the subject that approveSubject has read.
Desk == [pc : DeskPC, subject : Subjects \cup {NoSubject}, session : Sessions \cup {NoSession},
         passed : BOOLEAN, read : Status, by : {"nobody", "admin", "identity"},
         version : 0 .. MaxResubmits]

Idle == [pc |-> "idle", subject |-> NoSubject, session |-> NoSession, passed |-> FALSE,
         read |-> "none", by |-> "nobody", version |-> 0]

NoSubmission == [status |-> "none", by |-> "nobody", version |-> 0]

NewSession == [status |-> "none", expired |-> FALSE, subject |-> NoSubject, version |-> 0]

\* What is written for submission v of s: the templates may be edited between two of them.
\* A submission that waits keeps the reviewer of the one before.
Submissions(s, v, by) ==
    {[status |-> st, version |-> v, by |-> IF st = "approved" THEN "system" ELSE by] :
        st \in FirstStatus[s]}

Exists(s) == subject[s].status \notin {"none", "deleted"}

Undecided == {"pending", "verifying"}

GoTo(d, pc) == desk' = [desk EXCEPT ![d].pc = pc]

Return(d) == desk' = [desk EXCEPT ![d] = Idle]

-----------------------------------------------------------------------------
(* The user *)

CreateSubjectInfo(s) ==
    /\ subject[s] = NoSubmission
    /\ \E new \in Submissions(s, 0, "nobody") : subject' = [subject EXCEPT ![s] = new]
    /\ UNCHANGED <<session, verdict, desk>>

\* One UPDATE without a condition on the status.
ResubmitSubjectInfo(s) ==
    /\ Exists(s) /\ subject[s].version < MaxResubmits
    /\ \E new \in Submissions(s, subject[s].version + 1, subject[s].by) :
           subject' = [subject EXCEPT ![s] = new]
    /\ UNCHANGED <<session, verdict, desk>>

DeleteSubjectInfo(s) ==
    /\ Exists(s) /\ subject' = [subject EXCEPT ![s].status = "deleted"]
    /\ UNCHANGED <<session, verdict, desk>>

\* handleStartSubjectIdentity: SubjectIdentityProvider refuses other states.  The fields that
\* the provider will check are read here.
LoadForIdentity(d, s) ==
    /\ desk[d] = Idle /\ subject[s].status = "verifying"
    /\ desk' = [desk EXCEPT ![d].pc = "insert", ![d].subject = s, ![d].version = subject[s].version]
    /\ UNCHANGED <<subject, session, verdict>>

\* StartIdentity: the session is inserted before the driver has called the provider.
InsertSession(d) ==
    /\ desk[d].pc = "insert"
    /\ \E n \in Sessions :
           /\ session[n].status = "none"
           /\ session' = [session EXCEPT ![n] = [status |-> "pending", expired |-> FALSE,
                                                 subject |-> desk[d].subject,
                                                 version |-> desk[d].version]]
           /\ desk' = [desk EXCEPT ![d].pc = "start", ![d].session = n]
    /\ UNCHANGED <<subject, verdict>>

DriverStarts(d) ==
    /\ desk[d].pc = "start" /\ Return(d) /\ UNCHANGED <<subject, session, verdict>>

\* The call fails, or its answer is lost.
DriverFails(d) ==
    /\ desk[d].pc = "start" /\ GoTo(d, "startFailed") /\ UNCHANGED <<subject, session, verdict>>

\* An UPDATE by the uuid of the session alone.
FailStart(d) ==
    /\ desk[d].pc = "startFailed"
    /\ session' = [session EXCEPT ![desk[d].session].status = "failed"] /\ Return(d)
    /\ UNCHANGED <<subject, verdict>>

-----------------------------------------------------------------------------
(* The provider *)

\* The user passes or fails the check, once.
ProviderDecides(n) ==
    /\ session[n].status # "none" /\ verdict[n] = "open"
    /\ \E v \in {"passed", "failed"} : verdict' = [verdict EXCEPT ![n] = v]
    /\ UNCHANGED <<subject, session, desk>>

\* Half an hour after the start.
SessionExpires(n) ==
    /\ session[n].status # "none" /\ ~session[n].expired
    /\ session' = [session EXCEPT ![n].expired = TRUE]
    /\ UNCHANGED <<subject, verdict, desk>>

-----------------------------------------------------------------------------
(* handleIdentityCallback and handleIdentityReturn *)

\* The provider tells its verdict, again and again, or is asked for it: then there may be
\* none yet, which reads like a failure.
LearnVerdict(d, n) ==
    /\ desk[d] = Idle /\ session[n].status # "none" /\ (Polled \/ verdict[n] # "open")
    /\ desk' = [desk EXCEPT ![d].pc = "session", ![d].session = n,
                            ![d].passed = (verdict[n] = "passed")]
    /\ UNCHANGED <<subject, session, verdict>>

\* Mutant of LoadSession: a session that is decided counts as passed.
DecidedIsPassed(d) ==
    LET n == session[desk[d].session] IN
    /\ desk[d].pc = "session"
    /\ IF n.status # "pending"
       THEN desk' = [desk EXCEPT ![d].pc = "apply", ![d].subject = n.subject, ![d].passed = TRUE]
       ELSE IF n.expired THEN Return(d)
       ELSE desk' = [desk EXCEPT ![d].pc = "decide", ![d].subject = n.subject]
    /\ UNCHANGED <<subject, session, verdict>>

\* applyCallbackResult: a decided session keeps its result, whatever the answer was now,
\* and an expired one is refused.
LoadSession(d) ==
    LET n == session[desk[d].session] IN
    /\ desk[d].pc = "session"
    /\ IF n.status # "pending"
       THEN desk' = [desk EXCEPT ![d].pc = "apply", ![d].subject = n.subject,
                                 ![d].passed = (n.status = "passed")]
       ELSE IF n.expired THEN Return(d)
       ELSE desk' = [desk EXCEPT ![d].pc = "decide", ![d].subject = n.subject]
    /\ UNCHANGED <<subject, session, verdict>>

\* The UPDATE is conditional; how many rows it changed is not looked at.
DecideSession(d) ==
    /\ desk[d].pc = "decide"
    /\ session' = [session EXCEPT ![desk[d].session].status =
                       IF @ # "pending" THEN @ ELSE IF desk[d].passed THEN "passed" ELSE "failed"]
    /\ GoTo(d, "apply")
    /\ UNCHANGED <<subject, verdict>>

\* RejectSubjectInfoWithReason.
RejectSubject(s, by) ==
    subject' = IF subject[s].status \in Undecided
               THEN [subject EXCEPT ![s].status = "rejected", ![s].by = by] ELSE subject

\* applyIdentityResult: a failure rejects the subject at once, a success goes on to
\* approveSubject, which reads its status.
ApplyResult(d) ==
    LET s == desk[d].subject IN
    /\ desk[d].pc = "apply"
    /\ \/ /\ ~desk[d].passed /\ RejectSubject(s, "identity") /\ Return(d)
       \/ /\ desk[d].passed /\ subject[s].status = "verifying"
          /\ desk' = [desk EXCEPT ![d].pc = "approve", ![d].read = "verifying", ![d].by = "identity"]
          /\ UNCHANGED subject
       \/ desk[d].passed /\ subject[s].status # "verifying" /\ Return(d) /\ UNCHANGED subject
    /\ UNCHANGED <<session, verdict>>

-----------------------------------------------------------------------------
(* The administrators *)

\* ApproveSubjectInfo reads the status ...
LoadForApproval(d, s) ==
    /\ desk[d] = Idle /\ subject[s].status \in Undecided
    /\ desk' = [desk EXCEPT ![d].pc = "approve", ![d].subject = s,
                            ![d].read = subject[s].status, ![d].by = "admin"]
    /\ UNCHANGED <<subject, session, verdict>>

\* Mutant of ApproveSubject: without the condition on the status.
ApproveAnyway(d) ==
    LET s == desk[d].subject IN
    /\ desk[d].pc = "approve"
    /\ subject' = IF Exists(s)
                  THEN [subject EXCEPT ![s].status = "approved", ![s].by = desk[d].by] ELSE subject
    /\ Return(d)
    /\ UNCHANGED <<session, verdict>>

\* ... and approves the subject if it has the status that was read.
ApproveSubject(d) ==
    LET s == desk[d].subject IN
    /\ desk[d].pc = "approve"
    /\ subject' = IF subject[s].status = desk[d].read
                  THEN [subject EXCEPT ![s].status = "approved", ![s].by = desk[d].by] ELSE subject
    /\ Return(d)
    /\ UNCHANGED <<session, verdict>>

RejectSubjectInfo(s) ==
    /\ subject[s].status \in Undecided /\ RejectSubject(s, "admin")
    /\ UNCHANGED <<session, verdict, desk>>

\* A request is cut off between two statements.
Abort(d) == desk[d] # Idle /\ Return(d) /\ UNCHANGED <<subject, session, verdict>>

-----------------------------------------------------------------------------
IdentityInit ==
    /\ subject = [s \in Subjects |-> NoSubmission]
    /\ session = [n \in Sessions |-> NewSession]
    /\ verdict = [n \in Sessions |-> "open"]
    /\ desk = [d \in Desks |-> Idle]

IdentityNext ==
    \/ \E s \in Subjects :
           \/ CreateSubjectInfo(s) \/ ResubmitSubjectInfo(s) \/ DeleteSubjectInfo(s)
           \/ RejectSubjectInfo(s)
           \/ \E d \in Desks : LoadForIdentity(d, s) \/ LoadForApproval(d, s)
    \/ \E n \in Sessions :
           \/ ProviderDecides(n) \/ SessionExpires(n)
           \/ \E d \in Desks : LearnVerdict(d, n)
    \/ \E d \in Desks :
           \/ InsertSession(d) \/ DriverStarts(d) \/ DriverFails(d) \/ FailStart(d)
           \/ LoadSession(d) \/ DecideSession(d) \/ ApplyResult(d) \/ ApproveSubject(d)
           \/ Abort(d)

IdentitySpec == IdentityInit /\ [][IdentityNext]_identityVars

-----------------------------------------------------------------------------
(* Properties *)

\* Types of the tables and of the requests.
IdentityTypeOK ==
    /\ subject \in [Subjects -> Subject] /\ session \in [Sessions -> Session]
    /\ verdict \in [Sessions -> {"open", "passed", "failed"}]
    /\ desk \in [Desks -> Desk]

\* A decision on a submission stands until the user submits again: no approval read from an
\* older state, no repeated or late answer of the provider turns it around
\* (verification/service.go:277-296 and 316-328).
DecisionIsFinal ==
    [][\A s \in Subjects :
          subject[s].status \in {"approved", "rejected"} =>
              \/ subject'[s] = subject[s]
              \/ subject'[s].version > subject[s].version
              \/ subject'[s].status = "deleted"]_identityVars

\* The provider has confirmed submission v of subject s.
ProvedFor(s, v) ==
    \E n \in Sessions :
        session[n].subject = s /\ session[n].version = v /\ verdict[n] = "passed"

ByIdentity(s) == subject[s].status = "approved" /\ subject[s].by = "identity"

\* A subject that counts as confirmed by the provider was confirmed by it, in a session of
\* that subject, however answers, expiry and failed starts are interleaved
\* (identity/provider.go:586-613, api/handler_verification.go:226-242): as it was submitted
\* last, or, if it was submitted again since that session began, as it was before.
IdentityIsProved ==
    \A s \in Subjects :
        ByIdentity(s) =>
            \/ ProvedFor(s, subject[s].version)
            \/ \E v \in 0 .. subject[s].version - 1 : ProvedFor(s, v)

\* A subject that is submitted again enters verification anew, says verification/service.go:200:
\* what was confirmed is what was submitted last.  Not kept: a session of the submission before
\* may still pass, or its callback be repeated, and the approval asks for the status alone
\* (287-296).
ConfirmedAsSubmitted == \A s \in Subjects : ByIdentity(s) => ProvedFor(s, subject[s].version)
=============================================================================
