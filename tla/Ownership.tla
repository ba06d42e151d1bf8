----------------------------- MODULE Ownership -----------------------------
(***************************************************************************)
(* Verification of domains, addresses and mailboxes (extension_infos, in   *)
(* verification/service.go): the owner publishes a token, or types a code  *)
(* that was mailed, and asks for the check; an administrator may approve   *)
(* or reject by hand.  A check is a chain of reads, a lookup in the        *)
(* network and an UPDATE, and checks run side by side with renewals.       *)
(***************************************************************************)
EXTENDS Integers, FiniteSets

CONSTANTS
    Infos,          \* rows of extension_infos
    Mailboxes,      \* those of them with info_type email
    Checks,          \* concurrent requests
    Modes,          \* [Infos -> SUBSET {"none", "manual", "auto"}]: the policies in force in turn
    MaxTries,       \* emailCodeMaxAttempt
    NoInfo,
    MaxRenewals     \* bound: renewals of an info

ASSUME OwnershipAssumption ==
    /\ Mailboxes \subseteq Infos /\ Modes \in [Infos -> SUBSET {"none", "manual", "auto"}]
    /\ MaxTries \in Nat \ {0} /\ MaxRenewals \in Nat /\ NoInfo \notin Infos
    /\ IsFiniteSet(Checks)

VARIABLES
    info,       \* extension_infos
    shown,      \* tokens the owner has published, codes the owner has been mailed
    check

ownershipVars == <<info, shown, check>>

-----------------------------------------------------------------------------
Token == 0 .. MaxRenewals

InfoStatus == {"absent", "pending", "reviewing", "verified", "rejected", "deleted"}

\* The tokens and codes of an info are numbered.  tries is verify_attempts; vouched tells,
\* for the properties, who stands behind a verified info.
Info == [status : InfoStatus, token : Token, tries : Nat,
         vouched : {"nobody", "policy", "admin", "owner"}]

CheckPC == {"idle", "lookup", "tries", "compare", "wrong", "load", "mark"}

Check == [pc : CheckPC, info : Infos \cup {NoInfo}, token : Token,
         vouched : {"nobody", "admin", "owner"}]

NoCheck == [pc |-> "idle", info |-> NoInfo, token |-> 0, vouched |-> "nobody"]

Proceed(d, pc) == check' = [check EXCEPT ![d].pc = pc]

InfoExists(i) == info[i].status \notin {"absent", "deleted"}

EndCheck(d) == check' = [check EXCEPT ![d] = NoCheck]

\* resetVerification.
Reset(mode, token) ==
    [status |-> CASE mode = "none" -> "verified" [] mode = "manual" -> "reviewing"
                  [] mode = "auto" -> "pending",
     token |-> token, tries |-> 0, vouched |-> IF mode = "none" THEN "policy" ELSE "nobody"]

-----------------------------------------------------------------------------
(* The owner *)

CreateExtensionInfo(i) ==
    /\ info[i].status = "absent"
    /\ \E mode \in Modes[i] : info' = [info EXCEPT ![i] = Reset(mode, 0)]
    /\ UNCHANGED <<shown, check>>

\* One UPDATE by the uuid of the info, with a new token.
RenewExtensionInfo(i) ==
    /\ InfoExists(i) /\ info[i].token < MaxRenewals
    /\ \E mode \in Modes[i] : info' = [info EXCEPT ![i] = Reset(mode, info[i].token + 1)]
    /\ UNCHANGED <<shown, check>>

DeleteExtensionInfo(i) ==
    /\ InfoExists(i)
    /\ info' = [info EXCEPT ![i].status = "deleted"]
    /\ UNCHANGED <<shown, check>>

\* The token is read on a page and published; a code arrives by mail, which is sent on the
\* side and may be late.
Show(i, t) ==
    /\ t <= info[i].token /\ <<i, t>> \notin shown
    /\ shown' = shown \cup {<<i, t>>}
    /\ UNCHANGED <<info, check>>

-----------------------------------------------------------------------------
(* VerifyDNSTXT, VerifyHTTP, VerifyTLS and VerifyEmailCode *)

\* requirePending, and what is read with it.
LoadForCheck(d, i) ==
    /\ check[d] = NoCheck /\ info[i].status = "pending"
    /\ check' = [check EXCEPT ![d] = [pc |-> IF i \in Mailboxes THEN "tries" ELSE "lookup",
                                      info |-> i, token |-> info[i].token, vouched |-> "owner"]]
    /\ UNCHANGED <<info, shown>>

\* Mutant of LookUp: any token that was ever published will do.
LookUpAny(d) ==
    /\ check[d].pc = "lookup" /\ Proceed(d, "load")
    /\ UNCHANGED <<info, shown>>

\* The record, file or certificate is looked up in the network.
LookUp(d) ==
    /\ check[d].pc = "lookup"
    /\ IF <<check[d].info, check[d].token>> \in shown THEN Proceed(d, "load") ELSE EndCheck(d)
    /\ UNCHANGED <<info, shown>>

\* Mutant of ReadTries: the limit is not looked at.
ReadTriesInVain(d) ==
    /\ check[d].pc = "tries" /\ Proceed(d, "compare")
    /\ UNCHANGED <<info, shown>>

\* A second SELECT reads verify_attempts.
ReadTries(d) ==
    /\ check[d].pc = "tries"
    /\ IF info[check[d].info].tries < MaxTries THEN Proceed(d, "compare") ELSE EndCheck(d)
    /\ UNCHANGED <<info, shown>>

\* The code that was typed is compared with the one read first; it is older than 15 minutes,
\* or wrong, or the owner has it from the mail.
CompareCode(d) ==
    /\ check[d].pc = "compare"
    /\ \/ EndCheck(d) \/ Proceed(d, "wrong")
       \/ <<check[d].info, check[d].token>> \in shown /\ Proceed(d, "load")
    /\ UNCHANGED <<info, shown>>

\* The attempt is counted by the uuid of the info.
CountTry(d) ==
    /\ check[d].pc = "wrong"
    /\ info' = [info EXCEPT ![check[d].info].tries = IF InfoExists(check[d].info) THEN @ + 1 ELSE @]
    /\ EndCheck(d)
    /\ UNCHANGED shown

\* markVerified reads the info again, for its policy, ...
LoadForMark(d) ==
    /\ check[d].pc = "load"
    /\ IF InfoExists(check[d].info) THEN Proceed(d, "mark") ELSE EndCheck(d)
    /\ UNCHANGED <<info, shown>>

\* ... and writes it by its uuid, whatever it has become.
MarkVerified(d) ==
    LET i == check[d].info IN
    /\ check[d].pc = "mark"
    /\ info' = IF InfoExists(i)
               THEN [info EXCEPT ![i].status = "verified", ![i].vouched = check[d].vouched]
               ELSE info
    /\ EndCheck(d)
    /\ UNCHANGED shown

-----------------------------------------------------------------------------
(* The administrators *)

ApproveExtensionInfo(d, i) ==
    /\ check[d] = NoCheck /\ info[i].status \in {"reviewing", "pending"}
    /\ check' = [check EXCEPT ![d] = [NoCheck EXCEPT !.pc = "load", !.info = i,
                                                     !.vouched = "admin"]]
    /\ UNCHANGED <<info, shown>>

RejectExtensionInfo(i) ==
    /\ info[i].status \in {"reviewing", "pending"}
    /\ info' = [info EXCEPT ![i].status = "rejected"]
    /\ UNCHANGED <<shown, check>>

\* A request is cut off, or a step of it fails.
AbortCheck(d) == check[d] # NoCheck /\ EndCheck(d) /\ UNCHANGED <<info, shown>>

-----------------------------------------------------------------------------
OwnershipInit ==
    /\ info = [i \in Infos |-> [Reset("auto", 0) EXCEPT !.status = "absent"]]
    /\ shown = {}
    /\ check = [d \in Checks |-> NoCheck]

OwnershipNext ==
    \/ \E i \in Infos :
           \/ CreateExtensionInfo(i) \/ RenewExtensionInfo(i) \/ DeleteExtensionInfo(i)
           \/ RejectExtensionInfo(i)
           \/ \E t \in Token : Show(i, t)
           \/ \E d \in Checks : LoadForCheck(d, i) \/ ApproveExtensionInfo(d, i)
    \/ \E d \in Checks :
           \/ LookUp(d) \/ ReadTries(d) \/ CompareCode(d) \/ CountTry(d)
           \/ LoadForMark(d) \/ MarkVerified(d) \/ AbortCheck(d)

OwnershipSpec == OwnershipInit /\ [][OwnershipNext]_ownershipVars

-----------------------------------------------------------------------------
(* Properties *)

\* Types of the table, of what is published and of the requests.
OwnershipTypeOK ==
    /\ info \in [Infos -> Info]
    /\ shown \subseteq Infos \X Token
    /\ check \in [Checks -> Check]

\* A verified info has been proved: the policy asks for nothing, an administrator approved
\* it, or its owner has shown one of its tokens or codes; no renewal, rejection or second
\* request in between makes a check pass that never did (verification/service.go:612-820).
\* The token may be one that a renewal or a rejection has overtaken since it was looked up.
VerifiedWasProved ==
    \A i \in Infos :
        info[i].status = "verified" =>
            \/ info[i].vouched = "policy" /\ "none" \in Modes[i]
            \/ info[i].vouched = "admin"
            \/ info[i].vouched = "owner" /\ \E t \in 0 .. info[i].token : <<i, t>> \in shown

\* Checks of one code that run side by side count past the limit by no more than the other
\* requests: the limit is read and the attempt counted in separate statements, so all that
\* read the same count go on (verification/service.go:736-752).
TriesAreLimited ==
    \A i \in Infos : info[i].tries <= MaxTries - 1 + Cardinality(Checks)

\* After five wrong codes a new one must be sent, says verification/service.go:721: no code is
\* tried wrongly more often.  Not kept, as TriesAreLimited shows.
FlatLimit == \A i \in Infos : info[i].tries <= MaxTries

\* A verified info is taken back by its owner only: a late rejection or a wrong code does
\* not change it (verification/service.go:722-779).
VerifiedStays ==
    [][\A i \in Infos :
          info[i].status = "verified" =>
              \/ info'[i].status \in {"verified", "deleted"}
              \/ info'[i].token > info[i].token]_ownershipVars
=============================================================================
