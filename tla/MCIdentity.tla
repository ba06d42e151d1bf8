----------------------------- MODULE MCIdentity -----------------------------
(* A small instance of Identity for TLC: a subject that the provider or an *)
(* administrator is to confirm, with up to two sessions, and a subject     *)
(* that needs no confirmation.                                             *)
EXTENDS Identity, TLC

CONSTANT s1

MCFirstStatus == [s \in Subjects |-> IF s = s1 THEN {"verifying", "pending"} ELSE {"approved"}]

MCSymmetry == Permutations(Desks) \cup Permutations(Sessions)
=============================================================================
