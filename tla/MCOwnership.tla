---------------------------- MODULE MCOwnership ----------------------------
(* A small instance of Ownership for TLC: a domain and a mailbox.          *)
EXTENDS Ownership, TLC

MCModes == [i \in Infos |-> {"none", "manual", "auto"}]

MCSymmetry == Permutations(Checks)
=============================================================================
