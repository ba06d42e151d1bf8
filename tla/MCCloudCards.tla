---------------------------- MODULE MCCloudCards ----------------------------
(* An instance of CloudCards for TLC. *)
EXTENDS CloudCards, TLC

CONSTANTS c1, c2, d1, d2

MCSymmetry == Permutations({c1, c2}) \cup Permutations({d1, d2})
=============================================================================
