--------------------------- MODULE MCCardSessions ---------------------------
(* A small instance of CardSessions for TLC.                               *)
EXTENDS CardSessions, TLC

MCSymmetry == Permutations(Conns)
=============================================================================
