----------------------------- MODULE MCCheckout -----------------------------
(* Small instances of Checkout for TLC: orders of one user who can afford  *)
(* some of them but not all.                                               *)
EXTENDS Checkout

CONSTANTS u1, o1, o2, o3

MCOwner == [o \in Orders |-> u1]
MCAmount == [o \in Orders |-> CASE o = o1 -> 2 [] o = o2 -> 1 [] o = o3 -> 0]
MCBalance == [u \in Users |-> 2]
=============================================================================
