---------------------------- MODULE MCActivation ----------------------------
(* A small instance of Activation for TLC: an order for a plan and one for  *)
(* a plan without a price.                                                  *)
EXTENDS Activation

CONSTANTS u1, o1, o2

MCOwner == [o \in Orders |-> u1]
MCAmount == [o \in Orders |-> IF o = o1 THEN 1 ELSE 0]
MCBalance == [u \in Users |-> 1]
=============================================================================
