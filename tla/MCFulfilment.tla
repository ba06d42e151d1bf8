---------------------------- MODULE MCFulfilment ----------------------------
(* Small instances of Fulfilment for TLC: one paid order of a few units.   *)
EXTENDS Fulfilment

CONSTANTS u1, Units

MCOwner == [o \in Orders |-> u1]
MCAmount == [o \in Orders |-> 1]
MCBalance == [u \in Users |-> 0]
MCQuantity == [o \in Orders |-> Units]
=============================================================================
