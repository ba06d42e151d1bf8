---------------------------- MODULE MCLifecycle ----------------------------
EXTENDS OrderLifecycle

CONSTANTS u1, Price, Units

MCOwner == [o \in Orders |-> u1]
MCAmount == [o \in Orders |-> Price]
MCBalance == [u \in Users |-> Price]
MCQuantity == [o \in Orders |-> Units]
=============================================================================
