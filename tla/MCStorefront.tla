---------------------------- MODULE MCStorefront ----------------------------
(* Small instances of Storefront for TLC: the first user orders more than  *)
(* once, the second orders two units at a time.                            *)
EXTENDS Storefront

CONSTANTS u1, u2, o3

MCOwner == [o \in Orders |-> IF o = o3 THEN u2 ELSE u1]
MCQty == [o \in Orders |-> IF o = o3 THEN 2 ELSE 1]
=============================================================================
