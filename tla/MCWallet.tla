------------------------------ MODULE MCWallet ------------------------------
(* Small instances of Wallet for TLC: one user recharges twice and gets    *)
(* refunds of purchases, and both users know the code.                     *)
EXTENDS Wallet, TLC

CONSTANT u1

MCPayer == [r \in Recharges |-> u1]
MCAmount == [r \in Recharges |-> 2]
MCValue == [c \in Codes |-> 1]
MCUses == [c \in Codes |-> 1]
MCReturned == [u \in Users |-> IF u = u1 THEN 4 ELSE 0]

\* Desks are interchangeable, recharge orders are of one user and one amount, and no
\* property names one.
WalletSymmetry == Permutations(Desks) \cup Permutations(Recharges)
=============================================================================
