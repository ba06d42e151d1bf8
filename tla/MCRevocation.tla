---------------------------- MODULE MCRevocation ----------------------------
(* Small instances of Revocation for TLC: a certificate whose serial has   *)
(* letters among its digits, and two CRL configurations.                   *)
EXTENDS Revocation

CONSTANTS k1

MCSpelling == [c \in Certs |-> "letters"]
MCInterval == [k \in Configs |-> IF k = k1 THEN 5 ELSE 60]
=============================================================================
