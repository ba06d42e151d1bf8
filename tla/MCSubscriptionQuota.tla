------------------------ MODULE MCSubscriptionQuota ------------------------
(* A small instance of SubscriptionQuota for TLC: a quota of one           *)
(* certificate and two requests that compete for it.                       *)
EXTENDS SubscriptionQuota
=============================================================================
