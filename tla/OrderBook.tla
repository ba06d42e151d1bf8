----------------------------- MODULE OrderBook ------------------------------
(***************************************************************************)
(* What the sale of an order promises, whatever handlers, callbacks and    *)
(* administrators do: an order starts open and is either sold or cancelled, *)
(* once and for good; the sale is entered in the books in the same step,   *)
(* exactly once; and a priced order is sold only when a payment for it has *)
(* been made or reported.  One may also arrive for an order that is not    *)
(* open any more.                                                          *)
(***************************************************************************)
EXTENDS Naturals

CONSTANTS
    Orders,
    Amount      \* [Orders -> Nat], the prices

VARIABLES
    phase,      \* "open", "sold" or "cancelled"
    funded,     \* a payment for the order has been made or reported
    entries     \* purchases entered in the books

bookVars == <<phase, funded, entries>>

-----------------------------------------------------------------------------
BookInit ==
    /\ phase = [o \in Orders |-> "open"]
    /\ funded = [o \in Orders |-> FALSE]
    /\ entries = [o \in Orders |-> 0]

MoneyArrives(o) ==
    /\ funded' = [funded EXCEPT ![o] = TRUE]
    /\ UNCHANGED <<phase, entries>>

\* A payment out of the balance or by voucher brings its own money.
Sell(o) ==
    /\ phase[o] = "open"
    /\ phase' = [phase EXCEPT ![o] = "sold"]
    /\ funded' \in {funded, [funded EXCEPT ![o] = TRUE]}
    /\ Amount[o] > 0 => funded'[o]
    /\ entries' = [entries EXCEPT ![o] = IF Amount[o] > 0 THEN 1 ELSE 0]

Cancel(o) ==
    /\ phase[o] = "open"
    /\ phase' = [phase EXCEPT ![o] = "cancelled"]
    /\ UNCHANGED <<funded, entries>>

BookNext == \E o \in Orders : MoneyArrives(o) \/ Sell(o) \/ Cancel(o)

BookSpec == BookInit /\ [][BookNext]_bookVars
=============================================================================
