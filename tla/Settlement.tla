----------------------------- MODULE Settlement -----------------------------
(***************************************************************************)
(* What online payment promises: the gateway captures an order at most     *)
(* once, and a captured order is credited to its fee at most once.         *)
(***************************************************************************)
EXTENDS Naturals

CONSTANT Orders

VARIABLES
    captured,    \* the orders whose money the gateway took
    credits      \* per order, its rows in fee_payments

vars == <<captured, credits>>

Init ==
    /\ captured = {}
    /\ credits = [o \in Orders |-> 0]

Capture(o) ==
    /\ o \notin captured
    /\ captured' = captured \cup {o}
    /\ UNCHANGED credits

Credit(o) ==
    /\ o \in captured
    /\ credits[o] = 0
    /\ credits' = [credits EXCEPT ![o] = 1]
    /\ UNCHANGED captured

Next == \E o \in Orders : Capture(o) \/ Credit(o)

Spec == Init /\ [][Next]_vars
=============================================================================
