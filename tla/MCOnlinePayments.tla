-------------------------- MODULE MCOnlinePayments --------------------------
(* Small instances of OnlinePayments for TLC.                              *)
EXTENDS OnlinePayments, TLC

Symmetry ==
    Permutations(Attempts) \cup Permutations(Verifiers) \cup Permutations(Hooks)

\* What staff do to the balance: payments and discounts, or penalties too.
Shrinking == {-2}
Moving == {-2, 2}
=============================================================================
