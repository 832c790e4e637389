---------------------------- MODULE MCFeeLedger ----------------------------
(* Small instances of FeeLedger for TLC.                                   *)
EXTENDS FeeLedger, TLC

Symmetry == Permutations(Fees) \cup Permutations(Operators)
=============================================================================
