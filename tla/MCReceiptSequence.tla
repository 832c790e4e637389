------------------------- MODULE MCReceiptSequence -------------------------
(* Small instances of ReceiptSequence for TLC.                             *)
EXTENDS ReceiptSequence, TLC

Symmetry == Permutations(Payments)
=============================================================================
