---------------------------- MODULE MCFeeUpload ----------------------------
(* Uploads of one school for TLC.                                          *)
EXTENDS FeeUpload

\* Siblings: all children have one address.
OneFamily == [a \in Admissions |-> CHOOSE e \in Emails : TRUE]
=============================================================================
