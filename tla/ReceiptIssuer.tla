--------------------------- MODULE ReceiptIssuer ---------------------------
(***************************************************************************)
(* What the receipt numbering promises, without transactions, locks or     *)
(* failures: every payment of a school and period gets the next number of  *)
(* that school and period, and an administrator may set a sequence back or *)
(* forth.                                                                  *)
(***************************************************************************)
EXTENDS Integers

CONSTANTS
    Payments,       \* the payments to be recorded
    Keys,           \* the running sequences: a school and a period
    StartNumbers,   \* numbers a sequence may start at
    Corrections,    \* numbers an administrator may set a sequence to
    Unnumbered,     \* a payment that has no number yet
    NotStarted      \* a sequence that issued nothing yet

VARIABLES
    keyOf,          \* the sequence each payment draws from
    last,           \* the last number issued from each sequence
    numberOf        \* the number of each payment

vars == <<keyOf, last, numberOf>>

Init ==
    /\ keyOf \in [Payments -> Keys]
    /\ last = [k \in Keys |-> NotStarted]
    /\ numberOf = [x \in Payments |-> Unnumbered]

NextNumbers(k) ==
    IF last[k] = NotStarted THEN StartNumbers ELSE {last[k] + 1}

Issue(x) ==
    /\ numberOf[x] = Unnumbered
    /\ \E n \in NextNumbers(keyOf[x]) :
          /\ last' = [last EXCEPT ![keyOf[x]] = n]
          /\ numberOf' = [numberOf EXCEPT ![x] = n]
    /\ UNCHANGED keyOf

\* The next payment of the sequence gets the number after n.
Correct(k, n) ==
    /\ last' = [last EXCEPT ![k] = n]
    /\ UNCHANGED <<keyOf, numberOf>>

Next ==
    \/ \E x \in Payments : Issue(x)
    \/ \E k \in Keys, n \in Corrections : Correct(k, n)

Spec == Init /\ [][Next]_vars
=============================================================================
