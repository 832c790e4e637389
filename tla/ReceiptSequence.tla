-------------------------- MODULE ReceiptSequence --------------------------
(***************************************************************************)
(* Receipt numbering: generateReceiptNumber of fees.service.ts inside the  *)
(* transaction of recordPayment, with the tables tenants (configuration),  *)
(* receipt_sequences (one counter per school and period) and the unique    *)
(* receipt_number of fee_payments, which is unique across all schools.     *)
(*                                                                         *)
(* PostgreSQL at READ COMMITTED: SELECT ... FOR UPDATE locks an existing   *)
(* row and sees nothing of an uncommitted one; an INSERT of a key that     *)
(* another transaction is inserting waits for it; a unique violation       *)
(* aborts the whole transaction, so that the re-read in the catch block    *)
(* of generateReceiptNumber fails as well.                                 *)
(*                                                                         *)
(* A receipt number is <<label, period, seq>>: the label stands for the    *)
(* visible format with the sanitized school code or prefix.                *)
(***************************************************************************)
EXTENDS Integers

CONSTANTS
    Payments,        \* requests to record a payment, each to be retried
    Tenants, Periods,
    Labels,          \* format + sanitized code or prefix
    StartNumbers,    \* values of receipt_start_number
    Corrections,     \* values an admin may set a counter to
    MaxCrashes,      \* bound: transactions lost for no fault of their own
    None

ASSUME SequenceAssumption ==
    /\ StartNumbers \subseteq Nat \ {0}
    /\ Corrections \subseteq Nat
    /\ MaxCrashes \in Nat
    /\ None \notin Payments
    /\ None \notin Nat
    /\ None \notin Labels

Keys == Tenants \X Periods

VARIABLES
    label, start,   \* per school: how its receipts look, where they start
    usedLabels,     \* per school: the labels it has had, until misled (history)
    corrected,      \* the counters an administrator has set (history)
    misled,         \* has a counter been moved back, or a label shared? (history)
    counter,        \* receipt_sequences: current_value, None without a row
    lockedBy,       \* the transaction that holds the row, or inserts it
    keyOf,          \* the school and the period of each payment
    phase,          \* how far the transaction of each payment is
    config,         \* the label and start number the transaction read
    drawn,          \* the sequence number it drew
    crashes

configVars == <<label, start, usedLabels, corrected, misled>>
vars == <<configVars, counter, lockedBy, keyOf, phase, config, drawn, crashes>>

Live == {"begun", "missed", "drawn", "inserted"}   \* a transaction is open
Failed == {"lostRace", "clashed"}      \* rolled back on a unique violation
Phases == {"idle", "done"} \cup Live \cup Failed

TypeOK ==
    /\ label \in [Tenants -> Labels]
    /\ start \in [Tenants -> StartNumbers]
    /\ usedLabels \in [Tenants -> SUBSET Labels]
    /\ corrected \subseteq Keys
    /\ misled \in BOOLEAN
    /\ counter \in [Keys -> Nat \cup {None}]
    /\ lockedBy \in [Keys -> Payments \cup {None}]
    /\ keyOf \in [Payments -> Keys]
    /\ phase \in [Payments -> Phases]
    /\ config \in [Payments -> (Labels \X StartNumbers) \cup {None}]
    /\ drawn \in [Payments -> (Nat \ {0}) \cup {None}]
    /\ crashes \in 0 .. MaxCrashes

SchoolOf(x) == keyOf[x][1]
PeriodOf(x) == keyOf[x][2]

\* formatReceipt: injective in the label, the period and the number.
ReceiptNumber(x) == <<config[x][1], PeriodOf(x), drawn[x]>>

Recorded == {x \in Payments : phase[x] = "done"}

NoLabels == [t \in Tenants |-> {}]

Init ==
    /\ label \in [Tenants -> Labels]
    /\ start \in [Tenants -> StartNumbers]
    /\ corrected = {}
    /\ misled = \E t, u \in Tenants : label[t] = label[u] /\ t # u
    /\ usedLabels = IF misled THEN NoLabels ELSE [t \in Tenants |-> {label[t]}]
    /\ counter = [k \in Keys |-> None]
    /\ lockedBy = [k \in Keys |-> None]
    /\ keyOf \in [Payments -> Keys]
    /\ phase = [x \in Payments |-> "idle"]
    /\ config = [x \in Payments |-> None]
    /\ drawn = [x \in Payments |-> None]
    /\ crashes = 0

-----------------------------------------------------------------------------
(* The transaction of one payment.                                         *)

\* The school is read before the counter is locked.
Begin(x) ==
    /\ phase[x] = "idle"
    /\ phase' = [phase EXCEPT ![x] = "begun"]
    /\ config' = [config EXCEPT ![x] = <<label[SchoolOf(x)], start[SchoolOf(x)]>>]
    /\ UNCHANGED <<configVars, counter, lockedBy, keyOf, drawn, crashes>>

\* Mutant of Draw: the increment is not part of the payment's transaction.
DrawCommitted(x, n) ==
    /\ lockedBy[keyOf[x]] = None
    /\ counter' = [counter EXCEPT ![keyOf[x]] = n]
    /\ drawn' = [drawn EXCEPT ![x] = n]
    /\ phase' = [phase EXCEPT ![x] = "drawn"]
    /\ UNCHANGED <<configVars, lockedBy, keyOf, config, crashes>>

Draw(x, n) ==
    /\ lockedBy[keyOf[x]] = None
    /\ lockedBy' = [lockedBy EXCEPT ![keyOf[x]] = x]
    /\ drawn' = [drawn EXCEPT ![x] = n]
    /\ phase' = [phase EXCEPT ![x] = "drawn"]
    /\ UNCHANGED <<configVars, counter, keyOf, config, crashes>>

\* SELECT ... FOR UPDATE finds the row: wait for its lock, then increment.
LockRow(x) ==
    /\ phase[x] = "begun"
    /\ counter[keyOf[x]] # None
    /\ Draw(x, counter[keyOf[x]] + 1)

\* SELECT ... FOR UPDATE finds no committed row, and locks nothing.
MissRow(x) ==
    /\ phase[x] = "begun"
    /\ counter[keyOf[x]] = None
    /\ phase' = [phase EXCEPT ![x] = "missed"]
    /\ UNCHANGED <<configVars, counter, lockedBy, keyOf, config, drawn, crashes>>

\* Mutant of InsertRow: the start number is ignored and numbers start at zero.
InsertRowFromZero(x) ==
    /\ phase[x] = "missed"
    /\ counter[keyOf[x]] = None
    /\ Draw(x, 0)

\* INSERT of the row, once no other transaction is inserting it.
InsertRow(x) ==
    /\ phase[x] = "missed"
    /\ counter[keyOf[x]] = None
    /\ Draw(x, config[x][2])

\* Mutant of Undo: the lock outlives the transaction.
UndoKeepingLock(x, outcome) ==
    /\ phase' = [phase EXCEPT ![x] = outcome]
    /\ drawn' = [drawn EXCEPT ![x] = None]
    /\ config' = [config EXCEPT ![x] = None]
    /\ UNCHANGED <<configVars, counter, lockedBy, keyOf>>

\* The transaction is rolled back: its draw is undone, its lock released.
Undo(x, outcome) ==
    /\ phase' = [phase EXCEPT ![x] = outcome]
    /\ drawn' = [drawn EXCEPT ![x] = None]
    /\ config' = [config EXCEPT ![x] = None]
    /\ lockedBy' = [k \in Keys |-> IF lockedBy[k] = x THEN None ELSE lockedBy[k]]
    /\ UNCHANGED <<configVars, counter, keyOf>>

\* INSERT of the row fails: another transaction committed it meanwhile.
LoseInsertRace(x) ==
    /\ phase[x] = "missed"
    /\ counter[keyOf[x]] # None
    /\ Undo(x, "lostRace")
    /\ UNCHANGED crashes

\* INSERT into fee_payments, once no open transaction holds this number.
InsertPayment(x) ==
    /\ phase[x] = "drawn"
    /\ \A y \in Recorded : ReceiptNumber(y) # ReceiptNumber(x)
    /\ \A y \in Payments \ {x} :
          phase[y] = "inserted" => ReceiptNumber(y) # ReceiptNumber(x)
    /\ phase' = [phase EXCEPT ![x] = "inserted"]
    /\ UNCHANGED <<configVars, counter, lockedBy, keyOf, config, drawn, crashes>>

\* uq_fp_receipt_number is violated.
Clash(x) ==
    /\ phase[x] = "drawn"
    /\ \E y \in Recorded : ReceiptNumber(y) = ReceiptNumber(x)
    /\ Undo(x, "clashed")
    /\ UNCHANGED crashes

Commit(x) ==
    /\ phase[x] = "inserted"
    /\ counter' = [counter EXCEPT ![keyOf[x]] = drawn[x]]
    /\ lockedBy' = [lockedBy EXCEPT ![keyOf[x]] = None]
    /\ phase' = [phase EXCEPT ![x] = "done"]
    /\ UNCHANGED <<configVars, keyOf, config, drawn, crashes>>

\* A lost connection, a restart, or an error in the rest of recordPayment.
Crash(x) ==
    /\ phase[x] \in Live
    /\ crashes < MaxCrashes
    /\ crashes' = crashes + 1
    /\ Undo(x, "idle")

\* The request failed; the staff send it again.
Retry(x) ==
    /\ phase[x] \in Failed
    /\ phase' = [phase EXCEPT ![x] = "idle"]
    /\ UNCHANGED <<configVars, counter, lockedBy, keyOf, config, drawn, crashes>>

-----------------------------------------------------------------------------
(* The administrator.                                                      *)

\* updateReceiptConfig.  The code checks the raw code of the compact format
\* only, and only against the codes in use now.
UpdateReceiptConfig(t, l, n) ==
    /\ <<l, n>> # <<label[t], start[t]>>
    /\ label' = [label EXCEPT ![t] = l]
    /\ start' = [start EXCEPT ![t] = n]
    /\ misled' = (misled \/ \E u \in Tenants \ {t} : l \in usedLabels[u])
    /\ usedLabels' = IF misled' THEN NoLabels
                     ELSE [usedLabels EXCEPT ![t] = @ \cup {l}]
    /\ UNCHANGED <<corrected, counter, lockedBy, keyOf, phase, config, drawn, crashes>>

\* correctReceiptSequence: the UPDATE waits for the row lock, then overwrites
\* whatever is there; without a row it inserts one.
CorrectReceiptSequence(k, v) ==
    /\ lockedBy[k] = None
    /\ counter[k] # v
    /\ corrected' = corrected \cup {k}
    /\ misled' = (misled \/ counter[k] \notin {None} \cup 0 .. v)
    /\ usedLabels' = IF misled' THEN NoLabels ELSE usedLabels
    /\ counter' = [counter EXCEPT ![k] = v]
    /\ UNCHANGED <<label, start>>
    /\ UNCHANGED <<lockedBy, keyOf, phase, config, drawn, crashes>>

-----------------------------------------------------------------------------
Step(x) ==
    \/ Begin(x)
    \/ LockRow(x)
    \/ MissRow(x)
    \/ InsertRow(x)
    \/ LoseInsertRace(x)
    \/ InsertPayment(x)
    \/ Clash(x)
    \/ Commit(x)
    \/ Retry(x)

Administer ==
    \/ \E t \in Tenants, l \in Labels, n \in StartNumbers :
          UpdateReceiptConfig(t, l, n)
    \/ \E k \in Keys, v \in Corrections : CorrectReceiptSequence(k, v)

Next ==
    \/ \E x \in Payments : Step(x)
    \/ \E x \in Payments : Crash(x)
    \/ Administer

Spec == Init /\ [][Next]_vars

\* PostgreSQL and the API finish what they started, and a failed request is
\* sent again.
FairSpec == Spec /\ \A x \in Payments : WF_vars(Step(x))

-----------------------------------------------------------------------------
(* Properties.                                                             *)

NumbersOf(k) == {drawn[x] : x \in {y \in Recorded : keyOf[y] = k}}

\* The committed numbers of a school and period whose counter nobody corrected
\* are consecutive and end at the counter: rolled-back transactions leave no
\* hole and no number twice.
Gapless ==
    /\ \A k \in Keys \ corrected :
          IF counter[k] = None
          THEN NumbersOf(k) = {}
          ELSE \E first \in StartNumbers : NumbersOf(k) = first .. counter[k]
    /\ \A x, y \in Recorded :
          /\ keyOf[x] = keyOf[y]
          /\ keyOf[x] \notin corrected
          /\ drawn[x] = drawn[y]
          => x = y

\* generateReceiptNumber: "Generate a unique receipt number for a payment".
\* A number that was drawn is on no recorded payment, of any school, unless an
\* administrator moved a counter back or shared a label.
DrawnNumberIsFresh ==
    ~misled =>
        \A x \in Payments, y \in Recorded :
            phase[x] = "drawn" => ReceiptNumber(x) # ReceiptNumber(y)

\* No two open transactions hold one number, so none waits for another but
\* on the counter of its own school and period; unless labels are shared.
NoTwoHoldOneNumber ==
    ~misled =>
        \A x, y \in Payments :
            /\ phase[x] \in {"drawn", "inserted"}
            /\ phase[y] \in {"drawn", "inserted"}
            /\ ReceiptNumber(x) = ReceiptNumber(y)
            => x = y

\* x waits for y: for the lock of its counter, or for what becomes of a row that
\* carries its receipt number.
WaitsForCounter(x, y) ==
    /\ \/ phase[x] = "begun" /\ counter[keyOf[x]] # None
       \/ phase[x] = "missed" /\ counter[keyOf[x]] = None
    /\ lockedBy[keyOf[x]] = y

WaitsForNumber(x, y) ==
    /\ phase[x] = "drawn" /\ x # y
    /\ phase[y] = "inserted" /\ ReceiptNumber(y) = ReceiptNumber(x)

WaitsFor(x, y) == WaitsForCounter(x, y) \/ WaitsForNumber(x, y)

\* No deadlock: who is waited for is still at work, and waits itself for none
\* but one that waits for nobody.  Schools that share a label are the long case:
\* a payment waits for the counter of its school, whose holder waits for the
\* number that a payment of the other school carries.
WaitsEnd ==
    \A x, y \in Payments : WaitsFor(x, y) =>
        /\ x # y /\ phase[y] \in Live
        /\ \A z \in Payments : WaitsFor(y, z) =>
              \A w \in Payments : ~WaitsFor(z, w)

\* Every payment is recorded in the end, when failed requests are sent again
\* and no administrator moved a counter back or shared a label.
EveryPaymentRecorded == \A x \in Payments : <>(phase[x] = "done" \/ misled)

\* The same, whatever the administrators set.
RecordedWhateverIsSet == \A x \in Payments : <>(phase[x] = "done")

Issuer == INSTANCE ReceiptIssuer WITH
    last <- counter,
    numberOf <- [x \in Payments |-> IF phase[x] = "done" THEN drawn[x] ELSE None],
    Unnumbered <- None,
    NotStarted <- None

\* Transactions, locks and failures are invisible: the counter and the
\* recorded numbers move as the abstract issuer's do.
IssuesInSequence == Issuer!Spec
=============================================================================
