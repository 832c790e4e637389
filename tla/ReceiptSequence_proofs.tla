----------------------- MODULE ReceiptSequence_proofs -----------------------
(***************************************************************************)
(* Proofs about ReceiptSequence.                                           *)
(*                                                                         *)
(* The argument: a transaction that drew a number holds the row lock of    *)
(* its counter until it ends (DrawnUnderLock), so the counter stands still *)
(* meanwhile and the number stays the next one (DrawnIsNext); recorded     *)
(* numbers are at most the counter (RecordedBelowCounter), as long as no   *)
(* correction moves it back; and a label belongs to one school             *)
(* (LabelsAreOwned), as long as no two schools ever have the same.  When   *)
(* they do, payments wait for each other's numbers; a chain of such waits  *)
(* ends, because who holds a counter has drawn (LocksAreHeld).             *)
(***************************************************************************)
EXTENDS ReceiptSequence, TLAPS

Holding == {"drawn", "inserted"}

ConfigIsRead ==
    \A x \in Payments :
        phase[x] \in Live \cup {"done"} => config[x] \in Labels \X StartNumbers

DrawnUnderLock ==
    \A x \in Payments :
        /\ phase[x] \in Holding => lockedBy[keyOf[x]] = x
        /\ phase[x] \in Holding \cup {"done"} => drawn[x] \in Nat

DrawnIsNext ==
    \A x \in Payments : phase[x] \in Holding =>
        \/ /\ counter[keyOf[x]] = None
           /\ drawn[x] \in StartNumbers
        \/ /\ counter[keyOf[x]] \in Nat
           /\ drawn[x] = counter[keyOf[x]] + 1

LockInv ==
    /\ TypeOK
    /\ ConfigIsRead
    /\ DrawnUnderLock
    /\ DrawnIsNext

LEMMA InitLockInv == Init => LockInv
  BY SequenceAssumption
  DEF Init, NoLabels, LockInv, TypeOK, ConfigIsRead, DrawnUnderLock, DrawnIsNext, Live, Holding,
      Phases, Failed

\* What a draw of the next number keeps.
LEMMA DrawKeepsLockInv ==
    ASSUME LockInv, NEW x \in Payments, NEW n \in Nat \ {0},
           phase[x] \in {"begun", "missed"}, Draw(x, n),
           \/ counter[keyOf[x]] = None /\ n \in StartNumbers
           \/ counter[keyOf[x]] \in Nat /\ n = counter[keyOf[x]] + 1
    PROVE  LockInv'
  <1> USE DEF LockInv, Draw, configVars, Live, Holding, Phases, Failed
  <1>1. TypeOK'
    BY DEF TypeOK, Keys
  <1>2. ConfigIsRead'
    BY DEF TypeOK, ConfigIsRead
  <1>3. DrawnUnderLock'
    BY SequenceAssumption DEF TypeOK, DrawnUnderLock, Keys
  <1>4. DrawnIsNext'
    BY DEF TypeOK, DrawnIsNext
  <1>5. QED
    BY <1>1, <1>2, <1>3, <1>4

\* What rolling back a transaction keeps.
LEMMA UndoKeepsLockInv ==
    ASSUME LockInv, NEW x \in Payments,
           NEW outcome \in Failed \cup {"idle"}, Undo(x, outcome),
           crashes' \in 0 .. MaxCrashes
    PROVE  LockInv'
  <1> USE DEF LockInv, Undo, configVars, Live, Holding, Phases, Failed
  <1>1. TypeOK'
    BY DEF TypeOK
  <1>2. ConfigIsRead'
    BY DEF TypeOK, ConfigIsRead
  <1>3. DrawnUnderLock'
    BY DEF TypeOK, DrawnUnderLock
  <1>4. DrawnIsNext'
    BY DEF TypeOK, DrawnIsNext
  <1>5. QED
    BY <1>1, <1>2, <1>3, <1>4

LEMMA StepKeepsLockInv ==
    ASSUME LockInv, NEW x \in Payments, Step(x)
    PROVE  LockInv'
  <1>1. CASE Begin(x)
    BY <1>1, SequenceAssumption
    DEF LockInv, TypeOK, ConfigIsRead, DrawnUnderLock, DrawnIsNext,
       Begin, configVars,
        Live, Holding, Phases, Failed, SchoolOf, Keys
  <1>2. CASE LockRow(x)
    <2>1. counter[keyOf[x]] \in Nat
      BY <1>2 DEF LockInv, TypeOK, LockRow, Keys
    <2>2. QED
      BY <1>2, <2>1, DrawKeepsLockInv DEF LockRow
  <1>3. CASE MissRow(x)
    BY <1>3 DEF LockInv, TypeOK, ConfigIsRead, DrawnUnderLock, DrawnIsNext,
       MissRow,
       configVars, Live, Holding, Phases, Failed
  <1>4. CASE InsertRow(x)
    <2>1. config[x][2] \in Nat \ {0} /\ config[x][2] \in StartNumbers
      BY <1>4, SequenceAssumption DEF LockInv, ConfigIsRead, InsertRow, Live
    <2>2. QED
      BY <1>4, <2>1, DrawKeepsLockInv DEF InsertRow
  <1>5. CASE LoseInsertRace(x)
    BY <1>5, UndoKeepsLockInv DEF LoseInsertRace, LockInv, TypeOK, Failed
  <1>6. CASE InsertPayment(x)
    BY <1>6 DEF LockInv, TypeOK, ConfigIsRead, DrawnUnderLock, DrawnIsNext,
       InsertPayment,
       configVars, Live, Holding, Phases, Failed
  <1>7. CASE Clash(x)
    BY <1>7, UndoKeepsLockInv DEF Clash, LockInv, TypeOK, Failed
  <1>8. CASE Commit(x)
    <2> USE DEF LockInv, Commit, configVars, Live, Holding, Phases, Failed
    <2>1. TypeOK'
      BY <1>8 DEF TypeOK, DrawnUnderLock
    <2>2. ConfigIsRead'
      BY <1>8 DEF TypeOK, ConfigIsRead
    <2>3. DrawnUnderLock'
      BY <1>8 DEF TypeOK, DrawnUnderLock
    <2>4. \A y \in Payments \ {x} :
             phase[y] \in Holding => keyOf[y] # keyOf[x]
      BY <1>8 DEF TypeOK, DrawnUnderLock
    <2>5. DrawnIsNext'
      BY <1>8, <2>4 DEF TypeOK, DrawnIsNext
    <2>6. QED
      BY <2>1, <2>2, <2>3, <2>5
  <1>9. CASE Retry(x)
    BY <1>9 DEF LockInv, TypeOK, ConfigIsRead, DrawnUnderLock, DrawnIsNext,
       Retry,
       configVars, Live, Holding, Phases, Failed
  <1>10. QED
    BY <1>1, <1>2, <1>3, <1>4, <1>5, <1>6, <1>7, <1>8, <1>9 DEF Step

LEMMA AdministerKeepsLockInv ==
    ASSUME LockInv, Administer
    PROVE  LockInv'
  <1> USE DEF LockInv, TypeOK, configVars, Holding, Live
  <1>1. CASE \E t \in Tenants, l \in Labels, n \in StartNumbers :
               UpdateReceiptConfig(t, l, n)
    <2> PICK t \in Tenants, l \in Labels, n \in StartNumbers :
               UpdateReceiptConfig(t, l, n)
      BY <1>1
    <2>1. TypeOK' /\ ConfigIsRead' /\ DrawnUnderLock'
      BY DEF UpdateReceiptConfig, ConfigIsRead, DrawnUnderLock, NoLabels
    <2>2. DrawnIsNext'
      BY DEF UpdateReceiptConfig, DrawnIsNext
    <2>3. QED
      BY <2>1, <2>2
  <1>2. CASE \E k \in Keys, v \in Corrections : CorrectReceiptSequence(k, v)
    <2> PICK k \in Keys, v \in Corrections : CorrectReceiptSequence(k, v)
      BY <1>2
    <2>1. TypeOK' /\ ConfigIsRead' /\ DrawnUnderLock'
      BY SequenceAssumption
      DEF CorrectReceiptSequence, ConfigIsRead, DrawnUnderLock, NoLabels
    <2>2. \A x \in Payments : phase[x] \in Holding => keyOf[x] # k
      BY SequenceAssumption DEF CorrectReceiptSequence, DrawnUnderLock
    <2>3. DrawnIsNext'
      BY <2>2 DEF CorrectReceiptSequence, DrawnIsNext
    <2>4. QED
      BY <2>1, <2>3
  <1>3. QED
    BY <1>1, <1>2 DEF Administer

LEMMA NextKeepsLockInv == LockInv /\ [Next]_vars => LockInv'
  <1> SUFFICES ASSUME LockInv, [Next]_vars
               PROVE  LockInv'
    OBVIOUS
  <1>1. CASE \E x \in Payments : Step(x)
    BY <1>1, StepKeepsLockInv
  <1>2. CASE \E x \in Payments : Crash(x)
    BY <1>2, UndoKeepsLockInv, SequenceAssumption
    DEF Crash, LockInv, TypeOK, Failed
  <1>3. CASE Administer
    BY <1>3, AdministerKeepsLockInv
  <1>4. CASE UNCHANGED vars
    BY <1>4 DEF vars, configVars, LockInv, TypeOK, ConfigIsRead,
       DrawnUnderLock, DrawnIsNext
  <1>5. QED
    BY <1>1, <1>2, <1>3, <1>4 DEF Next

LEMMA LockInvariant == Spec => []LockInv
  BY InitLockInv, NextKeepsLockInv, PTL DEF Spec

(***************************************************************************)
(* The tables keep their types: in particular a counter never leaves the   *)
(* natural numbers, whatever the administrators and the failures.          *)
(***************************************************************************)
THEOREM TypeCorrect == Spec => []TypeOK
  BY LockInvariant, PTL DEF LockInv
-----------------------------------------------------------------------------
(* Freshness of drawn numbers.                                             *)

RecordedBelowCounter ==
    \A y \in Recorded :
        /\ counter[keyOf[y]] \in Nat
        /\ drawn[y] <= counter[keyOf[y]]

LabelsAreOwned ==
    /\ \A t \in Tenants : label[t] \in usedLabels[t]
    /\ \A t, u \in Tenants : t # u => usedLabels[t] \cap usedLabels[u] = {}
    /\ \A x \in Payments :
          phase[x] \in Live \cup {"done"} => config[x][1] \in usedLabels[SchoolOf(x)]

FreshInv ==
    /\ RecordedBelowCounter
    /\ LabelsAreOwned

LEMMA InitFreshInv ==
    ASSUME Init, ~misled
    PROVE  FreshInv
  BY DEF Init, FreshInv, RecordedBelowCounter, LabelsAreOwned, Recorded, Live

LEMMA DrawKeepsFreshInv ==
    ASSUME LockInv, FreshInv, NEW x \in Payments, NEW n \in Nat,
           phase[x] \in {"begun", "missed"}, Draw(x, n)
    PROVE  FreshInv'
  <1> USE DEF LockInv, TypeOK, FreshInv, Draw, configVars, Holding, Live
  <1>1. RecordedBelowCounter'
    BY DEF RecordedBelowCounter, Recorded
  <1>2. LabelsAreOwned'
    BY DEF LabelsAreOwned, SchoolOf
  <1>3. QED
    BY <1>1, <1>2

LEMMA UndoKeepsFreshInv ==
    ASSUME LockInv, FreshInv, NEW x \in Payments,
           NEW outcome \in Failed \cup {"idle"}, Undo(x, outcome),
           phase[x] # "done"
    PROVE  FreshInv'
  <1> USE DEF LockInv, TypeOK, FreshInv, Undo, configVars, Holding, Live, Failed
  <1>1. RecordedBelowCounter'
    BY DEF RecordedBelowCounter, Recorded
  <1>2. LabelsAreOwned'
    BY DEF LabelsAreOwned, SchoolOf
  <1>3. QED
    BY <1>1, <1>2

\* Recording a payment makes its number the counter.
LEMMA CommitKeepsFreshInv ==
    ASSUME LockInv, FreshInv, NEW x \in Payments, Commit(x)
    PROVE  FreshInv'
  <1> USE DEF LockInv, TypeOK, FreshInv, Commit, configVars, Holding, Live
  <1>1. \A y \in Recorded : keyOf[y] = keyOf[x] => drawn[y] <= drawn[x]
    BY SequenceAssumption
    DEF DrawnIsNext, RecordedBelowCounter, DrawnUnderLock, Recorded
  <1>2. RecordedBelowCounter'
    BY <1>1 DEF RecordedBelowCounter, DrawnUnderLock, Recorded
  <1>3. LabelsAreOwned'
    BY DEF LabelsAreOwned, SchoolOf
  <1>4. QED
    BY <1>2, <1>3

LEMMA StepKeepsFreshInv ==
    ASSUME LockInv, FreshInv, NEW x \in Payments, Step(x)
    PROVE  FreshInv'
  <1>1. CASE Begin(x)
    BY <1>1
    DEF LockInv, TypeOK, FreshInv, RecordedBelowCounter,
        LabelsAreOwned, Begin, configVars, Live, Holding, SchoolOf, Keys,
        Recorded
  <1>2. CASE LockRow(x)
    <2>1. counter[keyOf[x]] \in Nat
      BY <1>2 DEF LockInv, TypeOK, LockRow, Keys
    <2>2. QED
      BY <1>2, <2>1, DrawKeepsFreshInv DEF LockRow
  <1>3. CASE MissRow(x)
    BY <1>3
    DEF LockInv, TypeOK, FreshInv, RecordedBelowCounter,
        LabelsAreOwned, MissRow, configVars, Live, Holding, SchoolOf, Recorded
  <1>4. CASE InsertRow(x)
    <2>1. config[x][2] \in Nat
      BY <1>4, SequenceAssumption DEF LockInv, ConfigIsRead, InsertRow, Live
    <2>2. QED
      BY <1>4, <2>1, DrawKeepsFreshInv DEF InsertRow
  <1>5. CASE LoseInsertRace(x)
    BY <1>5, UndoKeepsFreshInv DEF LoseInsertRace, Failed
  <1>6. CASE InsertPayment(x)
    BY <1>6
    DEF LockInv, TypeOK, FreshInv, RecordedBelowCounter,
        LabelsAreOwned, InsertPayment, configVars, Live, Holding, SchoolOf,
        Recorded
  <1>7. CASE Clash(x)
    BY <1>7, UndoKeepsFreshInv DEF Clash, Failed
  <1>8. CASE Commit(x)
    BY <1>8, CommitKeepsFreshInv
  <1>9. CASE Retry(x)
    BY <1>9
    DEF LockInv, TypeOK, FreshInv, RecordedBelowCounter,
        LabelsAreOwned, Retry, configVars, Live, Holding, SchoolOf, Recorded,
        Failed
  <1>10. QED
    BY <1>1, <1>2, <1>3, <1>4, <1>5, <1>6, <1>7, <1>8, <1>9 DEF Step

\* The only place where it matters that corrections move forward and that
\* labels are not shared.
LEMMA AdministerKeepsFreshInv ==
    ASSUME ~misled', LockInv, FreshInv, Administer
    PROVE  FreshInv'
  <1> USE DEF LockInv, TypeOK, FreshInv, configVars, Holding, Live
  <1>1. CASE \E t \in Tenants, l \in Labels, n \in StartNumbers :
               UpdateReceiptConfig(t, l, n)
    <2> PICK t \in Tenants, l \in Labels, n \in StartNumbers :
               UpdateReceiptConfig(t, l, n)
      BY <1>1
    <2> USE DEF UpdateReceiptConfig
    <2>1. RecordedBelowCounter'
      BY DEF RecordedBelowCounter, Recorded
    <2>2. \A u \in Tenants \ {t} : l \notin usedLabels[u]
      OBVIOUS
    <2>3. usedLabels' = [usedLabels EXCEPT ![t] = @ \cup {l}]
      OBVIOUS
    <2>4. LabelsAreOwned'
      <3>1. \A u \in Tenants : label'[u] \in usedLabels'[u]
        BY <2>3 DEF LabelsAreOwned
      <3>2. \A u, w \in Tenants : u # w => usedLabels'[u] \cap usedLabels'[w] = {}
        BY <2>2, <2>3 DEF LabelsAreOwned
      <3>3. \A x \in Payments :
               SchoolOf(x)' = SchoolOf(x) /\ SchoolOf(x) \in Tenants
        BY DEF SchoolOf, Keys
      <3>4. \A u \in Tenants : usedLabels[u] \subseteq usedLabels'[u]
        BY <2>3
      <3>5. QED
        BY <3>1, <3>2, <3>3, <3>4 DEF LabelsAreOwned
    <2>5. QED
      BY <2>1, <2>4
  <1>2. CASE \E k \in Keys, v \in Corrections : CorrectReceiptSequence(k, v)
    <2> PICK k \in Keys, v \in Corrections : CorrectReceiptSequence(k, v)
      BY <1>2
    <2> USE DEF CorrectReceiptSequence
    <2>0. counter[k] \in {None} \cup 0 .. v /\ v \in Nat
      BY SequenceAssumption
    <2>1. RecordedBelowCounter'
      BY <2>0, SequenceAssumption
      DEF RecordedBelowCounter, Recorded, DrawnUnderLock
    <2>2. LabelsAreOwned'
      BY DEF LabelsAreOwned, SchoolOf
    <2>3. QED
      BY <2>1, <2>2
  <1>3. QED
    BY <1>1, <1>2 DEF Administer

\* Once misled, always misled.
LEMMA MisledLasts ==
    ASSUME LockInv, misled, [Next]_vars
    PROVE  misled'
  <1> USE DEF configVars
  <1>1. CASE \E x \in Payments : Step(x)
    BY <1>1 DEF Step, Begin, LockRow, MissRow, InsertRow, LoseInsertRace,
       InsertPayment, Clash, Commit, Retry, Draw, Undo
  <1>2. CASE \E x \in Payments : Crash(x)
    BY <1>2 DEF Crash, Undo
  <1>3. CASE Administer
    BY <1>3 DEF Administer, UpdateReceiptConfig, CorrectReceiptSequence,
       LockInv, TypeOK
  <1>4. CASE UNCHANGED vars
    BY <1>4 DEF vars
  <1>5. QED
    BY <1>1, <1>2, <1>3, <1>4 DEF Next

LEMMA NextKeepsFreshInv ==
    ASSUME LockInv, ~misled => FreshInv, [Next]_vars, ~misled'
    PROVE  FreshInv'
  <1>0. FreshInv
    BY MisledLasts
  <1>1. CASE \E x \in Payments : Step(x)
    BY <1>0, <1>1, StepKeepsFreshInv
  <1>2. CASE \E x \in Payments : Crash(x)
    BY <1>0, <1>2, UndoKeepsFreshInv DEF Crash, Live
  <1>3. CASE Administer
    BY <1>0, <1>3, AdministerKeepsFreshInv
  <1>4. CASE UNCHANGED vars
    BY <1>0, <1>4 DEF vars, configVars, FreshInv, RecordedBelowCounter, LabelsAreOwned, Recorded, SchoolOf
  <1>5. QED
    BY <1>1, <1>2, <1>3, <1>4 DEF Next

\* Two payments of one receipt number belong to one school and one period.
LEMMA OneNumberOneKey ==
    ASSUME LockInv, FreshInv, NEW x \in Payments, NEW y \in Payments,
           phase[x] \in Live \cup {"done"}, phase[y] \in Live \cup {"done"},
           ReceiptNumber(x) = ReceiptNumber(y)
    PROVE  keyOf[x] = keyOf[y] /\ drawn[x] = drawn[y]
  <1>1. /\ config[x][1] = config[y][1]
        /\ PeriodOf(x) = PeriodOf(y)
        /\ drawn[x] = drawn[y]
    BY DEF ReceiptNumber
  <1>2. keyOf[x] \in Tenants \X Periods /\ keyOf[y] \in Tenants \X Periods
    BY DEF LockInv, TypeOK, Keys
  <1>3. SchoolOf(x) = SchoolOf(y)
    BY <1>1, <1>2 DEF FreshInv, LabelsAreOwned, SchoolOf
  <1>4. QED
    BY <1>1, <1>2, <1>3 DEF SchoolOf, PeriodOf

LEMMA FreshInvGivesProperties ==
    ASSUME LockInv, ~misled => FreshInv
    PROVE  DrawnNumberIsFresh /\ NoTwoHoldOneNumber
  <1>1. DrawnNumberIsFresh
    <2> SUFFICES ASSUME NEW x \in Payments, NEW y \in Recorded,
                        ~misled, phase[x] = "drawn",
                        ReceiptNumber(x) = ReceiptNumber(y)
                 PROVE  FALSE
      BY DEF DrawnNumberIsFresh
    <2>1. keyOf[x] = keyOf[y] /\ drawn[x] = drawn[y]
      BY OneNumberOneKey DEF Recorded, Live
    <2>2. QED
      BY <2>1, SequenceAssumption
      DEF FreshInv, RecordedBelowCounter, DrawnIsNext, Holding, LockInv,
          DrawnUnderLock, Recorded
  <1>2. NoTwoHoldOneNumber
    BY OneNumberOneKey
    DEF NoTwoHoldOneNumber, Live, LockInv, DrawnUnderLock, Holding
  <1>3. QED
    BY <1>1, <1>2

LEMMA FreshInvariant == Spec => [](LockInv /\ (~misled => FreshInv))
  <1>1. Init => LockInv /\ (~misled => FreshInv)
    BY InitLockInv, InitFreshInv
  <1>2. LockInv /\ (~misled => FreshInv) /\ [Next]_vars
          => (LockInv /\ (~misled => FreshInv))'
    BY NextKeepsLockInv, NextKeepsFreshInv
  <1>3. QED
    BY <1>1, <1>2, PTL DEF Spec

(***************************************************************************)
(* No payment draws a number that was recorded before, by any school, as   *)
(* long as counters are only corrected forward and labels are not shared.  *)
(***************************************************************************)
THEOREM FreshCorrect == Spec => []DrawnNumberIsFresh
  BY FreshInvariant, FreshInvGivesProperties, PTL

(***************************************************************************)
(* As long as that, no two open transactions hold one number.              *)
(***************************************************************************)
THEOREM HoldersDiffer == Spec => []NoTwoHoldOneNumber
  BY FreshInvariant, FreshInvGivesProperties, PTL
-----------------------------------------------------------------------------
(* Nobody waits in a circle.                                               *)

\* The converse of DrawnUnderLock: a lock has an open transaction at work.
LocksAreHeld ==
    \A k \in Keys : lockedBy[k] # None =>
        phase[lockedBy[k]] \in Holding /\ keyOf[lockedBy[k]] = k

LEMMA InitLocksAreHeld == Init => LocksAreHeld
  BY DEF Init, LocksAreHeld

LEMMA NextKeepsLocksAreHeld ==
    ASSUME LockInv, LocksAreHeld, [Next]_vars
    PROVE  LocksAreHeld'
  <1> USE DEF LockInv, TypeOK, LocksAreHeld, Holding, configVars
  <1>1. ASSUME NEW x \in Payments, Begin(x) \/ MissRow(x) \/ InsertPayment(x) \/ Retry(x)
        PROVE  LocksAreHeld'
    BY <1>1 DEF Begin, MissRow, InsertPayment, Retry, Failed
  <1>2. ASSUME NEW x \in Payments, LockRow(x) \/ InsertRow(x)
        PROVE  LocksAreHeld'
    <2>1. PICK n : Draw(x, n)
      BY <1>2 DEF LockRow, InsertRow
    <2>2. phase[x] \notin Holding
      BY <1>2 DEF LockRow, InsertRow
    <2>3. QED
      BY <2>1, <2>2 DEF Draw
  <1>3. ASSUME NEW x \in Payments, NEW outcome, Undo(x, outcome)
        PROVE  LocksAreHeld'
    BY <1>3 DEF Undo
  <1>4. ASSUME NEW x \in Payments, Commit(x)
        PROVE  LocksAreHeld'
    BY <1>4 DEF Commit, Keys
  <1>5. CASE Administer
    BY <1>5 DEF Administer, UpdateReceiptConfig, CorrectReceiptSequence
  <1>6. CASE UNCHANGED vars
    BY <1>6 DEF vars
  <1>7. QED
    BY <1>1, <1>2, <1>3, <1>4, <1>5, <1>6
    DEF Next, Step, LoseInsertRace, Clash, Crash

\* Whoever is waited for has drawn: a payment that still wants its counter is
\* waited for by none, and one that is in the index waits for none.
LEMMA WaitedForHasDrawn ==
    ASSUME LockInv, LocksAreHeld, NEW x \in Payments, NEW y \in Payments,
           WaitsFor(x, y)
    PROVE  /\ x # y
           /\ phase[y] \in Holding
           /\ phase[x] \in {"begun", "missed", "drawn"}
           /\ phase[x] = "drawn" => phase[y] = "inserted"
  <1>1. CASE WaitsForCounter(x, y)
    BY <1>1, SequenceAssumption
    DEF WaitsForCounter, LockInv, TypeOK, LocksAreHeld, Holding
  <1>2. CASE WaitsForNumber(x, y)
    BY <1>2 DEF WaitsForNumber, Holding
  <1>3. QED
    BY <1>1, <1>2 DEF WaitsFor

(***************************************************************************)
(* No deadlock, for any number of payments and schools and whatever labels *)
(* they share: a chain of waits ends after two steps, with a transaction   *)
(* that only has to commit.                                                *)
(***************************************************************************)
THEOREM WaitsAlwaysEnd == Spec => []WaitsEnd
  <1>1. Init => LockInv /\ LocksAreHeld
    BY InitLockInv, InitLocksAreHeld
  <1>2. LockInv /\ LocksAreHeld /\ [Next]_vars => (LockInv /\ LocksAreHeld)'
    BY NextKeepsLockInv, NextKeepsLocksAreHeld
  <1>3. LockInv /\ LocksAreHeld => WaitsEnd
    <2> SUFFICES ASSUME LockInv, LocksAreHeld,
                        NEW x \in Payments, NEW y \in Payments, WaitsFor(x, y)
                 PROVE  /\ x # y /\ phase[y] \in Live
                        /\ \A z \in Payments : WaitsFor(y, z) =>
                              \A w \in Payments : ~WaitsFor(z, w)
      BY DEF WaitsEnd
    <2>1. x # y /\ phase[y] \in Live /\ phase[y] \in Holding
      BY WaitedForHasDrawn DEF Holding, Live
    <2>2. ASSUME NEW z \in Payments, WaitsFor(y, z)
          PROVE  phase[z] = "inserted"
      BY <2>1, <2>2, WaitedForHasDrawn DEF Holding
    <2>3. ASSUME NEW z \in Payments, NEW w \in Payments, WaitsFor(z, w)
          PROVE  phase[z] # "inserted"
      BY <2>3, WaitedForHasDrawn
    <2>4. QED
      BY <2>1, <2>2, <2>3
  <1>4. QED
    BY <1>1, <1>2, <1>3, PTL DEF Spec
-----------------------------------------------------------------------------
(* ReceiptSequence implements ReceiptIssuer, and numbers have no gap.      *)

NumberOf == [x \in Payments |-> IF phase[x] = "done" THEN drawn[x] ELSE None]

LEMMA InitImplementsInit == Init => Issuer!Init
  BY DEF Init, Issuer!Init, Keys

\* Only Commit shows: it issues the next number of its sequence.
LEMMA CommitIssues ==
    ASSUME LockInv, NEW x \in Payments, Commit(x)
    PROVE  Issuer!Issue(x)
  <1> USE DEF LockInv, TypeOK, Commit, configVars
  <1>1. drawn[x] \in Nat /\ drawn[x] # None
    BY SequenceAssumption DEF DrawnUnderLock, Holding
  <1>2. NumberOf[x] = None
    BY DEF NumberOf
  <1>3. drawn[x] \in Issuer!NextNumbers(keyOf[x])
    BY SequenceAssumption DEF Issuer!NextNumbers, DrawnIsNext, Holding
  <1>4. NumberOf' = [NumberOf EXCEPT ![x] = drawn[x]]
    BY DEF NumberOf
  <1>5. QED
    BY <1>2, <1>3, <1>4 DEF Issuer!Issue, NumberOf

\* Every other step of a transaction is invisible.
LEMMA OtherStepsStutter ==
    ASSUME LockInv, NEW x \in Payments, Step(x) \/ Crash(x), ~Commit(x)
    PROVE  UNCHANGED <<keyOf, counter, NumberOf>>
  <1> USE DEF LockInv, TypeOK, configVars, NumberOf
  <1>1. CASE Begin(x) \/ MissRow(x) \/ InsertPayment(x) \/ Retry(x)
    BY <1>1 DEF Begin, MissRow, InsertPayment, Retry, Failed
  <1>2. CASE LockRow(x) \/ InsertRow(x)
    BY <1>2 DEF LockRow, InsertRow, Draw
  <1>3. CASE LoseInsertRace(x) \/ Clash(x) \/ Crash(x)
    BY <1>3 DEF LoseInsertRace, Clash, Crash, Undo, Live
  <1>4. QED
    BY <1>1, <1>2, <1>3 DEF Step

LEMMA NextImplementsNext ==
    ASSUME LockInv, [Next]_vars
    PROVE  [Issuer!Next]_(Issuer!vars)
  <1>1. CASE \E x \in Payments : Step(x) \/ Crash(x)
    <2> PICK x \in Payments : Step(x) \/ Crash(x)
      BY <1>1
    <2>1. CASE Commit(x)
      BY <2>1, CommitIssues DEF Issuer!Next
    <2>2. CASE ~Commit(x)
      BY <2>2, OtherStepsStutter DEF Issuer!vars, NumberOf
    <2>3. QED
      BY <2>1, <2>2
  <1>2. CASE Administer
    BY <1>2 DEF Administer, UpdateReceiptConfig, CorrectReceiptSequence,
       Issuer!vars, Issuer!Next, Issuer!Correct
  <1>3. CASE UNCHANGED vars
    BY <1>3 DEF vars, Issuer!vars
  <1>4. QED
    BY <1>1, <1>2, <1>3 DEF Next

(***************************************************************************)
(* Row locks, rollbacks, lost insert races and retries are invisible: the  *)
(* payments of a school and period get consecutive numbers, one by one,    *)
(* from the number the administrators set last.                            *)
(***************************************************************************)
THEOREM SequenceImplementsIssuer == Spec => IssuesInSequence
  <1>1. Init => Issuer!Init
    BY InitImplementsInit
  <1>2. LockInv /\ [Next]_vars => [Issuer!Next]_(Issuer!vars)
    BY NextImplementsNext
  <1>3. QED
    BY <1>1, <1>2, LockInvariant, PTL DEF Spec, IssuesInSequence, Issuer!Spec

-----------------------------------------------------------------------------
(* No gap.  Inductively, a started sequence is never empty.                *)

GaplessInv ==
    /\ Gapless
    /\ \A k \in Keys \ corrected :
          counter[k] # None => \E first \in StartNumbers :
              first <= counter[k] /\ NumbersOf(k) = first .. counter[k]

LEMMA InitGapless == Init => GaplessInv
  BY DEF Init, GaplessInv, Gapless, NumbersOf, Recorded

\* Recording the next number extends the range of its sequence by one.
LEMMA CommitKeepsGapless ==
    ASSUME LockInv, GaplessInv, NEW x \in Payments, Commit(x)
    PROVE  GaplessInv'
  <1> USE DEF LockInv, TypeOK, Commit, configVars
  <1>1. PICK key \in Keys, n \in Nat : key = keyOf[x] /\ n = drawn[x]
    BY DEF DrawnUnderLock, Holding
  <1>2. n # None /\ x \notin Recorded
    BY <1>1, SequenceAssumption DEF Recorded
  <1>3. Recorded' = Recorded \cup {x} /\ x \in Recorded'
    BY DEF Recorded
  <1>4. NumbersOf(key)' = NumbersOf(key) \cup {n}
    BY <1>1, <1>3 DEF NumbersOf, Recorded
  <1>5. \A k \in Keys \ {key} : NumbersOf(k)' = NumbersOf(k)
    BY <1>1, <1>3 DEF NumbersOf, Recorded
  <1>6. counter' = [counter EXCEPT ![key] = n]
    BY <1>1
  <1>7. key \notin corrected => \E first \in StartNumbers :
           first <= n /\ NumbersOf(key)' = first .. n
    <2> SUFFICES ASSUME key \notin corrected
                 PROVE  \E first \in StartNumbers :
                           first <= n /\ NumbersOf(key)' = first .. n
      OBVIOUS
    <2>1. CASE counter[key] = None
      <3>1. NumbersOf(key)' = n .. n
        BY <1>4, <2>1 DEF GaplessInv, Gapless
      <3>2. n \in StartNumbers
        BY <1>1, <2>1, SequenceAssumption DEF DrawnIsNext, Holding
      <3>3. n <= n
        OBVIOUS
      <3>4. QED
        BY <3>1, <3>2, <3>3, Zenon
    <2>2. CASE counter[key] # None
      <3>1. counter[key] \in Nat /\ n = counter[key] + 1
        BY <1>1, <2>2 DEF DrawnIsNext, Holding
      <3>2. PICK first \in StartNumbers :
                   /\ first <= counter[key]
                   /\ NumbersOf(key) = first .. counter[key]
        BY <2>2 DEF GaplessInv
      <3>3. NumbersOf(key)' = first .. n
        BY <1>4, <3>1, <3>2, SequenceAssumption
      <3>4. first <= n
        BY <3>1, <3>2, SequenceAssumption
      <3>5. QED
        BY <3>3, <3>4
    <2>3. QED
      BY <2>1, <2>2
  <1>8. \A y \in Recorded :
           keyOf[y] = key /\ key \notin corrected => drawn[y] # n
    <2> SUFFICES ASSUME NEW y \in Recorded, keyOf[y] = key, drawn[y] = n,
                        key \notin corrected
                 PROVE  FALSE
      OBVIOUS
    <2>1. n \in NumbersOf(key)
      BY DEF NumbersOf
    <2>2. counter[key] \in Nat /\ n = counter[key] + 1
      BY <1>1, <2>1 DEF DrawnIsNext, Holding, GaplessInv, Gapless
    <2>3. PICK first \in StartNumbers : NumbersOf(key) = first .. counter[key]
      BY <2>2, SequenceAssumption DEF GaplessInv
    <2>4. QED
      BY <2>1, <2>2, <2>3, SequenceAssumption
  <1>9. \A y, z \in Recorded' :
           /\ keyOf'[y] = keyOf'[z]
           /\ keyOf'[y] \notin corrected'
           /\ drawn'[y] = drawn'[z]
           => y = z
    BY <1>1, <1>3, <1>8 DEF GaplessInv, Gapless
  <1>10. \A k \in Keys \ corrected :
           IF counter'[k] = None
           THEN NumbersOf(k)' = {}
           ELSE \E first \in StartNumbers :
                  /\ first <= counter'[k]
                  /\ NumbersOf(k)' = first .. counter'[k]
    <2> TAKE k \in Keys \ corrected
    <2>1. CASE k = key
      BY <1>2, <1>6, <1>7, <2>1
    <2>2. CASE k # key
      BY <1>5, <1>6, <2>2 DEF GaplessInv, Gapless
    <2>3. QED
      BY <2>1, <2>2
  <1>11. QED
    BY <1>9, <1>10 DEF GaplessInv, Gapless

\* Correcting one sequence leaves the other ones, and all payments, alone.
LEMMA CorrectionKeepsGapless ==
    ASSUME LockInv, GaplessInv, NEW k \in Keys, NEW v \in Corrections,
           CorrectReceiptSequence(k, v)
    PROVE  GaplessInv'
  <1> USE DEF CorrectReceiptSequence, LockInv, TypeOK
  <1>1. Recorded' = Recorded /\ \A j \in Keys : NumbersOf(j)' = NumbersOf(j)
    BY DEF Recorded, NumbersOf
  <1>2. \A j \in Keys \ corrected' : j \notin corrected /\ counter'[j] = counter[j]
    OBVIOUS
  <1>3. \A x \in Recorded : keyOf[x] \in Keys
    BY DEF Recorded
  <1>4. QED
    BY <1>1, <1>2, <1>3 DEF GaplessInv, Gapless

LEMMA NextKeepsGapless ==
    ASSUME LockInv, GaplessInv, [Next]_vars
    PROVE  GaplessInv'
  <1>1. CASE \E x \in Payments : Commit(x)
    BY <1>1, CommitKeepsGapless
  <1>2. CASE \E k \in Keys, v \in Corrections : CorrectReceiptSequence(k, v)
    BY <1>2, CorrectionKeepsGapless
  <1>3. CASE /\ ~ \E x \in Payments : Commit(x)
             /\ ~ \E k \in Keys, v \in Corrections : CorrectReceiptSequence(k, v)
    <2>1. UNCHANGED <<keyOf, counter, NumberOf>> /\ corrected' = corrected
      <3>1. CASE \E x \in Payments : Step(x) \/ Crash(x)
        <4>1. UNCHANGED <<keyOf, counter, NumberOf>>
          BY <1>3, <3>1, OtherStepsStutter
        <4>2. corrected' = corrected
          BY <3>1 DEF Step, Begin, LockRow, MissRow, InsertRow, LoseInsertRace,
             InsertPayment, Clash, Commit, Retry, Crash, Draw, Undo, configVars
        <4>3. QED
          BY <4>1, <4>2
      <3>2. CASE Administer
        BY <1>3, <3>2 DEF Administer, UpdateReceiptConfig, NumberOf
      <3>3. CASE UNCHANGED vars
        BY <3>3 DEF vars, configVars, NumberOf
      <3>4. QED
        BY <3>1, <3>2, <3>3 DEF Next
    <2>2. \A x \in Payments :
             NumberOf'[x] = IF phase'[x] = "done" THEN drawn'[x] ELSE None
      BY DEF NumberOf
    <2>3. LockInv'
      BY NextKeepsLockInv
    <2>4. /\ Recorded' = Recorded
          /\ \A x \in Recorded : drawn'[x] = drawn[x]
      BY <2>1, <2>3, SequenceAssumption
      DEF NumberOf, Recorded, LockInv, DrawnUnderLock
    <2>5. \A k \in Keys : NumbersOf(k)' = NumbersOf(k)
      BY <2>1, <2>4 DEF NumbersOf
    <2>6. QED
      BY <2>1, <2>4, <2>5 DEF GaplessInv, Gapless
  <1>4. QED
    BY <1>1, <1>2, <1>3

(***************************************************************************)
(* The committed numbers of every school and period that nobody corrected  *)
(* are consecutive, end at the counter and are all different, however      *)
(* transactions interleave and fail.                                       *)
(***************************************************************************)
THEOREM GaplessCorrect == Spec => []Gapless
  <1>1. Init => LockInv /\ GaplessInv
    BY InitLockInv, InitGapless
  <1>2. LockInv /\ GaplessInv /\ [Next]_vars => (LockInv /\ GaplessInv)'
    BY NextKeepsLockInv, NextKeepsGapless
  <1>3. GaplessInv => Gapless
    BY DEF GaplessInv
  <1>4. QED
    BY <1>1, <1>2, <1>3, PTL DEF Spec
=============================================================================
