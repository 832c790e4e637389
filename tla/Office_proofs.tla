--------------------------- MODULE Office_proofs ----------------------------
(***************************************************************************)
(* Proofs about the daily work of the office, for any rows, files, requests *)
(* and restarts: Approvals (a concession is applied once, and decided as by *)
(* ConcessionDesk), FeeUpload (no student is billed a term twice),         *)
(* AcademicYears, ReceiptTemplates (one current year, one default),        *)
(* Families (the contacts of the students can sign in) and Identities (one *)
(* identity is one person, and one backfill gives a person one).           *)
(***************************************************************************)
EXTENDS Approvals, FeeUpload, AcademicYears, ReceiptTemplates, Families, Identities,
        SetLemmas

-----------------------------------------------------------------------------
(* Approvals.                                                              *)

(* While an undisturbed concession is being decided, one request works on  *)
(* it alone: its row is PENDING and it has been applied exactly if that    *)
(* request is past `run`.  This gives both the promise about the row and   *)
(* the implementation of ConcessionDesk.                                   *)

LEMMA ApprovalsInit == InitApprovals => ApprovalsTypeOK
BY ApprovalsAssumption DEF InitApprovals, ApprovalsTypeOK, Stages

LEMMA ApprovalsTypeStep ==
    ApprovalsTypeOK /\ [NextApprovals]_approvalVars => ApprovalsTypeOK'
<1> SUFFICES ASSUME ApprovalsTypeOK, [NextApprovals]_approvalVars PROVE ApprovalsTypeOK'
  OBVIOUS
<1> USE ApprovalsAssumption DEF ApprovalsTypeOK, Stages
<1>1. CASE \E c \in Concessions : GateApply(c) \/ GateQueue(c)
  BY <1>1 DEF GateApply, GateQueue, rowVars, requestVars
<1>2. ASSUME NEW d \in Deciders, NEW c \in Concessions, Approve(d, c) \/ Reject(d, c)
      PROVE  ApprovalsTypeOK'
  BY <1>2 DEF Approve, Reject, BeginDecision, rowVars
<1>3. ASSUME NEW d \in Deciders, Proceed(d) PROVE ApprovalsTypeOK'
  BY <1>3 DEF Proceed, RunCommits, RunFails, SaveApproval, SaveRejection, SaveRow, rowVars
<1>4. CASE Restart
  BY <1>4 DEF Restart, rowVars
<1>5. CASE UNCHANGED approvalVars
  BY <1>5 DEF approvalVars, rowVars, requestVars
<1> QED
  BY <1>1, <1>2, <1>3, <1>4, <1>5 DEF NextApprovals

\* The columns, stages and histories keep their domains.
THEOREM ApprovalsTypeCorrect == SpecApprovals => []ApprovalsTypeOK
BY ApprovalsInit, ApprovalsTypeStep, PTL DEF SpecApprovals

-----------------------------------------------------------------------------
(* The invariant.                                                          *)

Ran(c) == \E d \in Open(c) : stage[d] = "ran"

\* At most one request works on it, and its row is PENDING until that ends.
DecidedAlone(c) ==
    /\ \A d, e \in Open(c) : d = e
    /\ Open(c) # {} => status[c] = "PENDING"

\* How often it was applied can be told from the row and from that request.
AppliedAsTold(c) ==
    /\ status[c] = "NONE" => applied[c] \in {0, 1}
    /\ status[c] = "PENDING" => applied[c] = IF Ran(c) THEN 1 ELSE 0
    /\ status[c] \in {"APPROVED", "REJECTED"} =>
          applied[c] = IF status[c] = "APPROVED" /\ result[c] = "ok" THEN 1 ELSE 0

Orderly == \A c \in Concessions \ Disturbed : DecidedAlone(c) /\ AppliedAsTold(c)

LEMMA OrderlyStep ==
    ASSUME ApprovalsTypeOK, Orderly, [NextApprovals]_approvalVars
    PROVE  Orderly'
<1> USE DEF ApprovalsTypeOK, Stages, Orderly, DecidedAlone, AppliedAsTold, Ran, Open, Disturbed
<1>1. ASSUME NEW k \in Concessions, GateApply(k) PROVE Orderly'
  BY <1>1 DEF GateApply, rowVars, requestVars
<1>2. ASSUME NEW k \in Concessions, GateQueue(k) PROVE Orderly'
  BY <1>2 DEF GateQueue, requestVars
<1>3. ASSUME NEW d \in Deciders, NEW k \in Concessions, NEW first \in {"approving", "rejecting"},
             BeginDecision(d, k, first)
      PROVE  Orderly'
  BY <1>3 DEF BeginDecision, rowVars
<1>4. ASSUME NEW d \in Deciders, RunCommits(d) PROVE Orderly'
  BY <1>4 DEF RunCommits, rowVars
<1>5. ASSUME NEW d \in Deciders, RunFails(d) PROVE Orderly'
  BY <1>5 DEF RunFails, rowVars
<1>6. ASSUME NEW d \in Deciders, SaveApproval(d) PROVE Orderly'
  BY <1>6 DEF SaveApproval, SaveRow
<1>7. ASSUME NEW d \in Deciders, SaveRejection(d) PROVE Orderly'
  BY <1>7 DEF SaveRejection, SaveRow
<1>8. CASE Restart
  BY <1>8 DEF Restart, rowVars
<1>9. CASE UNCHANGED approvalVars
  BY <1>9 DEF approvalVars, rowVars, requestVars
<1> QED
  BY <1>1, <1>2, <1>3, <1>4, <1>5, <1>6, <1>7, <1>8, <1>9
  DEF NextApprovals, Approve, Reject, Proceed

LEMMA OrderlyAlways == SpecApprovals => [](ApprovalsTypeOK /\ Orderly)
<1>1. InitApprovals => Orderly
  BY DEF InitApprovals, Orderly, DecidedAlone, AppliedAsTold, Ran, Open, Disturbed
<1> QED
  BY <1>1, OrderlyStep, ApprovalsTypeCorrect, PTL DEF SpecApprovals

\* A concession nobody decided at once with another, and no restart left half
\* done, is applied once at most, and its row says whether it was.
THEOREM RowCorrect == SpecApprovals => []RowTellsLedger
<1>1. ASSUME ApprovalsTypeOK, Orderly PROVE RowTellsLedger
  <2> SUFFICES ASSUME NEW c \in Concessions \ Disturbed
               PROVE  /\ applied[c] <= 1
                      /\ Open(c) = {} /\ status[c] # "NONE" =>
                            (applied[c] = 1 <=> status[c] = "APPROVED" /\ result[c] = "ok")
    BY DEF RowTellsLedger
  <2>1. status[c] \in {"NONE", "PENDING", "APPROVED", "REJECTED"}
    BY <1>1 DEF ApprovalsTypeOK
  <2>2. AppliedAsTold(c)
    BY <1>1 DEF Orderly
  <2>3. Open(c) = {} => ~Ran(c)
    BY DEF Ran
  <2> QED
    BY <2>1, <2>2, <2>3 DEF AppliedAsTold
<1> QED
  BY <1>1, OrderlyAlways, PTL

-----------------------------------------------------------------------------
(* Approvals implements ConcessionDesk.                                    *)

State == [c \in Concessions |-> Standing(c)]
Granted == {c \in Concessions \ Disturbed : applied[c] > 0}

\* How the standing of one concession follows from its row and the request
\* at work.
StandsAsTold(c) ==
    /\ c \in Disturbed => Standing(c) = "disturbed"
    /\ c \notin Disturbed =>
         /\ status[c] = "REJECTED" => Standing(c) = "refused"
         /\ status[c] = "APPROVED" => Standing(c) = "applied"
         /\ status[c] = "PENDING" => Standing(c) = IF Ran(c) THEN "applied" ELSE "open"
         /\ status[c] = "NONE" => Standing(c) = IF applied[c] = 0 THEN "unasked" ELSE "applied"

\* The steps of the desk, in the values that the mapping gives its variables.
Stutters == State' = State /\ Granted' = Granted
Disturbance(C) ==
    /\ State' = [c \in Concessions |-> IF c \in C THEN "disturbed" ELSE State[c]]
    /\ Granted' = Granted \ C
Moves(k, from, to, G) ==
    /\ State[k] = from /\ State' = [State EXCEPT ![k] = to]
    /\ Granted' = G
DeskMoves ==
    \/ Stutters
    \/ \E C \in SUBSET Concessions : Disturbance(C)
    \/ \E k \in Concessions :
          \/ Moves(k, "unasked", "open", Granted)
          \/ Moves(k, "unasked", "applied", Granted \cup {k})
          \/ Moves(k, "open", "applied", Granted)
          \/ Moves(k, "open", "applied", Granted \cup {k})
          \/ Moves(k, "open", "refused", Granted)

LEMMA DeskStep ==
    ASSUME ApprovalsTypeOK, ApprovalsTypeOK', Orderly, [NextApprovals]_approvalVars
    PROVE  DeskMoves
<1>a. \A c \in Concessions : /\ status[c] \in {"NONE", "PENDING", "APPROVED", "REJECTED"}
                             /\ applied[c] \in Nat /\ StandsAsTold(c)
                             /\ c \notin Disturbed => DecidedAlone(c) /\ AppliedAsTold(c)
  BY DEF ApprovalsTypeOK, StandsAsTold, Standing, Ran, Orderly
<1>b. \A c \in Concessions : /\ status'[c] \in {"NONE", "PENDING", "APPROVED", "REJECTED"}
                             /\ applied'[c] \in Nat /\ StandsAsTold(c)'
  BY DEF ApprovalsTypeOK, StandsAsTold, Standing, Ran
<1>c. State = [c \in Concessions |-> Standing(c)] /\ State' = [c \in Concessions |-> Standing(c)']
  BY DEF State
<1>d. ASSUME \A c \in Concessions : Standing(c)' = Standing(c),
             \A c \in Concessions \ Disturbed : applied'[c] = applied[c], Disturbed' = Disturbed
      PROVE  Stutters
  BY <1>c, <1>d DEF Stutters, Granted
<1> USE DEF ApprovalsTypeOK, Stages, StandsAsTold, DecidedAlone, AppliedAsTold
<1>1. ASSUME NEW k \in Concessions, GateApply(k) PROVE DeskMoves
  <2>1. Disturbed' = Disturbed /\ \A c \in Concessions : Ran(c)' = Ran(c)
    BY <1>1 DEF GateApply, requestVars, Disturbed, Ran, Open
  <2>2. CASE k \in Disturbed
    <3>1. Stutters
      BY <1>1, <1>a, <1>b, <1>d, <2>1, <2>2 DEF GateApply, rowVars
    <3> QED
      BY <3>1 DEF DeskMoves
  <2>3. CASE k \notin Disturbed
    <3>1. Moves(k, "unasked", "applied", Granted \cup {k})
      <4>1. Standing(k) = "unasked" /\ Standing(k)' = "applied"
        BY <1>1, <1>a, <1>b, <2>1, <2>3 DEF GateApply, rowVars
      <4>2. \A c \in Concessions \ {k} : Standing(c)' = Standing(c)
        BY <1>1, <1>a, <1>b, <2>1 DEF GateApply, rowVars
      <4>3. Granted' = Granted \cup {k}
        BY <1>1, <2>1, <2>3 DEF GateApply, Granted
      <4> QED
        BY <4>1, <4>2, <4>3, <1>c DEF Moves
    <3> QED
      BY <3>1 DEF DeskMoves
  <2> QED
    BY <2>2, <2>3
<1>2. ASSUME NEW k \in Concessions, GateQueue(k) PROVE DeskMoves
  <2>1. Disturbed' = Disturbed /\ \A c \in Concessions : Ran(c)' = Ran(c)
    BY <1>2 DEF GateQueue, requestVars, Disturbed, Ran, Open
  <2>2. CASE k \in Disturbed
    <3>1. Stutters
      BY <1>2, <1>a, <1>b, <1>d, <2>1, <2>2 DEF GateQueue
    <3> QED
      BY <3>1 DEF DeskMoves
  <2>3. CASE k \notin Disturbed
    <3>1. Moves(k, "unasked", "open", Granted)
      <4>1. ~Ran(k)
        BY <1>2, <1>a, <2>3 DEF GateQueue, Ran
      <4>2. Standing(k) = "unasked" /\ Standing(k)' = "open"
        BY <1>2, <1>a, <1>b, <2>1, <2>3, <4>1 DEF GateQueue
      <4>3. \A c \in Concessions \ {k} : Standing(c)' = Standing(c)
        BY <1>2, <1>a, <1>b, <2>1 DEF GateQueue
      <4>4. Granted' = Granted
        BY <1>2, <2>1 DEF GateQueue, Granted
      <4> QED
        BY <4>2, <4>3, <4>4, <1>c DEF Moves
    <3> QED
      BY <3>1 DEF DeskMoves
  <2> QED
    BY <2>2, <2>3
<1>3. ASSUME NEW d \in Deciders, NEW k \in Concessions, NEW first \in {"approving", "rejecting"},
             BeginDecision(d, k, first)
      PROVE  DeskMoves
  <2>1. \A c \in Concessions : Ran(c)' = Ran(c)
    BY <1>3 DEF BeginDecision, Ran, Open
  <2>2. Disturbed' = Disturbed \/ Disturbed' = Disturbed \cup {k}
    BY <1>3 DEF BeginDecision, Disturbed
  <2>3. CASE Disturbed' = Disturbed
    <3>1. Stutters
      BY <1>3, <1>a, <1>b, <1>d, <2>1, <2>3 DEF BeginDecision, rowVars
    <3> QED
      BY <3>1 DEF DeskMoves
  <2>4. CASE Disturbed' = Disturbed \cup {k}
    <3>1. Disturbance({k})
      <4>1. \A c \in Concessions : Standing(c)' = IF c = k THEN "disturbed" ELSE Standing(c)
        BY <1>3, <1>a, <1>b, <2>1, <2>4 DEF BeginDecision, rowVars
      <4>2. Granted' = Granted \ {k}
        BY <1>3, <2>4 DEF BeginDecision, Granted
      <4> QED
        BY <4>1, <4>2, <1>c DEF Disturbance
    <3> QED
      BY <3>1 DEF DeskMoves
  <2> QED
    BY <2>2, <2>3, <2>4
<1>4. ASSUME NEW d \in Deciders, RunCommits(d) PROVE DeskMoves
  <2>k. PICK k \in Concessions : k = deciding[d]
    BY <1>4
  <2>1. d \in Open(k) /\ Disturbed' = Disturbed
    BY <1>4, <2>k DEF RunCommits, Open, Disturbed
  <2>2. Ran(k)' /\ \A c \in Concessions \ {k} : Ran(c)' = Ran(c)
    BY <1>4, <2>k DEF RunCommits, Ran, Open
  <2>3. CASE k \in Disturbed
    <3>1. Stutters
      BY <1>4, <2>k, <1>a, <1>b, <1>d, <2>1, <2>2, <2>3 DEF RunCommits, rowVars
    <3> QED
      BY <3>1 DEF DeskMoves
  <2>4. CASE k \notin Disturbed
    <3>1. Moves(k, "open", "applied", Granted \cup {k})
      <4>1. ~Ran(k) /\ status[k] = "PENDING"
        BY <1>4, <2>k, <1>a, <2>1, <2>4 DEF RunCommits, Ran
      <4>2. Standing(k) = "open" /\ Standing(k)' = "applied"
        BY <1>4, <2>k, <1>a, <1>b, <2>1, <2>2, <2>4, <4>1 DEF RunCommits, rowVars
      <4>3. \A c \in Concessions \ {k} : Standing(c)' = Standing(c)
        BY <1>4, <2>k, <1>a, <1>b, <2>1, <2>2 DEF RunCommits, rowVars
      <4>4. Granted' = Granted \cup {k}
        BY <1>4, <2>k, <1>a, <2>1, <2>4 DEF RunCommits, Granted
      <4> QED
        BY <2>1, <4>2, <4>3, <4>4, <1>c DEF Moves
    <3> QED
      BY <3>1, <2>1 DEF DeskMoves
  <2> QED
    BY <2>3, <2>4
<1>5. ASSUME NEW d \in Deciders, RunFails(d) PROVE DeskMoves
  <2>1. Disturbed' = Disturbed /\ \A c \in Concessions : Ran(c)' = Ran(c)
    BY <1>5 DEF RunFails, Disturbed, Ran, Open
  <2>2. Stutters
    BY <1>5, <1>a, <1>b, <1>d, <2>1 DEF RunFails, rowVars
  <2> QED
    BY <2>2 DEF DeskMoves
<1>6. ASSUME NEW d \in Deciders, SaveApproval(d) PROVE DeskMoves
  <2>k. PICK k \in Concessions : k = deciding[d]
    BY <1>6
  <2>1. d \in Open(k) /\ Disturbed' = Disturbed
    BY <1>6, <2>k DEF SaveApproval, SaveRow, Open, Disturbed
  <2>2. \A c \in Concessions \ {k} : Ran(c)' = Ran(c)
    BY <1>6, <2>k DEF SaveApproval, SaveRow, Ran, Open
  <2>3. \A c \in Concessions \ {k} : Standing(c)' = Standing(c)
    BY <1>6, <2>k, <1>a, <1>b, <2>1, <2>2 DEF SaveApproval, SaveRow
  <2>4. Granted' = Granted
    BY <1>6, <2>k, <2>1 DEF SaveApproval, SaveRow, Granted
  <2>5. CASE k \in Disturbed \/ Ran(k)
    <3>1. Standing(k)' = Standing(k)
      BY <1>6, <2>k, <1>a, <1>b, <2>1, <2>5 DEF SaveApproval, SaveRow
    <3> QED
      BY <3>1, <2>3, <2>4, <1>c DEF Stutters, DeskMoves
  <2>6. CASE k \notin Disturbed /\ ~Ran(k)
    <3>1. Standing(k) = "open" /\ Standing(k)' = "applied"
      BY <1>6, <2>k, <1>a, <1>b, <2>1, <2>6 DEF SaveApproval, SaveRow
    <3>2. Moves(k, "open", "applied", Granted)
      BY <3>1, <2>1, <2>3, <2>4, <1>c DEF Moves
    <3> QED
      BY <3>2, <2>1 DEF DeskMoves
  <2> QED
    BY <2>5, <2>6
<1>7. ASSUME NEW d \in Deciders, SaveRejection(d) PROVE DeskMoves
  <2>k. PICK k \in Concessions : k = deciding[d]
    BY <1>7
  <2>1. d \in Open(k) /\ Disturbed' = Disturbed
    BY <1>7, <2>k DEF SaveRejection, SaveRow, Open, Disturbed
  <2>2. \A c \in Concessions \ {k} : Ran(c)' = Ran(c)
    BY <1>7, <2>k DEF SaveRejection, SaveRow, Ran, Open
  <2>3. \A c \in Concessions \ {k} : Standing(c)' = Standing(c)
    BY <1>7, <2>k, <1>a, <1>b, <2>1, <2>2 DEF SaveRejection, SaveRow
  <2>4. Granted' = Granted
    BY <1>7, <2>k, <2>1 DEF SaveRejection, SaveRow, Granted
  <2>5. CASE k \in Disturbed
    <3>1. Standing(k)' = Standing(k)
      BY <1>a, <1>b, <2>1, <2>5
    <3> QED
      BY <3>1, <2>3, <2>4, <1>c DEF Stutters, DeskMoves
  <2>6. CASE k \notin Disturbed
    <3>1. ~Ran(k) /\ status[k] = "PENDING"
      BY <1>7, <2>k, <1>a, <2>1, <2>6 DEF SaveRejection, Ran
    <3>2. Standing(k) = "open" /\ Standing(k)' = "refused"
      BY <1>7, <2>k, <1>a, <1>b, <2>1, <2>6, <3>1 DEF SaveRejection, SaveRow
    <3>3. Moves(k, "open", "refused", Granted)
      BY <3>2, <2>1, <2>3, <2>4, <1>c DEF Moves
    <3> QED
      BY <3>3, <2>1 DEF DeskMoves
  <2> QED
    BY <2>5, <2>6
<1>8. CASE Restart
  <2> DEFINE C == Disturbed'
  <2>1. C \in SUBSET Concessions /\ Disturbed \subseteq C
    BY <1>8 DEF Restart, Disturbed
  <2>2. \A c \in Concessions \ C : ~Ran(c) /\ ~Ran(c)'
    BY <1>8 DEF Restart, Disturbed, Ran, Open
  <2>3. \A c \in Concessions : Standing(c)' = IF c \in C THEN "disturbed" ELSE Standing(c)
    BY <1>8, <1>a, <1>b, <2>1, <2>2 DEF Restart, rowVars
  <2>4. Granted' = Granted \ C
    BY <1>8, <2>1 DEF Restart, Granted
  <2>5. Disturbance(C)
    BY <2>3, <2>4, <1>c DEF Disturbance
  <2> QED
    BY <2>1, <2>5 DEF DeskMoves
<1>9. CASE UNCHANGED approvalVars
  <2>1. Disturbed' = Disturbed /\ \A c \in Concessions : Ran(c)' = Ran(c)
    BY <1>9 DEF approvalVars, requestVars, Disturbed, Ran, Open
  <2>2. Stutters
    BY <1>9, <1>a, <1>b, <1>d, <2>1 DEF approvalVars, rowVars
  <2> QED
    BY <2>2 DEF DeskMoves
<1> QED
  BY <1>1, <1>2, <1>3, <1>4, <1>5, <1>6, <1>7, <1>8, <1>9
  DEF NextApprovals, Approve, Reject, Proceed

\* approve and reject, await by await and with restarts, implement the desk
\* that grants or refuses each undisturbed concession once.
THEOREM ApprovalsImplementDesk == SpecApprovals => DecidesLikeDesk
<1>1. InitApprovals => Desk!Init
  BY DEF InitApprovals, Desk!Init, Standing, Disturbed, Open
<1>2. ASSUME ApprovalsTypeOK, ApprovalsTypeOK', Orderly, [NextApprovals]_approvalVars
      PROVE  [Desk!Next]_(Desk!vars)
  <2>1. DeskMoves
    BY <1>2, DeskStep
  <2> QED
    BY <2>1 DEF DeskMoves, Stutters, Disturbance, Moves, State, Granted, Desk!Next, Desk!vars,
      Desk!Disturb, Desk!Ask, Desk!ApplyAtOnce, Desk!Grant, Desk!Refuse
<1> QED
  BY <1>1, <1>2, OrderlyAlways, PTL DEF SpecApprovals, DecidesLikeDesk, Desk!Spec

-----------------------------------------------------------------------------
(* Uploads of fees.                                                        *)

(* As long as the school code is spelled alike, the unique key of the fees *)
(* bills no student one term twice, although a file is validated outside   *)
(* the transaction that writes it.                                         *)

\* What a request may write: its students are its own or found in the table.
LEMMA WrittenRows ==
    ASSUME FeeUploadTypeOK, NEW u \in Uploads, NEW ids \in IdByKey(u)
    PROVE  /\ Created(u) \subseteq StudentsOf(file[u])
           /\ StudentsOf(file[u]) \subseteq StudentRows
           /\ \A r \in file[u] :
                 /\ r \in Rows
                 /\ ids[r.adm] \in students \cup Created(u)
                 /\ ids[r.adm].adm = r.adm
<1>1. file[u] \subseteq Rows /\ found[u] \subseteq students
  BY DEF FeeUploadTypeOK
<1>2. Created(u) \subseteq StudentsOf(file[u])
  BY DEF Created
<1>3. StudentsOf(file[u]) \subseteq StudentRows
  BY <1>1 DEF StudentsOf, StudentRows, Rows
<1>4. ASSUME NEW r \in file[u]
      PROVE  r \in Rows /\ ids[r.adm] \in students \cup Created(u) /\ ids[r.adm].adm = r.adm
  BY <1>1, <1>4 DEF IdByKey
<1> QED
  BY <1>2, <1>3, <1>4

LEMMA UploadTypeStep ==
    FeeUploadTypeOK /\ [NextFeeUpload]_feeUploadVars => FeeUploadTypeOK'
<1> SUFFICES ASSUME FeeUploadTypeOK, [NextFeeUpload]_feeUploadVars PROVE FeeUploadTypeOK'
  OBVIOUS
<1>1. ASSUME NEW u \in Uploads, NEW f \in Files, Validate(u, f) \/ CreateOne(u, f)
      PROVE  FeeUploadTypeOK'
  BY <1>1 DEF FeeUploadTypeOK, Validate, CreateOne, Files, UploadEnds, tableVars
<1>2. ASSUME NEW u \in Uploads, NEW code \in CodeSpellings, ReadRows(u, code)
      PROVE  FeeUploadTypeOK'
  <2>1. found' \in [Uploads -> SUBSET students]
    BY <1>2 DEF ReadRows, FeeUploadTypeOK
  <2>2. foundParents' \in [Uploads -> SUBSET parentRows]
    BY <1>2 DEF ReadRows, FeeUploadTypeOK
  <2> QED
    BY <1>2, <2>1, <2>2 DEF FeeUploadTypeOK, ReadRows, UploadEnds, tableVars
<1>3. ASSUME NEW u \in Uploads, NEW ids, Save(u, ids) PROVE FeeUploadTypeOK'
  <2>1. ids \in IdByKey(u)
    BY <1>3 DEF Save
  <2>2. students' \subseteq StudentRows
    BY <1>3, <2>1, WrittenRows DEF Save, FeeUploadTypeOK
  <2>3. NewFees(u, ids) \subseteq
          [branch : CodeSpellings, student : students', term : Terms, by : Uploads]
    <3> SUFFICES ASSUME NEW r \in file[u]
                 PROVE  [branch |-> r.code, student |-> ids[r.adm], term |-> r.term, by |-> u]
                          \in [branch : CodeSpellings, student : students', term : Terms, by : Uploads]
      BY DEF NewFees
    <3>1. r \in Rows /\ ids[r.adm] \in students \cup Created(u)
      BY <2>1, WrittenRows
    <3>2. students' = students \cup Created(u)
      BY <1>3 DEF Save
    <3> QED
      BY <3>1, <3>2 DEF Rows
  <2>4. fees' \subseteq [branch : CodeSpellings, student : students', term : Terms, by : Uploads]
    <3>1. fees \subseteq [branch : CodeSpellings, student : students', term : Terms, by : Uploads]
      BY <1>3 DEF Save, FeeUploadTypeOK
    <3> QED
      BY <1>3, <2>3, <3>1 DEF Save
  <2>5. parentRows' = {EmailOf[s.adm] : s \in students'}
    <3>1. ParentsOf(file[u]) = {EmailOf[s.adm] : s \in StudentsOf(file[u])}
      <4>1. \A r \in file[u] : /\ [code |-> r.code, adm |-> r.adm] \in StudentsOf(file[u])
                               /\ [code |-> r.code, adm |-> r.adm].adm = r.adm
        BY DEF StudentsOf
      <4>2. \A s \in StudentsOf(file[u]) : \E r \in file[u] : s.adm = r.adm
        BY DEF StudentsOf
      <4> QED
        BY <4>1, <4>2, ZenonT(30) DEF ParentsOf
    <3>2. \A s \in StudentsOf(file[u]) :
            s \in Created(u) \/ \E t \in students : t.adm = s.adm
      BY DEF Created, FeeUploadTypeOK
    <3>3. students' = students \cup Created(u) /\ parentRows' = parentRows \cup ParentsOf(file[u])
      BY <1>3 DEF Save
    <3>4. Created(u) \subseteq StudentsOf(file[u])
      BY DEF Created
    <3> QED
      BY <3>1, <3>2, <3>3, <3>4 DEF FeeUploadTypeOK
  <2>6. /\ found' \in [Uploads -> SUBSET students']
        /\ foundParents' \in [Uploads -> SUBSET parentRows']
    BY <1>3 DEF Save, FeeUploadTypeOK
  <2>7. uploadStage' \in [Uploads -> {"new", "valid", "read"} \cup UploadEnds]
    BY <1>3 DEF Save, FeeUploadTypeOK, UploadEnds
  <2> QED
    BY <1>3, <2>2, <2>4, <2>5, <2>6, <2>7 DEF FeeUploadTypeOK, Save
<1>4. ASSUME NEW u \in Uploads, NEW ids, Conflict(u, ids) PROVE FeeUploadTypeOK'
  BY <1>4 DEF FeeUploadTypeOK, Conflict, UploadEnds, tableVars
<1>5. CASE UNCHANGED feeUploadVars
  BY <1>5 DEF FeeUploadTypeOK, feeUploadVars, tableVars
<1> QED
  BY <1>1, <1>2, <1>3, <1>4, <1>5 DEF NextFeeUpload

\* What is in the tables came from a file, and if the files spell the school
\* code alike, no student is billed twice.
FromFiles ==
    /\ \A s \in students : \E u \in Uploads : \E r \in file[u] : s.code = r.code
    /\ \A x \in fees : \E u \in Uploads : \E r \in file[u] : x.branch = r.code
    /\ \A u \in Uploads : uploadStage[u] = "new" => file[u] = {}

FeeUploadInv == FeeUploadTypeOK /\ FromFiles /\ BilledOnceIfSpelledAlike

LEMMA UploadInit == InitFeeUpload => FeeUploadInv
<1> SUFFICES ASSUME InitFeeUpload PROVE FeeUploadInv
  OBVIOUS
<1>1. FeeUploadTypeOK
  BY DEF InitFeeUpload, FeeUploadTypeOK
<1>2. FromFiles /\ BilledOnceIfSpelledAlike
  BY DEF InitFeeUpload, FromFiles, BilledOnceIfSpelledAlike, EachTermBilledOnce
<1> QED
  BY <1>1, <1>2 DEF FeeUploadInv

LEMMA FilesStep ==
    FeeUploadInv /\ [NextFeeUpload]_feeUploadVars => FromFiles'
<1> SUFFICES ASSUME FeeUploadTypeOK, FromFiles, [NextFeeUpload]_feeUploadVars PROVE FromFiles'
  BY DEF FeeUploadInv
<1>1. ASSUME NEW u \in Uploads, NEW f \in Files, Validate(u, f) \/ CreateOne(u, f)
      PROVE  FromFiles'
  BY <1>1 DEF FeeUploadTypeOK, FromFiles, Validate, CreateOne, tableVars
<1>2. ASSUME NEW u \in Uploads, NEW code \in CodeSpellings, ReadRows(u, code)
      PROVE  FromFiles'
  BY <1>2 DEF FeeUploadTypeOK, FromFiles, ReadRows, tableVars
<1>3. ASSUME NEW u \in Uploads, NEW ids, Save(u, ids) PROVE FromFiles'
  <2>1. file' = file /\ \A v \in Uploads : uploadStage'[v] = "new" => uploadStage[v] = "new"
    BY <1>3 DEF Save, FeeUploadTypeOK
  <2>2. \A s \in students' : \E v \in Uploads : \E r \in file[v] : s.code = r.code
    BY <1>3 DEF Save, FromFiles, Created, StudentsOf
  <2>3. \A x \in fees' : \E v \in Uploads : \E r \in file[v] : x.branch = r.code
    BY <1>3 DEF Save, FromFiles, NewFees
  <2> QED
    BY <2>1, <2>2, <2>3 DEF FromFiles
<1>4. ASSUME NEW u \in Uploads, NEW ids, Conflict(u, ids) PROVE FromFiles'
  BY <1>4 DEF FeeUploadTypeOK, FromFiles, Conflict, tableVars
<1>5. CASE UNCHANGED feeUploadVars
  BY <1>5 DEF FromFiles, feeUploadVars, tableVars
<1> QED
  BY <1>1, <1>2, <1>3, <1>4, <1>5 DEF NextFeeUpload

\* The heart of it: the unique key of the fees has the school code in it, so it
\* tells two bills of one student and term apart only if the spelling does.
LEMMA BilledStep ==
    FeeUploadInv /\ [NextFeeUpload]_feeUploadVars => BilledOnceIfSpelledAlike'
<1> SUFFICES ASSUME FeeUploadTypeOK, FromFiles, BilledOnceIfSpelledAlike,
                    [NextFeeUpload]_feeUploadVars, SpelledAlike'
             PROVE  EachTermBilledOnce'
  BY DEF FeeUploadInv, BilledOnceIfSpelledAlike
<1>1. ASSUME NEW u \in Uploads, NEW ids, Save(u, ids) PROVE EachTermBilledOnce'
  <2>1. /\ ids \in IdByKey(u) /\ ~Violates(u, ids)
        /\ fees' = fees \cup NewFees(u, ids) /\ file' = file
    BY <1>1 DEF Save
  <2>2. SpelledAlike /\ EachTermBilledOnce
    BY <2>1 DEF SpelledAlike, BilledOnceIfSpelledAlike
  <2>3. ASSUME NEW r \in file[u], NEW y \in fees,
               ids[r.adm].adm = y.student.adm, r.term = y.term
        PROVE  FALSE
    <3>1. /\ y.branch = r.code /\ y.student \in students /\ y.student.code = r.code
          /\ y.student \in StudentRows
      BY <2>2 DEF FromFiles, SpelledAlike, FeeUploadTypeOK
    <3>2. ids[r.adm] \in StudentRows /\ ids[r.adm].code = r.code
      <4>1. ids[r.adm] \in students \cup Created(u)
        BY <2>1, WrittenRows
      <4>2. \A s \in students : s \in StudentRows /\ s.code = r.code
        BY <2>2 DEF FromFiles, SpelledAlike, FeeUploadTypeOK
      <4>3. \A s \in Created(u) : s \in StudentRows
        BY <2>1, WrittenRows
      <4>4. \A s \in Created(u) : s.code = r.code
        BY <2>2 DEF Created, StudentsOf, SpelledAlike
      <4> QED
        BY <4>1, <4>2, <4>3, <4>4
    <3>3. ids[r.adm] = y.student
      BY <2>3, <3>1, <3>2 DEF StudentRows
    <3>4. [branch |-> r.code, student |-> ids[r.adm], term |-> r.term, by |-> u]
            \in NewFees(u, ids)
      BY DEF NewFees
    <3> QED
      BY <2>1, <2>3, <3>1, <3>3, <3>4 DEF Violates
  <2>4. ASSUME NEW r \in file[u], NEW s \in file[u],
               ids[r.adm].adm = ids[s.adm].adm, r.term = s.term
        PROVE  r = s
    <3>1. r.adm = s.adm /\ r \in Rows /\ s \in Rows
      BY <2>1, <2>4, WrittenRows
    <3>2. r.code = s.code
      BY <2>2 DEF SpelledAlike
    <3> QED
      BY <2>4, <3>1, <3>2 DEF Rows
  <2>5. \A x \in NewFees(u, ids) : \E r \in file[u] :
           x = [branch |-> r.code, student |-> ids[r.adm], term |-> r.term, by |-> u]
    BY DEF NewFees
  <2>6. ASSUME NEW x \in fees', NEW y \in fees',
               x.student.adm = y.student.adm, x.term = y.term
        PROVE  x = y
    <3>1. CASE x \in fees /\ y \in fees
      BY <2>2, <2>6, <3>1 DEF EachTermBilledOnce
    <3>2. CASE x \in NewFees(u, ids) /\ y \in fees
      BY <2>3, <2>5, <2>6, <3>2
    <3>3. CASE x \in fees /\ y \in NewFees(u, ids)
      BY <2>3, <2>5, <2>6, <3>3
    <3>4. CASE x \in NewFees(u, ids) /\ y \in NewFees(u, ids)
      BY <2>4, <2>5, <2>6, <3>4
    <3> QED
      BY <2>1, <2>6, <3>1, <3>2, <3>3, <3>4
  <2> QED
    BY <2>6 DEF EachTermBilledOnce
<1>2. ASSUME fees' = fees, \A u \in Uploads : file[u] \subseteq file'[u]
      PROVE  EachTermBilledOnce'
  <2>1. SpelledAlike
    BY <1>2 DEF SpelledAlike
  <2> QED
    BY <1>2, <2>1 DEF BilledOnceIfSpelledAlike, EachTermBilledOnce
<1>3. ASSUME NEW u \in Uploads, NEW f \in Files, Validate(u, f) \/ CreateOne(u, f)
      PROVE  EachTermBilledOnce'
  BY <1>2, <1>3 DEF FeeUploadTypeOK, FromFiles, Validate, CreateOne, tableVars
<1>4. ASSUME NEW u \in Uploads, NEW code \in CodeSpellings, ReadRows(u, code)
      PROVE  EachTermBilledOnce'
  BY <1>2, <1>4 DEF ReadRows, tableVars
<1>5. ASSUME NEW u \in Uploads, NEW ids, Conflict(u, ids) PROVE EachTermBilledOnce'
  BY <1>2, <1>5 DEF Conflict, tableVars
<1>6. CASE UNCHANGED feeUploadVars
  BY <1>2, <1>6 DEF feeUploadVars, tableVars
<1> QED
  BY <1>1, <1>3, <1>4, <1>5, <1>6 DEF NextFeeUpload

LEMMA UploadAlways == SpecFeeUpload => []FeeUploadInv
<1>1. FeeUploadInv /\ [NextFeeUpload]_feeUploadVars => FeeUploadInv'
  BY UploadTypeStep, FilesStep, BilledStep DEF FeeUploadInv
<1> QED
  BY <1>1, UploadInit, PTL DEF SpecFeeUpload

-----------------------------------------------------------------------------
\* The tables and the requests keep their domains; every parent has a child
\* in the students table and every child its parent.
THEOREM UploadTypeCorrect == SpecFeeUpload => []FeeUploadTypeOK
<1>1. FeeUploadInv => FeeUploadTypeOK
  BY DEF FeeUploadInv
<1> QED
  BY <1>1, UploadAlways, PTL

\* confirmUpload and createOne: whatever requests race, a student is billed a
\* term once if the school code is spelled alike.
THEOREM BilledOnceCorrect == SpecFeeUpload => []BilledOnceIfSpelledAlike
<1>1. FeeUploadInv => BilledOnceIfSpelledAlike
  BY DEF FeeUploadInv
<1> QED
  BY <1>1, UploadAlways, PTL

-----------------------------------------------------------------------------
(* Academic years.                                                         *)

\* The transaction is for setting the flag, a request at rest has none, and a
\* catalog with the flag has the year it is for.
FlagsMeant ==
    \A r \in YearEditors :
        /\ edit[r].at \in {"begun", "waiting", "unset"} => edit[r].flag
        /\ edit[r].at = "idle" => ~ edit[r].flag
        /\ edit[r].at = "seeding" /\ edit[r].flag => Newest \in edit[r].sought

\* What the one request with the flag knows of the rows that have it: it has
\* unset them, or it is about to, or the only one is its own.
KnowsCurrent(r) ==
    /\ edit[r].at = "saving" => currentYears \subseteq {edit[r].year}
    /\ edit[r].at = "waiting" => currentYears \subseteq edit[r].sought
    /\ edit[r].at = "unset" => currentYears \subseteq edit[r].held
    /\ edit[r].at = "seeding" => currentYears = {}

FlagAlone ==
    ~ flagsMet =>
        /\ \A r, q \in Flagged : r = q
        /\ \A r \in Flagged : KnowsCurrent(r)

YearsInv == AcademicYearsTypeOK /\ FlagsMeant /\ FlagAlone /\ OneCurrentYear

YearsUnchanged == UNCHANGED <<years, currentYears, yearEdits, flagsMet>>
EditRows ==
    [at : {"idle", "saving", "begun", "waiting", "unset", "seeding"}, year : Years,
     flag : BOOLEAN, inserts : BOOLEAN, sought : SUBSET Years, held : SUBSET Years]

LEMMA YearsInit == InitAcademicYears => YearsInv
<1> SUFFICES ASSUME InitAcademicYears PROVE YearsInv
  OBVIOUS
<1>1. NoEdit \in EditRows /\ NoEdit.at = "idle" /\ NoEdit.flag = FALSE
  BY AcademicYearsAssumption DEF NoEdit, Editing, EditRows
<1>2. /\ years = {} /\ currentYears = {} /\ yearEdits = 0 /\ flagsMet = FALSE
      /\ \A r \in YearEditors : edit[r] = NoEdit
      /\ edit \in [YearEditors -> EditRows]
  BY <1>1 DEF InitAcademicYears
<1>3. AcademicYearsTypeOK
  <2>1. 0 \in 0 .. MaxYearEdits
    BY AcademicYearsAssumption
  <2> QED
    BY <1>2, <2>1 DEF AcademicYearsTypeOK, EditRows
<1>4. FlagsMeant /\ FlagAlone /\ OneCurrentYear
  BY <1>1, <1>2 DEF FlagsMeant, FlagAlone, Flagged, OneCurrentYear
<1> QED
  BY <1>3, <1>4 DEF YearsInv

\* A request begins.  If it carries the flag, what it knows is true.
LEMMA BeginEditStep ==
    ASSUME YearsInv, NEW r \in YearEditors, NEW e \in EditRows, BeginEdit(r, e),
           e.at \in {"saving", "begun", "seeding"}, e.at = "begun" => e.flag,
           e.at = "saving" /\ e.flag => e.year \in currentYears,
           e.at = "seeding" /\ e.flag => currentYears = {} /\ Newest \in e.sought
    PROVE  YearsInv'
<1>0. /\ AcademicYearsTypeOK /\ FlagsMeant /\ FlagAlone /\ OneCurrentYear
      /\ edit \in [YearEditors -> EditRows]
  BY DEF YearsInv, AcademicYearsTypeOK, EditRows
<1>1. /\ edit' \in [YearEditors -> EditRows] /\ edit'[r] = e
      /\ \A q \in YearEditors : q # r => edit'[q] = edit[q]
      /\ edit[r].flag = FALSE
  BY <1>0 DEF BeginEdit, NoEdit, Editing
<1>2. /\ years' = years /\ currentYears' = currentYears
      /\ flagsMet' = (flagsMet \/ (e.flag /\ Flagged # {}))
  BY DEF BeginEdit
<1>3. AcademicYearsTypeOK'
  <2>1. yearEdits' \in 0 .. MaxYearEdits /\ flagsMet' \in BOOLEAN
    BY <1>0, AcademicYearsAssumption DEF BeginEdit, AcademicYearsTypeOK
  <2> QED
    BY <1>0, <1>1, <1>2, <2>1 DEF AcademicYearsTypeOK, EditRows
<1>4. FlagsMeant'
  BY <1>0, <1>1 DEF FlagsMeant
<1>5. FlagAlone'
  <2> SUFFICES ASSUME ~ flagsMet'
               PROVE  /\ \A q, s \in Flagged' : q = s
                      /\ \A q \in Flagged' : KnowsCurrent(q)'
    BY DEF FlagAlone
  <2>1. /\ ~ flagsMet /\ (e.flag => Flagged = {})
        /\ \A q, s \in Flagged : q = s
        /\ \A q \in Flagged : KnowsCurrent(q)
        /\ \A x, y \in currentYears : x = y
    BY <1>0, <1>2 DEF FlagAlone, OneCurrentYear
  <2>2. Flagged' = IF e.flag THEN Flagged \cup {r} ELSE Flagged
    BY <1>1, <1>0 DEF Flagged, EditRows
  <2>3. e.flag => KnowsCurrent(r)'
    BY <1>1, <1>2, <2>1 DEF KnowsCurrent
  <2>4. \A q \in Flagged : KnowsCurrent(q)'
    BY <1>1, <1>2, <2>1 DEF KnowsCurrent, Flagged
  <2> QED
    BY <2>1, <2>2, <2>3, <2>4
<1>6. OneCurrentYear'
  BY <1>0, <1>2 DEF OneCurrentYear
<1> QED
  BY <1>3, <1>4, <1>5, <1>6 DEF YearsInv

\* One request goes on, and no year becomes a current one.
LEMMA EditGoesOn ==
    ASSUME YearsInv, NEW r \in YearEditors, NEW e \in EditRows, edit' = [edit EXCEPT ![r] = e],
           YearsUnchanged, e.flag = edit[r].flag, e.at \in {"waiting", "unset"},
           edit[r].at \in {"begun", "waiting"},
           e.at = "waiting" => currentYears \subseteq e.sought,
           e.at = "unset" => edit[r].at = "waiting" /\ (edit[r].sought \cap currentYears) \subseteq e.held
    PROVE  YearsInv'
<1>0. /\ AcademicYearsTypeOK /\ FlagsMeant /\ FlagAlone /\ OneCurrentYear
      /\ edit \in [YearEditors -> EditRows]
  BY DEF YearsInv, AcademicYearsTypeOK, EditRows
<1>1. /\ edit' \in [YearEditors -> EditRows] /\ edit'[r] = e
      /\ \A q \in YearEditors : q # r => edit'[q] = edit[q]
      /\ UNCHANGED <<years, currentYears, yearEdits, flagsMet>>
  BY <1>0 DEF YearsUnchanged
<1>2. AcademicYearsTypeOK'
  BY <1>0, <1>1 DEF AcademicYearsTypeOK, EditRows
<1>3. FlagsMeant'
  BY <1>0, <1>1 DEF FlagsMeant
<1>4. FlagAlone'
  <2>1. Flagged' = Flagged
    BY <1>1 DEF Flagged
  <2>2. \A q \in Flagged : KnowsCurrent(q) => KnowsCurrent(q)'
    BY <1>1 DEF KnowsCurrent, Flagged
  <2> QED
    BY <1>0, <1>1, <2>1, <2>2 DEF FlagAlone
<1>5. OneCurrentYear'
  BY <1>0, <1>1 DEF OneCurrentYear
<1> QED
  BY <1>2, <1>3, <1>4, <1>5 DEF YearsInv

\* One request ends: at most a year of its own becomes a current one.
LEMMA EditEnds ==
    ASSUME YearsInv, NEW r \in YearEditors, EndEdit(r), UNCHANGED <<yearEdits, flagsMet>>,
           years' \subseteq Years, currentYears' \subseteq years',
           \/ currentYears' \subseteq currentYears
           \/ edit[r].flag /\ \E y \in Years : KnowsCurrent(r) => currentYears' \subseteq {y}
    PROVE  YearsInv'
<1>0. /\ AcademicYearsTypeOK /\ FlagsMeant /\ FlagAlone /\ OneCurrentYear
      /\ edit \in [YearEditors -> EditRows]
  BY DEF YearsInv, AcademicYearsTypeOK, EditRows
<1>1. NoEdit \in EditRows /\ NoEdit.at = "idle" /\ NoEdit.flag = FALSE
  BY AcademicYearsAssumption DEF NoEdit, Editing, EditRows
<1>2. /\ edit' \in [YearEditors -> EditRows] /\ edit'[r] = NoEdit
      /\ \A q \in YearEditors : q # r => edit'[q] = edit[q]
  BY <1>0, <1>1 DEF EndEdit
<1>3. AcademicYearsTypeOK'
  BY <1>0, <1>2 DEF AcademicYearsTypeOK, EditRows
<1>4. FlagsMeant'
  BY <1>0, <1>1, <1>2 DEF FlagsMeant
<1>5. Flagged' = Flagged \ {r}
  BY <1>1, <1>2 DEF Flagged
<1>6. FlagAlone' /\ OneCurrentYear'
  <2> SUFFICES ASSUME ~ flagsMet
               PROVE  /\ \A q, s \in Flagged' : q = s
                      /\ \A q \in Flagged' : KnowsCurrent(q)'
                      /\ \A x, y \in currentYears' : x = y
    BY DEF FlagAlone, OneCurrentYear
  <2>1. /\ \A q, s \in Flagged : q = s
        /\ \A q \in Flagged : KnowsCurrent(q)
        /\ \A x, y \in currentYears : x = y
    BY <1>0 DEF FlagAlone, OneCurrentYear
  <2>2. CASE currentYears' \subseteq currentYears
    <3>1. \A q \in Flagged' : KnowsCurrent(q)'
      BY <1>2, <1>5, <2>1, <2>2 DEF KnowsCurrent, Flagged
    <3> QED
      BY <1>5, <2>1, <2>2, <3>1
  <2>3. CASE edit[r].flag /\ \E y \in Years : KnowsCurrent(r) => currentYears' \subseteq {y}
    <3>1. Flagged' = {}
      BY <1>5, <2>1, <2>3 DEF Flagged
    <3>2. r \in Flagged
      BY <2>3 DEF Flagged
    <3> QED
      BY <2>1, <2>3, <3>1, <3>2
  <2> QED
    BY <2>2, <2>3
<1> QED
  BY <1>3, <1>4, <1>6 DEF YearsInv

LEMMA YearsStep == YearsInv /\ [NextAcademicYears]_yearVars => YearsInv'
<1> SUFFICES ASSUME YearsInv, [NextAcademicYears]_yearVars PROVE YearsInv'
  OBVIOUS
<1>0. /\ AcademicYearsTypeOK /\ FlagsMeant /\ FlagAlone /\ OneCurrentYear
      /\ edit \in [YearEditors -> EditRows] /\ Newest \in Years
      /\ currentYears \subseteq years /\ years \subseteq Years
  BY AcademicYearsAssumption DEF YearsInv, AcademicYearsTypeOK, EditRows
<1>1. ASSUME NEW r \in YearEditors, NEW y \in Years, NEW c \in BOOLEAN,
             CreateYear(r, y, c) \/ UpdateYear(r, y, c) \/ EditYear(r, y)
      PROVE  YearsInv'
  <2>1. \A at \in {"saving", "begun"}, f, i \in BOOLEAN :
           /\ Editing(at, y, f, i) \in EditRows /\ Editing(at, y, f, i).at = at
           /\ Editing(at, y, f, i).flag = f /\ Editing(at, y, f, i).year = y
    BY DEF Editing, EditRows
  <2>2. CASE CreateYear(r, y, c)
    BY <2>1, <2>2, BeginEditStep DEF CreateYear
  <2>3. CASE UpdateYear(r, y, c)
    BY <2>1, <2>3, BeginEditStep DEF UpdateYear
  <2>4. CASE EditYear(r, y)
    <3> DEFINE e == Editing("saving", y, y \in currentYears, FALSE)
    <3>1. e.at = "saving" /\ e.year = y /\ e.flag = (y \in currentYears)
      BY DEF Editing
    <3>2. e \in EditRows
      BY DEF Editing, EditRows
    <3>3. BeginEdit(r, e)
      BY <2>4 DEF EditYear
    <3> HIDE DEF e
    <3> QED
      BY <3>1, <3>2, <3>3, BeginEditStep
  <2> QED
    BY <1>1, <2>2, <2>3, <2>4
<1>2. ASSUME NEW r \in YearEditors, NEW y \in Years, RemoveYear(r, y) PROVE YearsInv'
  <2>1. /\ edit' \in [YearEditors -> EditRows]
        /\ \A q \in YearEditors : /\ edit'[q].at = edit[q].at /\ edit'[q].flag = edit[q].flag
                                  /\ edit'[q].year = edit[q].year
                                  /\ edit'[q].sought = edit[q].sought
                                  /\ edit'[q].held = edit[q].held
    BY <1>0, <1>2, ZenonT(30) DEF RemoveYear, EditRows
  <2>2. years' = years \ {y} /\ currentYears' = currentYears \ {y} /\ flagsMet' = flagsMet
    BY <1>2 DEF RemoveYear
  <2>3. AcademicYearsTypeOK'
    <3>1. yearEdits' \in 0 .. MaxYearEdits
      BY <1>0, <1>2, AcademicYearsAssumption DEF RemoveYear, AcademicYearsTypeOK
    <3> QED
      BY <1>0, <2>1, <2>2, <3>1 DEF AcademicYearsTypeOK, EditRows
  <2>4. FlagsMeant' /\ OneCurrentYear'
    BY <1>0, <2>1, <2>2 DEF FlagsMeant, OneCurrentYear
  <2>5. FlagAlone'
    <3>1. Flagged' = Flagged
      BY <2>1 DEF Flagged
    <3>2. \A q \in Flagged : KnowsCurrent(q) => KnowsCurrent(q)'
      BY <2>1, <2>2 DEF KnowsCurrent, Flagged
    <3> QED
      BY <1>0, <2>2, <3>1, <3>2 DEF FlagAlone
  <2> QED
    BY <2>3, <2>4, <2>5 DEF YearsInv
<1>3. ASSUME NEW r \in YearEditors, SyncFromMetadata(r) PROVE YearsInv'
  <2> DEFINE e == [Editing("seeding", Newest, currentYears = {} /\ Newest \notin years, TRUE)
                      EXCEPT !.sought = Catalog \ years]
  <2>1. e \in EditRows /\ e.at = "seeding" /\ (e.flag => currentYears = {} /\ Newest \in e.sought)
    BY <1>0, AcademicYearsAssumption DEF Editing, EditRows
  <2>2. BeginEdit(r, e)
    BY <1>3 DEF SyncFromMetadata
  <2> HIDE DEF e
  <2> QED
    BY <2>1, <2>2, BeginEditStep
<1>4. ASSUME NEW r \in YearEditors, SeekCurrent(r) PROVE YearsInv'
  <2> DEFINE e == [edit[r] EXCEPT !.at = "waiting", !.sought = currentYears]
  <2>1. /\ e \in EditRows /\ e.at = "waiting" /\ e.sought = currentYears /\ e.flag = edit[r].flag
    BY <1>0 DEF EditRows
  <2>2. edit' = [edit EXCEPT ![r] = e]
    BY <1>0, <1>4 DEF SeekCurrent
  <2> HIDE DEF e
  <2> QED
    BY <1>4, <2>1, <2>2, EditGoesOn DEF SeekCurrent, YearsUnchanged
<1>5. ASSUME NEW r \in YearEditors, UnsetCurrent(r) PROVE YearsInv'
  <2> DEFINE e == [edit[r] EXCEPT !.at = "unset", !.held = @ \cup (edit[r].sought \cap currentYears)]
  <2>1. /\ e \in EditRows /\ e.at = "unset" /\ e.flag = edit[r].flag
        /\ (edit[r].sought \cap currentYears) \subseteq e.held
    BY <1>0 DEF EditRows
  <2>2. edit' = [edit EXCEPT ![r] = e]
    BY <1>0, <1>5 DEF UnsetCurrent
  <2> HIDE DEF e
  <2> QED
    BY <1>5, <2>1, <2>2, EditGoesOn DEF UnsetCurrent, YearsUnchanged
<1>6. ASSUME NEW r \in YearEditors, CommitCurrent(r) PROVE YearsInv'
  <2>1. edit[r].at = "unset" /\ edit[r].flag /\ edit[r].year \in Years
    BY <1>0, <1>6 DEF CommitCurrent, FlagsMeant, EditRows
  <2>2. KnowsCurrent(r) => currentYears' \subseteq {edit[r].year}
    BY <1>6, <2>1 DEF CommitCurrent, KnowsCurrent
  <2>3. years' \subseteq Years /\ currentYears' \subseteq years'
    BY <1>0, <1>6, <2>1 DEF CommitCurrent
  <2> QED
    BY <1>6, <2>1, <2>2, <2>3, EditEnds DEF CommitCurrent
<1>7. ASSUME NEW r \in YearEditors, SaveYear(r) PROVE YearsInv'
  <2>1. edit[r].at = "saving" /\ edit[r].year \in Years
    BY <1>0, <1>7 DEF SaveYear, EditRows
  <2>2. years' \subseteq Years /\ currentYears' \subseteq years'
    BY <1>0, <1>7, <2>1 DEF SaveYear
  <2>3. \/ currentYears' \subseteq currentYears
        \/ edit[r].flag /\ (KnowsCurrent(r) => currentYears' \subseteq {edit[r].year})
    BY <1>7, <2>1 DEF SaveYear, KnowsCurrent
  <2> QED
    BY <1>7, <2>1, <2>2, <2>3, EditEnds DEF SaveYear
<1>8. ASSUME NEW r \in YearEditors, SaveCatalog(r) PROVE YearsInv'
  <2>1. edit[r].at = "seeding" /\ edit[r].sought \subseteq Years
    BY <1>0, <1>8 DEF SaveCatalog, EditRows
  <2>2. \/ currentYears' \subseteq currentYears
        \/ edit[r].flag /\ (KnowsCurrent(r) => currentYears' \subseteq {Newest})
    BY <1>8, <2>1 DEF SaveCatalog, KnowsCurrent
  <2>3. years' \subseteq Years /\ currentYears' \subseteq years'
    BY <1>0, <1>8, <2>1 DEF SaveCatalog, FlagsMeant
  <2> QED
    BY <1>0, <1>8, <2>1, <2>2, <2>3, EditEnds DEF SaveCatalog
<1>9. ASSUME NEW r \in YearEditors, FailEdit(r) PROVE YearsInv'
  BY <1>0, <1>9, EditEnds DEF FailEdit
<1>10. CASE UNCHANGED yearVars
  BY <1>0, <1>10 DEF yearVars, YearsInv, AcademicYearsTypeOK, FlagsMeant, FlagAlone, Flagged,
                     KnowsCurrent, OneCurrentYear
<1> QED
  BY <1>1, <1>2, <1>3, <1>4, <1>5, <1>6, <1>7, <1>8, <1>9, <1>10 DEF NextAcademicYears

LEMMA YearsInvariant == SpecAcademicYears => []YearsInv
BY YearsInit, YearsStep, PTL DEF SpecAcademicYears

\* A year that has the flag has a row.
THEOREM YearsTypeCorrect == SpecAcademicYears => []AcademicYearsTypeOK
BY YearsInvariant, PTL DEF YearsInv

\* A school has one current year at most, however the UPDATE that unsets the
\* flag waits for the locks of others, unless two requests with the flag met.
THEOREM OneYearIsCurrent == SpecAcademicYears => []OneCurrentYear
BY YearsInvariant, PTL DEF YearsInv

-----------------------------------------------------------------------------
(* Receipt templates.                                                      *)

\* No request is at the template of another, and one copy is a default.
NoneDisturbed ==
    \A r, q \in TemplateEditors :
        r # q /\ revision[r] # NoRevision /\ revision[q] # NoRevision =>
            /\ revision[r].of # revision[q].of
            /\ ~ (revision[r].copy.isDefault /\ revision[q].copy.isDefault)

\* A request that makes a template the default saves a copy that says so, and
\* clears the others first.
MakesDefaults ==
    \A r \in TemplateEditors : LET v == revision[r] IN
        /\ v.at = "clearing" => v.makes
        /\ v.at # "idle" /\ v.makes => v.copy.isDefault

Default(t) == Exists(t) /\ template[t].isDefault
Serves(t, k) == template[t].kind \in {k, "BOTH"}

\* The template made the default last is one, and has no rival.
ChosenAlone(k) ==
    chosen[k] # NoTemplate =>
        /\ Default(chosen[k]) /\ template[chosen[k]].isActive /\ Serves(chosen[k], k)
        /\ \A s \in Templates : s # chosen[k] /\ Default(s) => ~ Serves(s, k)

\* Once the others are cleared, the copy to be saved has no rival.
Cleared(r) ==
    LET v == revision[r] IN
    v.at = "saving" /\ v.makes => \A k \in Covers(v.copy.kind) :
        /\ chosen[k] \in {v.of, NoTemplate}
        /\ \A s \in Templates : s # v.of /\ Default(s) => ~ Serves(s, k)

TemplatesInv ==
    /\ ReceiptTemplatesTypeOK
    /\ MakesDefaults
    /\ ~ copiesMet => /\ NoneDisturbed
                      /\ \A k \in Sources : ChosenAlone(k)
                      /\ \A r \in TemplateEditors : Cleared(r)

Revisions ==
    [at : {"clearing", "saving"}, of : Templates, copy : TemplateRows, makes : BOOLEAN,
     inserts : BOOLEAN]

LEMMA RevisionRows ==
    /\ \A v \in {NoRevision} \cup Revisions :
          v = NoRevision \/ (v \in Revisions /\ v.at # "idle")
    /\ NoRevision.at = "idle" /\ NoRevision \notin Revisions
BY DEF NoRevision, Revisions

LEMMA TemplatesInit == InitReceiptTemplates => TemplatesInv
<1> SUFFICES ASSUME InitReceiptTemplates PROVE TemplatesInv
  OBVIOUS
<1>1. \A r \in TemplateEditors : revision[r] = NoRevision /\ revision[r].at = "idle"
  BY DEF InitReceiptTemplates, NoRevision
<1>2. \A k \in Sources : chosen[k] = NoTemplate
  BY DEF InitReceiptTemplates
<1>3. ReceiptTemplatesTypeOK
  <2>1. 0 \in 0 .. MaxTemplateEdits
    BY ReceiptTemplatesAssumption
  <2>2. template \in [Templates -> TemplateRows \cup {NoTemplate}]
    BY DEF InitReceiptTemplates
  <2> QED
    BY <2>1, <2>2 DEF InitReceiptTemplates, ReceiptTemplatesTypeOK
<1>4. MakesDefaults /\ NoneDisturbed
  BY <1>1 DEF MakesDefaults, NoneDisturbed
<1>5. (\A k \in Sources : ChosenAlone(k)) /\ (\A r \in TemplateEditors : Cleared(r))
  BY <1>1, <1>2 DEF ChosenAlone, Cleared
<1> QED
  BY <1>3, <1>4, <1>5 DEF TemplatesInv

\* What the rows and requests look like, whatever met.
LEMMA TemplateTypes ==
    TemplatesInv =>
        /\ template \in [Templates -> TemplateRows \cup {NoTemplate}]
        /\ revision \in [TemplateEditors -> {NoRevision} \cup Revisions]
        /\ chosen \in [Sources -> Templates \cup {NoTemplate}]
        /\ \A t \in Templates : Exists(t) <=> template[t] \in TemplateRows
        /\ \A r \in TemplateEditors : revision[r].at # "idle" =>
              /\ revision[r] \in Revisions
              /\ revision[r].copy.kind \in Sources \cup {"BOTH"}
        /\ MakesDefaults
BY ReceiptTemplatesAssumption, RevisionRows
DEF TemplatesInv, ReceiptTemplatesTypeOK, Revisions, Exists, TemplateRows

\* A kind of template and the receipts it is for.
LEMMA KindsCovered ==
    /\ \A kind \in Sources \cup {"BOTH"}, k \in Sources : k \in Covers(kind) <=> kind \in {k, "BOTH"}
    /\ \A kind \in Sources \cup {"BOTH"} : \A k \in Covers(kind) :
          k \in Sources /\ {k, "BOTH"} \subseteq ReplacedKinds(kind)
BY DEF Sources, Covers, ReplacedKinds

LEMMA BeginRevisionStep ==
    ASSUME TemplatesInv, NEW r \in TemplateEditors, NEW t \in Templates, NEW copy \in TemplateRows,
           NEW makes \in BOOLEAN, BeginRevision(r, t, copy, makes), makes => copy.isDefault
    PROVE  TemplatesInv'
<1> DEFINE v == Revising(IF makes THEN "clearing" ELSE "saving", t, copy, makes, ~ Exists(t))
<1>0. /\ revision \in [TemplateEditors -> {NoRevision} \cup Revisions] /\ ReceiptTemplatesTypeOK
      /\ MakesDefaults
  BY TemplateTypes DEF TemplatesInv
<1>1. /\ v \in Revisions /\ v.of = t /\ v.copy = copy /\ v.makes = makes
      /\ v.at = (IF makes THEN "clearing" ELSE "saving") /\ v # NoRevision
  BY DEF Revising, Revisions, NoRevision
<1>2. revision' = [revision EXCEPT ![r] = v] /\ revision[r] = NoRevision
  BY DEF BeginRevision
<1> HIDE DEF v
<1>3. /\ revision' \in [TemplateEditors -> {NoRevision} \cup Revisions] /\ revision'[r] = v
      /\ \A q \in TemplateEditors : q # r => revision'[q] = revision[q]
  BY <1>0, <1>1, <1>2
<1>4. /\ template' = template /\ chosen' = chosen
      /\ copiesMet' = (copiesMet \/ \E q \in TemplateEditors : Disturbs(q, t, copy))
  BY DEF BeginRevision
<1>5. ReceiptTemplatesTypeOK'
  <2>1. templateEdits' \in 0 .. MaxTemplateEdits /\ copiesMet' \in BOOLEAN
    BY <1>0, ReceiptTemplatesAssumption DEF BeginRevision, ReceiptTemplatesTypeOK
  <2> QED
    BY <1>0, <1>3, <1>4, <2>1 DEF ReceiptTemplatesTypeOK, Revisions
<1>6. MakesDefaults'
  BY <1>0, <1>1, <1>3 DEF MakesDefaults
<1>7. ASSUME ~ copiesMet'
      PROVE  NoneDisturbed' /\ (\A k \in Sources : ChosenAlone(k)') /\ (\A q \in TemplateEditors : Cleared(q)')
  <2>1. /\ NoneDisturbed /\ (\A k \in Sources : ChosenAlone(k)) /\ (\A q \in TemplateEditors : Cleared(q))
        /\ \A q \in TemplateEditors : ~ Disturbs(q, t, copy)
    BY <1>4, <1>7 DEF TemplatesInv
  <2>2. NoneDisturbed'
    BY <1>1, <1>2, <1>3, <2>1 DEF NoneDisturbed, Disturbs
  <2>3. \A k \in Sources : ChosenAlone(k)'
    BY <1>4, <2>1 DEF ChosenAlone, Default, Exists, Serves
  <2>4. Cleared(r)'
    BY <1>1, <1>3 DEF Cleared
  <2>5. \A q \in TemplateEditors : q # r => Cleared(q)'
    BY <1>3, <1>4, <2>1 DEF Cleared, Default, Exists, Serves
  <2> QED
    BY <2>2, <2>3, <2>4, <2>5
<1> QED
  BY <1>5, <1>6, <1>7 DEF TemplatesInv

LEMMA ClearStep ==
    ASSUME TemplatesInv, NEW r \in TemplateEditors, ClearOtherDefaults(r) PROVE TemplatesInv'
<1> DEFINE v == revision[r]
           cleared == {s \in Templates \ {v.of} :
                          Exists(s) /\ template[s].kind \in ReplacedKinds(v.copy.kind)}
<1>0. /\ template \in [Templates -> TemplateRows \cup {NoTemplate}]
      /\ revision \in [TemplateEditors -> {NoRevision} \cup Revisions] /\ ReceiptTemplatesTypeOK
      /\ chosen \in [Sources -> Templates \cup {NoTemplate}]
      /\ MakesDefaults /\ v \in Revisions /\ v.makes /\ v.copy.isDefault
      /\ v.copy.kind \in Sources \cup {"BOTH"} /\ v # NoRevision
      /\ \A t \in Templates : Exists(t) <=> template[t] \in TemplateRows
  BY TemplateTypes, RevisionRows DEF TemplatesInv, ClearOtherDefaults, MakesDefaults
<1>1. /\ template' = [s \in Templates |-> IF s \in cleared
                        THEN [template[s] EXCEPT !.isDefault = FALSE] ELSE template[s]]
      /\ chosen' = [k \in Sources |-> IF chosen[k] \in cleared THEN NoTemplate ELSE chosen[k]]
      /\ copiesMet' = copiesMet /\ templateEdits' = templateEdits
  BY DEF ClearOtherDefaults
<1>2. /\ revision' \in [TemplateEditors -> {NoRevision} \cup Revisions]
      /\ revision'[r].at = "saving" /\ revision'[r].of = v.of /\ revision'[r].copy = v.copy
      /\ revision'[r].makes = v.makes /\ revision'[r] \in Revisions
      /\ \A q \in TemplateEditors : q # r => revision'[q] = revision[q]
  BY <1>0 DEF ClearOtherDefaults, Revisions
<1>3. /\ cleared \subseteq Templates /\ v.of \notin cleared
      /\ \A s \in cleared : template[s] \in TemplateRows /\ template[s].kind \in ReplacedKinds(v.copy.kind)
      /\ \A s \in Templates \ {v.of} :
            s \notin cleared => ~ Exists(s) \/ template[s].kind \notin ReplacedKinds(v.copy.kind)
  BY <1>0
<1> HIDE DEF v, cleared
<1>4. \A s \in Templates :
         /\ s \in cleared => /\ template'[s] \in TemplateRows /\ ~ template'[s].isDefault
                             /\ template'[s].kind = template[s].kind
         /\ s \notin cleared => template'[s] = template[s]
  BY <1>1, <1>3 DEF TemplateRows
<1>5. ReceiptTemplatesTypeOK'
  <2>1. /\ template' \in [Templates -> TemplateRows \cup {NoTemplate}]
        /\ chosen' \in [Sources -> Templates \cup {NoTemplate}]
    BY <1>0, <1>1, <1>4
  <2> QED
    BY <1>0, <1>1, <1>2, <2>1 DEF ReceiptTemplatesTypeOK, Revisions
<1>6. MakesDefaults'
  BY <1>0, <1>2 DEF MakesDefaults, v
<1>7. ASSUME ~ copiesMet
      PROVE  NoneDisturbed' /\ (\A k \in Sources : ChosenAlone(k)') /\ (\A q \in TemplateEditors : Cleared(q)')
  <2>1. /\ NoneDisturbed /\ (\A k \in Sources : ChosenAlone(k)) /\ (\A q \in TemplateEditors : Cleared(q))
    BY <1>7 DEF TemplatesInv
  <2>2. NoneDisturbed'
    BY <1>0, <1>2, <2>1 DEF NoneDisturbed, v
  <2>3. \A s \in Templates : Default(s)' => s \notin cleared /\ Default(s) /\ template'[s] = template[s]
    BY <1>4 DEF Default, Exists
  <2>4. ASSUME NEW k \in Sources PROVE ChosenAlone(k)'
    <3> SUFFICES ASSUME NEW u \in Templates, chosen'[k] = u
                 PROVE  /\ Default(u)' /\ template'[u].isActive /\ Serves(u, k)'
                        /\ \A s \in Templates : s # u /\ Default(s)' => ~ Serves(s, k)'
      BY <1>5 DEF ChosenAlone, Default, Exists, Serves, ReceiptTemplatesTypeOK
    <3>1. chosen[k] = u /\ u \notin cleared /\ u # NoTemplate
      BY <1>0, <1>1, ReceiptTemplatesAssumption
    <3>2. /\ Default(u) /\ template[u].isActive /\ Serves(u, k)
          /\ \A s \in Templates : s # u /\ Default(s) => ~ Serves(s, k)
      BY <2>1, <3>1 DEF ChosenAlone
    <3>3. template'[u] = template[u]
      BY <1>4, <3>1
    <3>4. \A s \in Templates : s # u /\ Default(s)' => ~ Serves(s, k)'
      BY <2>3, <3>2 DEF Serves
    <3> QED
      BY <3>2, <3>3, <3>4 DEF Default, Exists, Serves
  <2>5. Cleared(r)'
    <3> SUFFICES ASSUME NEW k \in Covers(v.copy.kind)
                 PROVE  /\ chosen'[k] \in {v.of, NoTemplate}
                        /\ \A s \in Templates : s # v.of /\ Default(s)' => ~ Serves(s, k)'
      BY <1>2 DEF Cleared
    <3>1. k \in Sources /\ {k, "BOTH"} \subseteq ReplacedKinds(v.copy.kind)
      BY <1>0, KindsCovered
    <3>2. \A s \in Templates : s # v.of /\ Default(s)' => ~ Serves(s, k)'
      BY <1>3, <2>3, <3>1 DEF Serves, Default
    <3>3. ASSUME chosen[k] # NoTemplate, chosen[k] # v.of PROVE chosen[k] \in cleared
      <4>1. Default(chosen[k]) /\ Serves(chosen[k], k) /\ chosen[k] \in Templates
        BY <1>0, <2>1, <3>1, <3>3 DEF ChosenAlone
      <4> QED
        BY <1>3, <3>1, <3>3, <4>1 DEF Default, Serves
    <3> QED
      BY <1>1, <3>1, <3>2, <3>3
  <2>6. ASSUME NEW q \in TemplateEditors, q # r PROVE Cleared(q)'
    <3>1. ASSUME revision[q].at = "saving", revision[q].makes PROVE FALSE
      <4>1. revision[q].copy.isDefault /\ revision[q] # NoRevision
        BY <1>0, <3>1, RevisionRows DEF MakesDefaults
      <4> QED
        BY <1>0, <2>1, <2>6, <4>1 DEF NoneDisturbed, v
    <3> QED
      BY <1>2, <2>6, <3>1 DEF Cleared
  <2> QED
    BY <2>2, <2>4, <2>5, <2>6
<1> QED
  BY <1>1, <1>5, <1>6, <1>7 DEF TemplatesInv

LEMMA SaveTemplateStep ==
    ASSUME TemplatesInv, NEW r \in TemplateEditors, SaveTemplate(r) PROVE TemplatesInv'
<1> PICK v, t, copy : v = revision[r] /\ t = v.of /\ copy = v.copy
  OBVIOUS
<1>0. /\ template \in [Templates -> TemplateRows \cup {NoTemplate}]
      /\ revision \in [TemplateEditors -> {NoRevision} \cup Revisions] /\ ReceiptTemplatesTypeOK
      /\ chosen \in [Sources -> Templates \cup {NoTemplate}] /\ v.makes \in BOOLEAN
      /\ MakesDefaults /\ v \in Revisions /\ (v.makes => copy.isDefault) /\ v.at = "saving"
      /\ copy \in TemplateRows /\ t \in Templates
      /\ copy.kind \in Sources \cup {"BOTH"} /\ v # NoRevision
  BY TemplateTypes, RevisionRows DEF TemplatesInv, SaveTemplate, MakesDefaults, Revisions
<1>1. /\ template' = [template EXCEPT ![t] = copy]
      /\ chosen' = ChosenAfter(t, copy, v.makes)
      /\ copiesMet' = copiesMet /\ templateEdits' = templateEdits
      /\ revision' = [revision EXCEPT ![r] = NoRevision]
  BY DEF SaveTemplate
<1>2. /\ revision' \in [TemplateEditors -> {NoRevision} \cup Revisions]
      /\ revision'[r] = NoRevision /\ NoRevision.at = "idle"
      /\ \A q \in TemplateEditors : q # r => revision'[q] = revision[q]
  BY <1>0, <1>1 DEF NoRevision
<1>3. /\ template'[t] = copy /\ copy # NoTemplate
      /\ \A s \in Templates : s # t => template'[s] = template[s]
      /\ template' \in [Templates -> TemplateRows \cup {NoTemplate}]
  BY <1>0, <1>1, ReceiptTemplatesAssumption
<1>4. ASSUME NEW k \in Sources
      PROVE  \/ v.makes /\ copy.isActive /\ k \in Covers(copy.kind) /\ chosen'[k] = t
             \/ chosen'[k] = NoTemplate
             \/ /\ chosen'[k] = chosen[k] /\ chosen[k] = t
                /\ copy.isDefault /\ copy.isActive /\ k \in Covers(copy.kind)
             \/ /\ chosen'[k] = chosen[k] /\ chosen[k] # t
                /\ v.makes \/ ~ copy.isDefault \/ k \notin Covers(copy.kind)
  <2>1. chosen'[k] = IF v.makes /\ copy.isActive /\ k \in Covers(copy.kind) THEN t
        ELSE IF chosen[k] = t /\ (~copy.isDefault \/ ~copy.isActive \/ k \notin Covers(copy.kind))
        THEN NoTemplate
        ELSE IF ~v.makes /\ copy.isDefault /\ k \in Covers(copy.kind) /\ chosen[k] # t
        THEN NoTemplate
        ELSE chosen[k]
    BY <1>1 DEF ChosenAfter
  <2> QED
    BY <2>1
<1>5. ReceiptTemplatesTypeOK'
  <2>1. chosen' \in [Sources -> Templates \cup {NoTemplate}]
    <3>1. \A k \in Sources : chosen'[k] \in Templates \cup {NoTemplate}
      BY <1>0, <1>4
    <3>2. chosen' = [k \in Sources |-> chosen'[k]]
      BY <1>1 DEF ChosenAfter
    <3> QED
      BY <3>1, <3>2
  <2> QED
    BY <1>0, <1>1, <1>2, <1>3, <2>1 DEF ReceiptTemplatesTypeOK, Revisions
<1>6. MakesDefaults'
  BY <1>0, <1>2 DEF MakesDefaults
<1>7. ASSUME ~ copiesMet
      PROVE  NoneDisturbed' /\ (\A k \in Sources : ChosenAlone(k)') /\ (\A q \in TemplateEditors : Cleared(q)')
  <2>1. /\ NoneDisturbed /\ (\A k \in Sources : ChosenAlone(k)) /\ (\A q \in TemplateEditors : Cleared(q))
    BY <1>7 DEF TemplatesInv
  <2>2. NoneDisturbed'
    BY <1>2, <2>1 DEF NoneDisturbed
  <2>3. /\ \A k : Serves(t, k)' <=> copy.kind \in {k, "BOTH"}
        /\ Default(t)' <=> copy.isDefault
        /\ \A s \in Templates : s # t => (Default(s)' <=> Default(s))
        /\ \A s \in Templates, k \in Sources : s # t => (Serves(s, k)' <=> Serves(s, k))
    BY <1>3 DEF Serves, Default, Exists
  <2>4. ASSUME NEW k \in Sources PROVE ChosenAlone(k)'
    <3> SUFFICES ASSUME NEW u \in Templates, chosen'[k] = u
                 PROVE  /\ Default(u)' /\ template'[u].isActive /\ Serves(u, k)'
                        /\ \A s \in Templates : s # u /\ Default(s)' => ~ Serves(s, k)'
      BY <1>5 DEF ChosenAlone, Default, Exists, Serves, ReceiptTemplatesTypeOK
    <3>0. u # NoTemplate
      BY ReceiptTemplatesAssumption
    <3>1. k \in Covers(copy.kind) <=> copy.kind \in {k, "BOTH"}
      BY <1>0, KindsCovered
    <3>2. v.makes /\ k \in Covers(copy.kind) =>
             /\ chosen[k] \in {t, NoTemplate}
             /\ \A s \in Templates : s # t /\ Default(s) => ~ Serves(s, k)
      BY <1>0, <2>1 DEF Cleared
    <3>3. chosen[k] = u =>
             /\ Default(u) /\ template[u].isActive /\ Serves(u, k)
             /\ \A s \in Templates : s # u /\ Default(s) => ~ Serves(s, k)
      BY <2>1, <3>0 DEF ChosenAlone
    <3>4. CASE u = t /\ copy.isActive /\ copy.isDefault /\ k \in Covers(copy.kind)
               /\ (v.makes \/ chosen[k] = u)
      <4>1. \A s \in Templates : s # t /\ Default(s) => ~ Serves(s, k)
        BY <3>2, <3>3, <3>4
      <4>2. Default(u)' /\ Serves(u, k)'
        BY <2>3, <3>1, <3>4 DEF Default, Exists, Serves
      <4> QED
        BY <1>3, <2>3, <3>4, <4>1, <4>2
    <3>5. CASE /\ chosen[k] = u /\ u # t
               /\ v.makes \/ ~ copy.isDefault \/ k \notin Covers(copy.kind)
      <4>1. template'[u] = template[u]
        BY <1>3, <3>5
      <4>2. Default(u)' /\ Serves(u, k)' /\ template'[u].isActive
        BY <3>3, <3>5, <4>1 DEF Default, Exists, Serves
      <4>3. ~ copy.isDefault \/ k \notin Covers(copy.kind)
        BY <3>0, <3>2, <3>5
      <4>4. \A s \in Templates : s = t /\ Default(s)' => ~ Serves(s, k)'
        BY <1>3, <3>1, <4>3 DEF Default, Exists, Serves
      <4>5. ASSUME NEW s \in Templates, s # u, s # t, Default(s)' PROVE ~ Serves(s, k)'
        <5>1. Default(s) /\ template'[s] = template[s]
          BY <1>3, <2>3, <4>5
        <5> QED
          BY <3>3, <3>5, <4>5, <5>1 DEF Serves
      <4> QED
        BY <4>2, <4>4, <4>5
    <3> QED
      BY <1>0, <1>4, <3>0, <3>4, <3>5
  <2>5. ASSUME NEW q \in TemplateEditors PROVE Cleared(q)'
    <3>1. CASE q = r
      BY <1>2, <3>1 DEF Cleared
    <3>2. CASE q # r
      <4> SUFFICES ASSUME revision[q].at = "saving", revision[q].makes,
                          NEW k \in Covers(revision[q].copy.kind)
                   PROVE  /\ chosen'[k] \in {revision[q].of, NoTemplate}
                          /\ \A s \in Templates : s # revision[q].of /\ Default(s)' => ~ Serves(s, k)'
        BY <1>2, <3>2 DEF Cleared
      <4>1. revision[q].copy.isDefault /\ revision[q] # NoRevision /\ revision[q] \in Revisions
        BY <1>0, RevisionRows DEF MakesDefaults
      <4>2. ~ copy.isDefault /\ ~ v.makes
        BY <1>0, <2>1, <3>2, <4>1 DEF NoneDisturbed
      <4>3. k \in Sources
        <5>1. revision[q].copy.kind \in Sources \cup {"BOTH"}
          BY <4>1 DEF Revisions, TemplateRows
        <5> QED
          BY <5>1, KindsCovered
      <4>4. /\ chosen[k] \in {revision[q].of, NoTemplate}
            /\ \A s \in Templates : s # revision[q].of /\ Default(s) => ~ Serves(s, k)
        BY <2>1 DEF Cleared
      <4>5. chosen'[k] \in {chosen[k], NoTemplate}
        BY <1>4, <4>2, <4>3
      <4> QED
        BY <2>3, <4>2, <4>3, <4>4, <4>5
    <3> QED
      BY <3>1, <3>2
  <2> QED
    BY <2>2, <2>4, <2>5
<1> QED
  BY <1>1, <1>5, <1>6, <1>7 DEF TemplatesInv

LEMMA FailRevisionStep ==
    ASSUME TemplatesInv, NEW r \in TemplateEditors, FailRevision(r) PROVE TemplatesInv'
<1>1. /\ revision \in [TemplateEditors -> {NoRevision} \cup Revisions] /\ ReceiptTemplatesTypeOK
      /\ MakesDefaults
  BY TemplateTypes DEF TemplatesInv
<1>2. /\ revision' \in [TemplateEditors -> {NoRevision} \cup Revisions]
      /\ \A q \in TemplateEditors : revision'[q] \in {revision[q], NoRevision}
      /\ NoRevision.at = "idle"
      /\ UNCHANGED <<template, templateEdits, chosen, copiesMet>>
  BY <1>1 DEF FailRevision, NoRevision
<1>3. ReceiptTemplatesTypeOK' /\ MakesDefaults'
  BY <1>1, <1>2 DEF ReceiptTemplatesTypeOK, Revisions, MakesDefaults
<1>4. NoneDisturbed => NoneDisturbed'
  BY <1>2 DEF NoneDisturbed
<1>5. \A k \in Sources : ChosenAlone(k) => ChosenAlone(k)'
  BY <1>2 DEF ChosenAlone, Default, Exists, Serves
<1>6. \A q \in TemplateEditors : Cleared(q) => Cleared(q)'
  BY <1>2 DEF Cleared, Default, Exists, Serves
<1> QED
  BY <1>2, <1>3, <1>4, <1>5, <1>6 DEF TemplatesInv

LEMMA RemoveTemplateStep ==
    ASSUME TemplatesInv, NEW t \in Templates, RemoveTemplate(t) PROVE TemplatesInv'
<1>1. /\ revision \in [TemplateEditors -> {NoRevision} \cup Revisions] /\ ReceiptTemplatesTypeOK
      /\ chosen \in [Sources -> Templates \cup {NoTemplate}] /\ MakesDefaults
      /\ template \in [Templates -> TemplateRows \cup {NoTemplate}]
  BY TemplateTypes DEF TemplatesInv
<1>2. /\ template' = [template EXCEPT ![t] = NoTemplate]
      /\ chosen' = [k \in Sources |-> IF chosen[k] = t THEN NoTemplate ELSE chosen[k]]
      /\ revision' = [q \in TemplateEditors |->
                        IF revision[q] # NoRevision /\ revision[q].of = t
                        THEN [revision[q] EXCEPT !.inserts = TRUE] ELSE revision[q]]
      /\ copiesMet => copiesMet'
  BY DEF RemoveTemplate
<1>3. \A q \in TemplateEditors :
         /\ revision[q] = NoRevision => revision'[q] = NoRevision
         /\ revision[q] # NoRevision =>
               /\ revision'[q] \in Revisions /\ revision'[q].at = revision[q].at
               /\ revision'[q].of = revision[q].of /\ revision'[q].copy = revision[q].copy
               /\ revision'[q].makes = revision[q].makes
  BY <1>1, <1>2 DEF Revisions
<1>4. ReceiptTemplatesTypeOK'
  <2>1. templateEdits' \in 0 .. MaxTemplateEdits /\ copiesMet' \in BOOLEAN
    BY <1>1, ReceiptTemplatesAssumption DEF RemoveTemplate, ReceiptTemplatesTypeOK
  <2>2. revision' \in [TemplateEditors -> {NoRevision} \cup Revisions]
    BY <1>2, <1>3
  <2>3. chosen' \in [Sources -> Templates \cup {NoTemplate}]
    BY <1>1, <1>2
  <2>4. template' \in [Templates -> TemplateRows \cup {NoTemplate}]
    BY <1>1, <1>2
  <2> QED
    BY <2>1, <2>2, <2>3, <2>4 DEF ReceiptTemplatesTypeOK, Revisions
<1>5. \A q \in TemplateEditors : /\ revision'[q].at = revision[q].at
                                 /\ revision[q].at # "idle" => revision[q] # NoRevision
  BY <1>1, <1>3, RevisionRows
<1>6. MakesDefaults'
  BY <1>1, <1>3, <1>5 DEF MakesDefaults
<1>7. NoneDisturbed => NoneDisturbed'
  BY <1>1, <1>3 DEF NoneDisturbed
<1>8. \A s \in Templates : /\ Default(s)' => Default(s) /\ s # t
                           /\ s # t => template'[s] = template[s]
  BY <1>1, <1>2 DEF Default, Exists
<1>9. ASSUME NEW k \in Sources, ChosenAlone(k) PROVE ChosenAlone(k)'
  <2> SUFFICES ASSUME NEW u \in Templates, chosen'[k] = u
               PROVE  /\ Default(u)' /\ template'[u].isActive /\ Serves(u, k)'
                      /\ \A s \in Templates : s # u /\ Default(s)' => ~ Serves(s, k)'
    BY <1>4 DEF ChosenAlone, Default, Exists, Serves, ReceiptTemplatesTypeOK
  <2>1. chosen[k] = u /\ u # t /\ u # NoTemplate
    BY <1>1, <1>2, ReceiptTemplatesAssumption
  <2>2. /\ Default(u) /\ template[u].isActive /\ Serves(u, k)
        /\ \A s \in Templates : s # u /\ Default(s) => ~ Serves(s, k)
    BY <1>9, <2>1 DEF ChosenAlone
  <2> QED
    BY <1>8, <2>1, <2>2 DEF Default, Exists, Serves
<1>10. ASSUME NEW q \in TemplateEditors, Cleared(q) PROVE Cleared(q)'
  <2> SUFFICES ASSUME revision'[q].at = "saving", revision'[q].makes,
                      NEW k \in Covers(revision'[q].copy.kind)
               PROVE  /\ chosen'[k] \in {revision'[q].of, NoTemplate}
                      /\ \A s \in Templates : s # revision'[q].of /\ Default(s)' => ~ Serves(s, k)'
    BY DEF Cleared
  <2>1. /\ revision[q].at = "saving" /\ revision[q].makes /\ revision'[q].of = revision[q].of
        /\ revision'[q].copy = revision[q].copy /\ revision[q] \in Revisions
    BY <1>1, <1>3, <1>5
  <2>2. k \in Sources
    BY <2>1, KindsCovered DEF Revisions, TemplateRows
  <2>3. /\ chosen[k] \in {revision[q].of, NoTemplate}
        /\ \A s \in Templates : s # revision[q].of /\ Default(s) => ~ Serves(s, k)
    BY <1>10, <2>1 DEF Cleared
  <2> QED
    BY <1>2, <1>8, <2>1, <2>2, <2>3 DEF Serves
<1> QED
  BY <1>2, <1>4, <1>6, <1>7, <1>9, <1>10 DEF TemplatesInv

LEMMA TemplatesStep == TemplatesInv /\ [NextReceiptTemplates]_templateVars => TemplatesInv'
<1> SUFFICES ASSUME TemplatesInv, [NextReceiptTemplates]_templateVars PROVE TemplatesInv'
  OBVIOUS
<1>1. ASSUME NEW r \in TemplateEditors, NEW t \in Templates, NEW copy \in TemplateRows,
             CreateTemplate(r, t, copy) \/ EditTemplate(r, t, copy)
      PROVE  TemplatesInv'
  <2>1. copy.isDefault \in BOOLEAN
    BY DEF TemplateRows
  <2> QED
    BY <1>1, <2>1, BeginRevisionStep DEF CreateTemplate, EditTemplate
<1>2. ASSUME NEW r \in TemplateEditors, NEW t \in Templates,
             NEW kind \in Sources \cup {"BOTH"}, NEW a \in BOOLEAN,
             MakeDefault(r, t, kind, a) \/ EnsureStarter(r, t)
      PROVE  TemplatesInv'
  <2>1. \A k \in Sources \cup {"BOTH"}, b \in BOOLEAN :
           /\ [kind |-> k, isDefault |-> TRUE, isActive |-> b] \in TemplateRows
           /\ [kind |-> k, isDefault |-> TRUE, isActive |-> b].isDefault
    BY DEF TemplateRows
  <2> QED
    BY <1>2, <2>1, BeginRevisionStep DEF MakeDefault, EnsureStarter
<1>3. ASSUME NEW r \in TemplateEditors, ClearOtherDefaults(r) \/ SaveTemplate(r) \/ FailRevision(r)
      PROVE  TemplatesInv'
  BY <1>3, ClearStep, SaveTemplateStep, FailRevisionStep
<1>4. ASSUME NEW t \in Templates, RemoveTemplate(t) PROVE TemplatesInv'
  BY <1>4, RemoveTemplateStep
<1>5. CASE UNCHANGED templateVars
  <2>1. UNCHANGED <<template, revision, templateEdits, chosen, copiesMet>>
    BY <1>5 DEF templateVars
  <2>2. ReceiptTemplatesTypeOK' /\ MakesDefaults'
    BY <2>1 DEF TemplatesInv, ReceiptTemplatesTypeOK, MakesDefaults
  <2>3. NoneDisturbed => NoneDisturbed'
    BY <2>1 DEF NoneDisturbed
  <2>4. \A k \in Sources : ChosenAlone(k) => ChosenAlone(k)'
    BY <2>1 DEF ChosenAlone, Default, Exists, Serves
  <2>5. \A q \in TemplateEditors : Cleared(q) => Cleared(q)'
    BY <2>1 DEF Cleared, Default, Exists, Serves
  <2> QED
    BY <2>1, <2>2, <2>3, <2>4, <2>5 DEF TemplatesInv
<1>6. "BOTH" \in Sources \cup {"BOTH"} /\ TRUE \in BOOLEAN
  OBVIOUS
<1> QED
  BY <1>1, <1>2, <1>3, <1>4, <1>5, <1>6 DEF NextReceiptTemplates

LEMMA TemplatesInvariant == SpecReceiptTemplates => []TemplatesInv
BY TemplatesInit, TemplatesStep, PTL DEF SpecReceiptTemplates

\* Templates, and the copies that requests are about to save, are rows.
THEOREM TemplatesTypeCorrect == SpecReceiptTemplates => []ReceiptTemplatesTypeOK
BY TemplatesInvariant, PTL DEF TemplatesInv

\* The template made the default last is the one receipts of its kind get,
\* although clearing the others and saving it are two statements: unless
\* requests disturbed each other.
THEOREM DefaultPicked == SpecReceiptTemplates => []DefaultIsPicked
<1>1. TemplatesInv => DefaultIsPicked
  <2> SUFFICES ASSUME TemplatesInv, ~ copiesMet, NEW k \in Sources, NEW u, chosen[k] = u,
                      u # NoTemplate
               PROVE  Picked(k) = {u}
    BY DEF DefaultIsPicked
  <2>1. u \in Templates
    BY TemplateTypes
  <2>2. /\ Default(u) /\ template[u].isActive /\ Serves(u, k)
        /\ \A s \in Templates : s # u /\ Default(s) => ~ Serves(s, k)
    BY DEF TemplatesInv, ChosenAlone
  <2>3. \A kind \in {k, "BOTH"} : ActiveDefaults(kind) = IF template[u].kind = kind THEN {u} ELSE {}
    BY <2>1, <2>2 DEF ActiveDefaults, Default, Serves
  <2>4. template[u].kind = k \/ template[u].kind = "BOTH"
    BY <2>2 DEF Serves
  <2> QED
    BY <2>3, <2>4 DEF Picked
<1> QED
  BY <1>1, TemplatesInvariant, PTL

-----------------------------------------------------------------------------
(* Parents and their children.                                             *)

Link(a, c) == [parent |-> a, child |-> c]

\* A row that a request found is there still, or the request knows it is gone.
SeenExists ==
    \A r \in Reading : job[r].seen \in Addresses => parents[job[r].seen] # "none"

\* What a request knows if no administrator crossed it: its parent row is or
\* will be active, and a link it found is there still.
KeepsServing(r) == LET j == job[r] IN
    /\ j.seen \in {"none", j.address}
    /\ j.seen # "none" => parents[j.seen] = "active" \/ j.woke
    /\ j.linked => j.seen # "none" /\ Link(j.seen, j.child) \in links

\* What it knows if it is alone besides: the tables are as it read them.
ReadsRight(r) == LET j == job[r] IN
    /\ j.seen = "none" => parents[j.address] = "none"
    /\ j.seen # "none" /\ Link(j.seen, j.child) \in links => j.linked

RequestsKnow ==
    \A r \in Reading \ intruded : KeepsServing(r) /\ (r \notin met => ReadsRight(r))

FamiliesInv ==
    FamiliesTypeOK /\ SeenExists /\ RequestsKnow /\ ContactsCanSignIn

ReadJobs ==
    [at : {"read"}, child : Children, address : Addresses, enrols : BOOLEAN,
     seen : Addresses \cup {"none", "gone"}, linked : BOOLEAN, anyPrimary : BOOLEAN,
     woke : BOOLEAN]

LEMMA JobRows ==
    /\ NoJob \in Jobs /\ NoJob.at = "idle"
    /\ \A c \in Children, a \in Addresses, e \in BOOLEAN :
          Call("begun", c, a, e) \in Jobs /\ Call("begun", c, a, e).at = "begun"
    /\ \A c \in Children, a \in Addresses :
          Call("copied", c, a, FALSE) \in Jobs /\ Call("copied", c, a, FALSE).at = "copied"
    /\ ReadJobs \subseteq Jobs
    /\ \A j \in Jobs : /\ j.at = "read" => j \in ReadJobs
                       /\ j.at = "copied" => j.child \in Children /\ j.address \in Addresses
                       /\ j.at = "begun" => j.child \in Children /\ j.address \in Addresses
                                              /\ j.enrols \in BOOLEAN
<1>1. NoJob \in Jobs /\ NoJob.at = "idle" /\ ReadJobs \subseteq Jobs
  BY DEF NoJob, Jobs, ReadJobs
<1>2. \A c \in Children, a \in Addresses, e \in BOOLEAN :
         Call("begun", c, a, e) \in Jobs /\ Call("begun", c, a, e).at = "begun"
  BY DEF Call, Jobs
<1>3. \A c \in Children, a \in Addresses :
         Call("copied", c, a, FALSE) \in Jobs /\ Call("copied", c, a, FALSE).at = "copied"
  BY DEF Call, Jobs
<1>4. ASSUME NEW j \in Jobs
      PROVE  /\ j.at = "read" => j \in ReadJobs
             /\ j.at = "copied" => j.child \in Children /\ j.address \in Addresses
             /\ j.at = "begun" => j.child \in Children /\ j.address \in Addresses
                                    /\ j.enrols \in BOOLEAN
  BY <1>4 DEF Jobs, ReadJobs, NoJob
<1> QED
  BY <1>1, <1>2, <1>3, <1>4

LEMMA FamilyTypes ==
    FamiliesInv =>
        /\ contact \in [Children -> Addresses \cup {NoAddress}]
        /\ parents \in [Addresses -> {"none", "active", "inactive"}]
        /\ links \subseteq FamilyLinks /\ \A l \in links : parents[l.parent] # "none"
        /\ primary \subseteq links /\ behind \subseteq Children
        /\ job \in [Editors -> Jobs] /\ intruded \subseteq Editors /\ met \subseteq Editors
        /\ \A r \in Reading : r \in Editors /\ r \in Busy /\ job[r] \in ReadJobs
BY JobRows DEF FamiliesInv, FamiliesTypeOK, Reading, Busy

LEMMA FamiliesInit == InitFamilies => FamiliesInv
<1> SUFFICES ASSUME InitFamilies PROVE FamiliesInv
  OBVIOUS
<1>1. \A r \in Editors : job[r] = NoJob /\ job[r].at # "read"
  BY DEF InitFamilies, NoJob
<1>2. \A c \in Children : contact[c] = NoAddress
  BY DEF InitFamilies
<1>3. FamiliesTypeOK
  <2>1. 0 \in 0 .. MaxEdits /\ 0 \in 0 .. MaxInterventions
    BY FamiliesAssumption
  <2>2. job \in [Editors -> Jobs]
    BY JobRows DEF InitFamilies
  <2>3. parents \in [Addresses -> {"none", "active", "inactive"}]
    BY DEF InitFamilies
  <2>4. contact \in [Children -> Addresses \cup {NoAddress}]
    BY DEF InitFamilies
  <2> QED
    BY <2>1, <2>2, <2>3, <2>4 DEF InitFamilies, FamiliesTypeOK
<1> QED
  BY <1>1, <1>2, <1>3 DEF FamiliesInv, SeenExists, RequestsKnow, Reading, ContactsCanSignIn

\* Steps that leave parents and links alone, and what readers know of them.
JobsStay == \A r \in Editors : job'[r] = job[r] \/ job'[r].at # "read"
MarksStayOf == \A r \in Reading :
    job'[r] = job[r] => (r \in intruded => r \in intruded') /\ (r \in met => r \in met')
OthersStay == \A c \in Children : c \notin behind' => c \notin behind /\ contact'[c] = contact[c]

LEMMA QuietFamilies ==
    ASSUME FamiliesInv, UNCHANGED <<parents, links>>, JobsStay, MarksStayOf, OthersStay
    PROVE  SeenExists' /\ RequestsKnow' /\ ContactsCanSignIn'
<1>1. \A r \in Reading' : r \in Reading /\ job'[r] = job[r]
  BY DEF JobsStay, Reading
<1>2. SeenExists'
  BY <1>1 DEF FamiliesInv, SeenExists
<1>3. RequestsKnow'
  <2>1. \A r \in Reading' : r \notin intruded' => r \notin intruded /\ (r \notin met' => r \notin met)
    BY <1>1 DEF MarksStayOf
  <2> QED
    BY <1>1, <2>1 DEF FamiliesInv, RequestsKnow, KeepsServing, ReadsRight
<1>4. ContactsCanSignIn'
  BY DEF FamiliesInv, OthersStay, ContactsCanSignIn
<1> QED
  BY <1>2, <1>3, <1>4

LEMMA CallersStep ==
    ASSUME FamiliesInv, NEW r \in Editors, NEW c \in Children, NEW a \in Addresses,
           UpdateStudent(r, c, a) \/ Enrol(r, c, a)
    PROVE  FamiliesInv'
<1>0. /\ job \in [Editors -> Jobs] /\ contact \in [Children -> Addresses \cup {NoAddress}]
      /\ behind \subseteq Children /\ FamiliesTypeOK
  BY FamilyTypes DEF FamiliesInv
<1>1. edits < MaxEdits => edits + 1 \in 0 .. MaxEdits
  BY <1>0, FamiliesAssumption DEF FamiliesTypeOK
<1>2. CASE UpdateStudent(r, c, a)
  <2>1. /\ job' = [job EXCEPT ![r] = Call("begun", c, a, FALSE)] /\ job[r] = NoJob
        /\ contact' = [contact EXCEPT ![c] = a] /\ behind' = behind \cup {c}
        /\ intruded' = intruded \ {r} /\ met' = met /\ edits' = edits + 1 /\ edits < MaxEdits
        /\ UNCHANGED <<parents, links, primary, interventions, backlog>>
    BY <1>2 DEF UpdateStudent, BeginRequest, Busy
  <2>2. JobsStay /\ MarksStayOf /\ OthersStay
    BY <1>0, <2>1, JobRows DEF JobsStay, MarksStayOf, OthersStay, Reading
  <2>3. FamiliesTypeOK'
    BY <1>0, <1>1, <2>1, JobRows DEF FamiliesTypeOK
  <2> QED
    BY <2>1, <2>2, <2>3, QuietFamilies DEF FamiliesInv
<1>3. CASE Enrol(r, c, a)
  <2>1. /\ job' = [job EXCEPT ![r] = Call("begun", c, a, TRUE)] /\ job[r] = NoJob
        /\ intruded' = intruded \ {r} /\ met' = met /\ edits' = edits + 1 /\ edits < MaxEdits
        /\ UNCHANGED <<contact, behind, parents, links, primary, interventions, backlog>>
    BY <1>3 DEF Enrol, BeginRequest, Busy
  <2>2. JobsStay /\ MarksStayOf /\ OthersStay
    BY <1>0, <2>1, JobRows DEF JobsStay, MarksStayOf, OthersStay, Reading
  <2>3. FamiliesTypeOK'
    BY <1>0, <1>1, <2>1, JobRows DEF FamiliesTypeOK
  <2> QED
    BY <2>1, <2>2, <2>3, QuietFamilies DEF FamiliesInv
<1> QED
  BY <1>2, <1>3

LEMMA EditStudentStep ==
    ASSUME FamiliesInv, NEW r \in Editors,
           SaveStudent(r) \/ \E c \in Children : ReadStudent(r, c)
    PROVE  FamiliesInv'
<1>0. /\ job \in [Editors -> Jobs] /\ contact \in [Children -> Addresses \cup {NoAddress}]
      /\ behind \subseteq Children /\ FamiliesTypeOK
  BY FamilyTypes DEF FamiliesInv
<1>1. edits < MaxEdits => edits + 1 \in 0 .. MaxEdits
  BY <1>0, FamiliesAssumption DEF FamiliesTypeOK
<1>2. ASSUME NEW c \in Children, ReadStudent(r, c) PROVE FamiliesInv'
  <2>1. /\ job' = [job EXCEPT ![r] = Call("copied", c, contact[c], FALSE)] /\ job[r] = NoJob
        /\ contact[c] \in Addresses
        /\ intruded' = intruded \ {r} /\ met' = met /\ edits' = edits + 1 /\ edits < MaxEdits
        /\ UNCHANGED <<contact, behind, parents, links, primary, interventions, backlog>>
    BY <1>0, <1>2 DEF ReadStudent, BeginRequest, Busy
  <2>2. JobsStay /\ MarksStayOf /\ OthersStay
    BY <1>0, <2>1, JobRows DEF JobsStay, MarksStayOf, OthersStay, Reading
  <2>3. FamiliesTypeOK'
    BY <1>0, <1>1, <2>1, JobRows DEF FamiliesTypeOK
  <2> QED
    BY <2>1, <2>2, <2>3, QuietFamilies DEF FamiliesInv
<1>3. CASE SaveStudent(r)
  <2> DEFINE c == job[r].child
  <2>1. /\ c \in Children /\ job[r].address \in Addresses
        /\ job' = [job EXCEPT ![r] = NoJob]
        /\ contact' = [contact EXCEPT ![c] = job[r].address]
        /\ behind' = IF contact' = contact THEN behind ELSE behind \cup {c}
        /\ UNCHANGED <<parents, links, primary, backlog, edits, interventions, intruded, met>>
    BY <1>0, <1>3, JobRows DEF SaveStudent
  <2> HIDE DEF c
  <2>2. JobsStay /\ MarksStayOf
    BY <1>0, <2>1, JobRows DEF JobsStay, MarksStayOf, Reading
  <2>3. OthersStay
    BY <1>0, <2>1 DEF OthersStay
  <2>4. FamiliesTypeOK'
    BY <1>0, <2>1, JobRows DEF FamiliesTypeOK
  <2> QED
    BY <2>1, <2>2, <2>3, <2>4, QuietFamilies DEF FamiliesInv
<1> QED
  BY <1>2, <1>3

LEMMA SweepStep ==
    ASSUME FamiliesInv, NEW r \in Editors,
           \/ BackfillFromStudents(r) \/ FailFamily(r)
           \/ \E c \in Children, a \in Addresses : BackfillNext(r, c, a)
    PROVE  FamiliesInv'
<1>0. /\ job \in [Editors -> Jobs] /\ contact \in [Children -> Addresses \cup {NoAddress}]
      /\ behind \subseteq Children /\ FamiliesTypeOK
  BY FamilyTypes DEF FamiliesInv
<1>1. edits < MaxEdits => edits + 1 \in 0 .. MaxEdits
  BY <1>0, FamiliesAssumption DEF FamiliesTypeOK
<1>4. CASE BackfillFromStudents(r)
  <2>1. /\ job[r] = NoJob
        /\ backlog' = [backlog EXCEPT
              ![r] = {<<d, contact[d]>> : d \in {e \in Children : contact[e] # NoAddress}}]
        /\ intruded' = intruded \ {r} /\ met' = met /\ edits' = edits + 1 /\ edits < MaxEdits
        /\ UNCHANGED <<contact, behind, parents, links, primary, interventions, job>>
    BY <1>4 DEF BackfillFromStudents, BeginRequest, Busy
  <2>2. JobsStay /\ MarksStayOf /\ OthersStay
    BY <1>0, <2>1, JobRows DEF JobsStay, MarksStayOf, OthersStay, Reading
  <2>3. backlog' \in [Editors -> SUBSET (Children \X Addresses)]
    <3>1. {<<d, contact[d]>> : d \in {e \in Children : contact[e] # NoAddress}}
            \in SUBSET (Children \X Addresses)
      BY <1>0
    <3> QED
      BY <1>0, <2>1, <3>1 DEF FamiliesTypeOK
  <2>4. FamiliesTypeOK'
    BY <1>0, <1>1, <2>1, <2>3 DEF FamiliesTypeOK
  <2> QED
    BY <2>1, <2>2, <2>4, QuietFamilies DEF FamiliesInv
<1>5. CASE FailFamily(r) \/ \E c \in Children, a \in Addresses : BackfillNext(r, c, a)
  <2>1. /\ \E j \in Jobs : job' = [job EXCEPT ![r] = j] /\ j.at # "read"
        /\ UNCHANGED <<contact, parents, links, primary, edits, interventions, behind,
                       intruded, met>>
    BY <1>5, JobRows DEF BackfillNext, FailFamily, familyTables, familyHistory
  <2>2. backlog' \in [Editors -> SUBSET (Children \X Addresses)]
    <3>1. backlog \in [Editors -> SUBSET (Children \X Addresses)]
      BY <1>0 DEF FamiliesTypeOK
    <3>2. CASE FailFamily(r)
      BY <3>1, <3>2 DEF FailFamily
    <3>3. CASE \E c \in Children, a \in Addresses : BackfillNext(r, c, a)
      <4>1. PICK c \in Children, a \in Addresses : BackfillNext(r, c, a)
        BY <3>3
      <4>2. backlog' = [backlog EXCEPT ![r] = backlog[r] \ {<<c, a>>}]
        BY <4>1 DEF BackfillNext
      <4> QED
        BY <3>1, <4>2
    <3> QED
      BY <1>5, <3>2, <3>3
  <2>3. JobsStay /\ MarksStayOf /\ OthersStay
    BY <1>0, <2>1 DEF JobsStay, MarksStayOf, OthersStay, Reading
  <2>4. FamiliesTypeOK'
    BY <1>0, <2>1, <2>2 DEF FamiliesTypeOK
  <2> QED
    BY <2>1, <2>3, <2>4, QuietFamilies DEF FamiliesInv
<1> QED
  BY <1>4, <1>5

LEMMA ReadFamilyStep ==
    ASSUME FamiliesInv, NEW r \in Editors, ReadFamily(r) PROVE FamiliesInv'
<1> DEFINE k == job[r]
           j == job'[r]
<1>0. /\ job \in [Editors -> Jobs] /\ FamiliesTypeOK /\ k.at = "begun" /\ k.child \in Children
      /\ k.address \in Addresses /\ k.enrols \in BOOLEAN /\ r \notin Reading
      /\ parents \in [Addresses -> {"none", "active", "inactive"}]
      /\ links \subseteq FamilyLinks /\ \A l \in links : parents[l.parent] # "none"
      /\ {"none", "gone"} \cap Addresses = {}
  BY FamilyTypes, JobRows, FamiliesAssumption DEF FamiliesInv, ReadFamily, Reading
<1>1. /\ \A q \in Editors : q # r => job'[q] = job[q]
      /\ j = IF parents[k.address] = "none" THEN NotFound(k) ELSE Found(k)
      /\ job' \in [Editors -> Jobs] /\ j \in ReadJobs
  <2>1. NotFound(k) \in ReadJobs /\ Found(k) \in ReadJobs
    BY <1>0 DEF NotFound, Found, ReadJobs
  <2>2. job' = [job EXCEPT ![r] = IF parents[k.address] = "none" THEN NotFound(k) ELSE Found(k)]
    BY DEF ReadFamily
  <2> QED
    BY <1>0, <2>1, <2>2, JobRows
<1>2. met' = met \ {r} /\ UNCHANGED <<contact, parents, links, primary, backlog, edits,
                                      interventions, behind, intruded>>
  BY DEF ReadFamily, familyTables
<1>3. /\ j.address = k.address /\ j.child = k.child /\ j.at = "read"
      /\ parents[k.address] = "none" => j.seen = "none" /\ ~ j.linked
      /\ parents[k.address] # "none" =>
            /\ j.seen = k.address /\ (j.linked <=> Link(k.address, k.child) \in links)
            /\ (parents[k.address] = "inactive" => j.woke)
  <2>1. CASE parents[k.address] = "none"
    <3>1. j = NotFound(k)
      BY <1>1, <2>1
    <3> QED
      BY <2>1, <3>1 DEF NotFound
  <2>2. CASE parents[k.address] # "none"
    <3>1. j = Found(k)
      BY <1>1, <2>2
    <3>2. j.woke = (parents[k.address] = "inactive") /\ j.linked = (Link(k.address, k.child) \in links)
      BY <3>1 DEF Found, Link
    <3>3. j.address = k.address /\ j.child = k.child /\ j.at = "read" /\ j.seen = k.address
      BY <3>1 DEF Found
    <3> HIDE DEF j
    <3> QED
      BY <2>2, <3>2, <3>3
  <2> QED
    BY <2>1, <2>2
<1> HIDE DEF k, j
<1>4. Reading' = Reading \cup {r} /\ \A q \in Reading : q # r /\ job'[q] = job[q]
  BY <1>0, <1>1, <1>3 DEF Reading, j
<1>5. FamiliesTypeOK'
  BY <1>0, <1>1, <1>2 DEF FamiliesTypeOK
<1>6. SeenExists'
  <2>1. j.seen \in Addresses => parents[j.seen] # "none"
    BY <1>0, <1>3
  <2> QED
    BY <1>2, <1>4, <2>1 DEF FamiliesInv, SeenExists, j
<1>7. RequestsKnow'
  <2>1. KeepsServing(r)' /\ ReadsRight(r)'
    BY <1>0, <1>2, <1>3 DEF KeepsServing, ReadsRight, Link, j
  <2>2. \A q \in Reading : (KeepsServing(q) => KeepsServing(q)') /\ (ReadsRight(q) => ReadsRight(q)')
    BY <1>2, <1>4 DEF KeepsServing, ReadsRight
  <2> QED
    BY <1>2, <1>4, <2>1, <2>2 DEF FamiliesInv, RequestsKnow
<1>8. ContactsCanSignIn'
  BY <1>2 DEF FamiliesInv, ContactsCanSignIn
<1> QED
  BY <1>5, <1>6, <1>7, <1>8 DEF FamiliesInv

LEMMA CommitFamilyStep ==
    ASSUME FamiliesInv, NEW r \in Editors, CommitFamily(r) PROVE FamiliesInv'
<1> PICK j, p, l : j = job[r] /\ p = ParentOf(j) /\ l = Link(p, j.child)
  OBVIOUS
<1>0. /\ job \in [Editors -> Jobs] /\ FamiliesTypeOK /\ r \in Reading /\ j \in ReadJobs
      /\ parents \in [Addresses -> {"none", "active", "inactive"}] /\ primary \subseteq links
      /\ contact \in [Children -> Addresses \cup {NoAddress}] /\ behind \subseteq Children
      /\ links \subseteq FamilyLinks /\ (\A k \in links : parents[k.parent] # "none")
      /\ {"none", "gone"} \cap Addresses = {} /\ ~ Fails(j) /\ SeenExists
      /\ \A q \in Reading : q \in Editors /\ job[q] \in ReadJobs
  BY FamilyTypes, FamiliesAssumption DEF FamiliesInv, CommitFamily, Reading
<1>1. /\ parents' = IF j.seen = "none" \/ j.woke THEN [parents EXCEPT ![p] = "active"] ELSE parents
      /\ links' = IF j.linked THEN links ELSE links \cup {l}
      /\ primary' = IF ~ j.linked /\ NewLink(j) THEN primary \cup {l} ELSE primary
      /\ contact' = IF j.enrols THEN [contact EXCEPT ![j.child] = j.address] ELSE contact
      /\ behind' = IF r \in intruded THEN behind \cup {j.child}
                   ELSE IF contact'[j.child] = j.address THEN behind \ {j.child}
                   ELSE behind
      /\ job' = [job EXCEPT ![r] = NoJob]
      /\ met' = (met \ {r}) \cup (Reading \ {r})
      /\ UNCHANGED <<backlog, edits, interventions, intruded>>
  BY DEF CommitFamily, Link
<1>2. /\ j.child \in Children /\ j.address \in Addresses /\ p \in Addresses /\ l \in FamilyLinks
      /\ l = [parent |-> p, child |-> j.child] /\ l.parent = p
      /\ j.seen # "none" => p = j.seen /\ j.seen \in Addresses /\ parents[p] # "none"
      /\ j.seen = "none" => p = j.address
  BY <1>0 DEF Fails, ParentOf, ReadJobs, SeenExists, FamilyLinks, Link
<1>3. /\ parents' \in [Addresses -> {"none", "active", "inactive"}] /\ parents'[p] # "none"
      /\ \A a \in Addresses : /\ parents[a] = "active" => parents'[a] = "active"
                              /\ parents[a] # "none" => parents'[a] # "none"
      /\ j.seen = "none" \/ j.woke => parents'[p] = "active"
  BY <1>0, <1>1, <1>2
<1>4. /\ Reading' = Reading \ {r} /\ job' \in [Editors -> Jobs]
      /\ \A q \in Reading' : job'[q] = job[q] /\ job[q] \in ReadJobs
  BY <1>0, <1>1, JobRows DEF Reading
<1>5. FamiliesTypeOK'
  <2>1. links' \subseteq {k \in FamilyLinks : parents'[k.parent] # "none"}
    <3>1. \A k \in links : parents'[k.parent] # "none"
      BY <1>0, <1>3 DEF FamilyLinks
    <3> QED
      BY <1>0, <1>1, <1>2, <1>3, <3>1
  <2>2. primary' \subseteq links'
    BY <1>0, <1>1
  <2>3. contact' \in [Children -> Addresses \cup {NoAddress}]
    BY <1>0, <1>1, <1>2
  <2>4. behind' \subseteq Children /\ met' \subseteq Editors
    BY <1>0, <1>1, <1>2 DEF FamiliesTypeOK
  <2> QED
    BY <1>0, <1>1, <1>3, <1>4, <2>1, <2>2, <2>3, <2>4 DEF FamiliesTypeOK
<1>6. SeenExists'
  BY <1>0, <1>3, <1>4 DEF SeenExists
<1>7. RequestsKnow'
  <2> SUFFICES ASSUME NEW q \in Reading', q \notin intruded
               PROVE  KeepsServing(q)' /\ (q \notin met' => ReadsRight(q)')
    BY <1>1 DEF RequestsKnow
  <2>1. q \in met' /\ q \in Reading /\ job'[q] = job[q] /\ links \subseteq links'
    BY <1>1, <1>4
  <2>2. KeepsServing(q)
    BY <2>1 DEF FamiliesInv, RequestsKnow
  <2>3. job[q].seen # "none" => job[q].seen \in Addresses
    BY <1>4, <2>2 DEF KeepsServing, ReadJobs
  <2> QED
    BY <1>3, <2>1, <2>2, <2>3 DEF KeepsServing
<1>8. ContactsCanSignIn'
  <2> SUFFICES ASSUME NEW c \in Children, c \notin behind', contact'[c] # NoAddress
               PROVE  parents'[contact'[c]] = "active" /\ Link(contact'[c], c) \in links'
    BY DEF ContactsCanSignIn, Link
  <2>1. CASE c \notin behind /\ contact'[c] = contact[c]
    <3>1. parents[contact[c]] = "active" /\ Link(contact[c], c) \in links
      BY <2>1 DEF FamiliesInv, ContactsCanSignIn, Link
    <3>2. contact[c] \in Addresses
      BY <1>0, <2>1
    <3> QED
      BY <1>1, <1>3, <2>1, <3>1, <3>2
  <2>2. CASE c = j.child /\ contact'[c] = j.address /\ r \notin intruded
    <3>1. KeepsServing(r)
      BY <1>0, <2>2 DEF FamiliesInv, RequestsKnow
    <3>2. /\ p = j.address
          /\ j.seen # "none" => parents[p] = "active" \/ j.woke
          /\ j.linked => l \in links
      BY <1>2, <3>1 DEF KeepsServing
    <3>3. parents'[p] = "active"
      BY <1>2, <1>3, <3>2
    <3>4. l \in links'
      BY <1>1, <3>2
    <3> QED
      BY <2>2, <3>2, <3>3, <3>4
  <2>3. \/ c \notin behind /\ contact'[c] = contact[c]
        \/ c = j.child /\ contact'[c] = j.address /\ r \notin intruded
    BY <1>0, <1>1, <1>2
  <2> QED
    BY <2>1, <2>2, <2>3
<1> QED
  BY <1>5, <1>6, <1>7, <1>8 DEF FamiliesInv

\* An administrator or a restart crosses every request in progress.
LEMMA CrossedStep ==
    ASSUME FamiliesInv, Reading' \subseteq Reading, intruded' = intruded \cup Busy
    PROVE  RequestsKnow'
BY FamilyTypes DEF RequestsKnow

LEMMA AdministrationTypes ==
    ASSUME FamiliesInv, UNCHANGED <<contact, backlog, edits, met>>,
           interventions < MaxInterventions, interventions' = interventions + 1,
           intruded' = intruded \cup Busy, job' \in [Editors -> Jobs], behind' \subseteq Children,
           parents' \in [Addresses -> {"none", "active", "inactive"}],
           links' \subseteq FamilyLinks, \A k \in links' : parents'[k.parent] # "none",
           primary' \subseteq links'
    PROVE  FamiliesTypeOK'
<1>1. FamiliesTypeOK
  BY DEF FamiliesInv
<1>2. interventions' \in 0 .. MaxInterventions
  BY <1>1, FamiliesAssumption DEF FamiliesTypeOK
<1>3. intruded' \subseteq Editors
  BY <1>1 DEF FamiliesTypeOK, Busy
<1> QED
  BY <1>1, <1>2, <1>3 DEF FamiliesTypeOK

LEMMA SetActiveStep ==
    ASSUME FamiliesInv, NEW a \in Addresses, NEW to \in {"active", "inactive"}, SetActive(a, to)
    PROVE  FamiliesInv'
<1>0. /\ parents \in [Addresses -> {"none", "active", "inactive"}] /\ primary \subseteq links
      /\ contact \in [Children -> Addresses \cup {NoAddress}] /\ behind \subseteq Children
      /\ links \subseteq FamilyLinks /\ (\A k \in links : parents[k.parent] # "none")
      /\ job \in [Editors -> Jobs] /\ SeenExists /\ ContactsCanSignIn
  BY FamilyTypes DEF FamiliesInv
<1>1. /\ parents' = [parents EXCEPT ![a] = to] /\ parents[a] # "none"
      /\ behind' = IF to = "inactive" THEN behind \cup ContactsAt(a) ELSE behind
      /\ UNCHANGED <<links, primary, job, contact, backlog, edits, met>>
      /\ interventions < MaxInterventions /\ interventions' = interventions + 1
      /\ intruded' = intruded \cup Busy
  BY DEF SetActive, Intervene
<1>2. /\ parents' \in [Addresses -> {"none", "active", "inactive"}]
      /\ \A b \in Addresses : parents[b] # "none" => parents'[b] # "none"
  BY <1>0, <1>1
<1>3. FamiliesTypeOK'
  <2>1. behind' \subseteq Children
    BY <1>0, <1>1 DEF ContactsAt
  <2>2. \A k \in links : parents'[k.parent] # "none"
    BY <1>0, <1>2 DEF FamilyLinks
  <2> QED
    BY <1>0, <1>1, <1>2, <2>1, <2>2, AdministrationTypes
<1>4. Reading' = Reading
  BY <1>1 DEF Reading
<1>5. SeenExists'
  BY <1>0, <1>1, <1>2, <1>4 DEF SeenExists
<1>6. ContactsCanSignIn'
  <2> SUFFICES ASSUME NEW c \in Children, c \notin behind', contact[c] # NoAddress
               PROVE  parents'[contact[c]] = "active" /\ Link(contact[c], c) \in links
    BY <1>1 DEF ContactsCanSignIn, Link
  <2>1. /\ c \notin behind /\ (to = "inactive" => contact[c] # a) /\ contact[c] \in Addresses
    BY <1>0, <1>1 DEF ContactsAt
  <2>2. parents[contact[c]] = "active" /\ Link(contact[c], c) \in links
    BY <1>0, <2>1 DEF ContactsCanSignIn, Link
  <2> QED
    BY <1>0, <1>1, <2>1, <2>2
<1> QED
  BY <1>1, <1>3, <1>4, <1>5, <1>6, CrossedStep DEF FamiliesInv

\* The requests that found the row now see `to`.
Resees(a, to) ==
    [r \in Editors |-> IF job[r].at = "read" /\ job[r].seen = a
                       THEN [job[r] EXCEPT !.seen = to] ELSE job[r]]

LEMMA ReseenJobs ==
    ASSUME FamiliesInv, NEW a \in Addresses, NEW to \in Addresses \cup {"gone"},
           job' = Resees(a, to)
    PROVE  /\ job' \in [Editors -> Jobs] /\ Reading' = Reading
           /\ \A r \in Reading : job'[r].seen = IF job[r].seen = a THEN to ELSE job[r].seen
<1>1. /\ job \in [Editors -> Jobs]
      /\ \A r \in Reading : r \in Editors /\ job[r] \in ReadJobs
  BY FamilyTypes
<1>2. ASSUME NEW r \in Reading
      PROVE  /\ job'[r] \in ReadJobs /\ job'[r].at = "read"
             /\ job'[r].seen = IF job[r].seen = a THEN to ELSE job[r].seen
  BY <1>1 DEF Resees, ReadJobs
<1>3. \A r \in Editors : r \notin Reading => job'[r] = job[r]
  BY DEF Reading, Resees
<1>4. \A r \in Editors : job'[r] \in Jobs
  BY <1>1, <1>2, <1>3, JobRows
<1>5. Reading' = Reading
  BY <1>2, <1>3 DEF Reading
<1> QED
  BY <1>2, <1>4, <1>5 DEF Resees

LEMMA ChangeAddressStep ==
    ASSUME FamiliesInv, NEW a \in Addresses, NEW b \in Addresses, ChangeAddress(a, b)
    PROVE  FamiliesInv'
<1>0. /\ parents \in [Addresses -> {"none", "active", "inactive"}] /\ primary \subseteq links
      /\ contact \in [Children -> Addresses \cup {NoAddress}] /\ behind \subseteq Children
      /\ links \subseteq FamilyLinks /\ (\A k \in links : parents[k.parent] # "none")
      /\ SeenExists /\ ContactsCanSignIn
  BY FamilyTypes DEF FamiliesInv
<1>1. /\ parents' = [parents EXCEPT ![a] = "none", ![b] = parents[a]]
      /\ parents[a] # "none" /\ parents[b] = "none" /\ a # b
      /\ behind' = behind \cup ContactsAt(a) \cup ContactsAt(b)
      /\ links' = Moved(links, a, b) /\ primary' = Moved(primary, a, b)
      /\ job' = Resees(a, b) /\ UNCHANGED <<contact, backlog, edits, met>>
      /\ interventions < MaxInterventions /\ interventions' = interventions + 1
      /\ intruded' = intruded \cup Busy
  BY DEF ChangeAddress, Intervene, Resees
<1>2. /\ job' \in [Editors -> Jobs] /\ Reading' = Reading
      /\ \A r \in Reading : job'[r].seen = IF job[r].seen = a THEN b ELSE job[r].seen
  BY <1>1, ReseenJobs
<1>3. /\ parents' \in [Addresses -> {"none", "active", "inactive"}]
      /\ parents'[b] # "none" /\ \A d \in Addresses : d \notin {a, b} => parents'[d] = parents[d]
  BY <1>0, <1>1
<1>4. FamiliesTypeOK'
  <2>1. behind' \subseteq Children
    BY <1>0, <1>1 DEF ContactsAt
  <2>2. ASSUME NEW k \in links
        PROVE  LET m == IF k.parent = a THEN [k EXCEPT !.parent = b] ELSE k IN
               m \in FamilyLinks /\ parents'[m.parent] # "none"
    BY <1>0, <1>1, <1>3 DEF FamilyLinks
  <2>3. links' \subseteq FamilyLinks /\ \A k \in links' : parents'[k.parent] # "none"
    BY <1>1, <2>2 DEF Moved
  <2>4. primary' \subseteq links'
    BY <1>0, <1>1 DEF Moved
  <2> QED
    BY <1>1, <1>2, <1>3, <2>1, <2>3, <2>4, AdministrationTypes
<1>5. SeenExists'
  BY <1>0, <1>1, <1>2, <1>3 DEF SeenExists
<1>6. ContactsCanSignIn'
  <2> SUFFICES ASSUME NEW c \in Children, c \notin behind', contact[c] # NoAddress
               PROVE  parents'[contact[c]] = "active" /\ Link(contact[c], c) \in links'
    BY <1>1 DEF ContactsCanSignIn, Link
  <2>1. c \notin behind /\ contact[c] \notin {a, b} /\ contact[c] \in Addresses
    BY <1>0, <1>1 DEF ContactsAt
  <2>2. parents[contact[c]] = "active" /\ Link(contact[c], c) \in links
    BY <1>0, <2>1 DEF ContactsCanSignIn, Link
  <2>3. Link(contact[c], c).parent # a
    BY <2>1 DEF Link
  <2>4. Link(contact[c], c) \in links'
    BY <1>1, <2>2, <2>3 DEF Moved
  <2> QED
    BY <1>3, <2>1, <2>2, <2>4
<1> QED
  BY <1>1, <1>2, <1>4, <1>5, <1>6, CrossedStep DEF FamiliesInv

LEMMA RemoveParentStep ==
    ASSUME FamiliesInv, NEW a \in Addresses, RemoveParent(a) PROVE FamiliesInv'
<1>0. /\ parents \in [Addresses -> {"none", "active", "inactive"}] /\ primary \subseteq links
      /\ contact \in [Children -> Addresses \cup {NoAddress}] /\ behind \subseteq Children
      /\ links \subseteq FamilyLinks /\ (\A k \in links : parents[k.parent] # "none")
      /\ SeenExists /\ ContactsCanSignIn
  BY FamilyTypes DEF FamiliesInv
<1>1. /\ parents' = [parents EXCEPT ![a] = "none"]
      /\ behind' = behind \cup ContactsAt(a)
      /\ links' = {l \in links : l.parent # a} /\ primary' = {l \in primary : l.parent # a}
      /\ job' = Resees(a, "gone") /\ UNCHANGED <<contact, backlog, edits, met>>
      /\ interventions < MaxInterventions /\ interventions' = interventions + 1
      /\ intruded' = intruded \cup Busy
  BY DEF RemoveParent, Intervene, Resees
<1>2. /\ job' \in [Editors -> Jobs] /\ Reading' = Reading
      /\ \A r \in Reading : job'[r].seen = IF job[r].seen = a THEN "gone" ELSE job[r].seen
  BY <1>1, ReseenJobs
<1>3. /\ parents' \in [Addresses -> {"none", "active", "inactive"}]
      /\ \A d \in Addresses : d # a => parents'[d] = parents[d]
  BY <1>0, <1>1
<1>4. FamiliesTypeOK'
  <2>1. behind' \subseteq Children
    BY <1>0, <1>1 DEF ContactsAt
  <2>2. links' \subseteq FamilyLinks /\ \A k \in links' : parents'[k.parent] # "none"
    BY <1>0, <1>1, <1>3 DEF FamilyLinks
  <2>3. primary' \subseteq links'
    BY <1>0, <1>1
  <2> QED
    BY <1>1, <1>2, <1>3, <2>1, <2>2, <2>3, AdministrationTypes
<1>5. SeenExists'
  BY <1>0, <1>2, <1>3, FamiliesAssumption DEF SeenExists
<1>6. ContactsCanSignIn'
  <2> SUFFICES ASSUME NEW c \in Children, c \notin behind', contact[c] # NoAddress
               PROVE  parents'[contact[c]] = "active" /\ Link(contact[c], c) \in links'
    BY <1>1 DEF ContactsCanSignIn, Link
  <2>1. c \notin behind /\ contact[c] # a /\ contact[c] \in Addresses
    BY <1>0, <1>1 DEF ContactsAt
  <2>2. parents[contact[c]] = "active" /\ Link(contact[c], c) \in links
    BY <1>0, <2>1 DEF ContactsCanSignIn, Link
  <2> QED
    BY <1>1, <1>3, <2>1, <2>2 DEF Link
<1> QED
  BY <1>1, <1>2, <1>4, <1>5, <1>6, CrossedStep DEF FamiliesInv

LEMMA LinksStep ==
    ASSUME FamiliesInv,
           \/ \E a \in Addresses, c \in Children, p \in BOOLEAN : AddStudentLink(a, c, p)
           \/ \E l \in links : RemoveStudentLink(l)
    PROVE  FamiliesInv'
<1>0. /\ parents \in [Addresses -> {"none", "active", "inactive"}] /\ primary \subseteq links
      /\ links \subseteq FamilyLinks /\ (\A k \in links : parents[k.parent] # "none")
      /\ SeenExists /\ ContactsCanSignIn /\ job \in [Editors -> Jobs] /\ behind \subseteq Children
  BY FamilyTypes DEF FamiliesInv
<1>1. /\ UNCHANGED <<parents, job, contact, backlog, edits, met>>
      /\ interventions < MaxInterventions /\ interventions' = interventions + 1
      /\ intruded' = intruded \cup Busy
  BY DEF AddStudentLink, RemoveStudentLink, Intervene
<1>2. /\ links' \subseteq FamilyLinks /\ (\A k \in links' : parents[k.parent] # "none")
      /\ primary' \subseteq links' /\ behind' \subseteq Children
      /\ \A k \in links \ links' : k.child \in behind'
      /\ behind \subseteq behind'
  <2>1. CASE \E a \in Addresses, c \in Children, p \in BOOLEAN : AddStudentLink(a, c, p)
    <3>1. PICK a \in Addresses, c \in Children, p \in BOOLEAN : AddStudentLink(a, c, p)
      BY <2>1
    <3>2. /\ parents[a] # "none" /\ links' = links \cup {Link(a, c)} /\ behind' = behind
          /\ primary' = IF p THEN primary \cup {Link(a, c)} ELSE primary
      BY <3>1 DEF AddStudentLink, Link
    <3>3. Link(a, c) \in FamilyLinks /\ Link(a, c).parent = a
      BY DEF Link, FamilyLinks
    <3> QED
      BY <1>0, <3>2, <3>3
  <2>2. CASE \E l \in links : RemoveStudentLink(l)
    <3>1. PICK l \in links : RemoveStudentLink(l)
      BY <2>2
    <3>2. /\ links' = links \ {l} /\ primary' = primary \ {l}
          /\ behind' = behind \cup {l.child} /\ l.child \in Children
      BY <1>0, <3>1 DEF RemoveStudentLink, FamilyLinks
    <3> QED
      BY <1>0, <3>2
  <2> QED
    BY <2>1, <2>2
<1>3. FamiliesTypeOK'
  BY <1>0, <1>1, <1>2, AdministrationTypes
<1>4. Reading' = Reading /\ SeenExists'
  BY <1>0, <1>1 DEF SeenExists, Reading
<1>5. ContactsCanSignIn'
  <2> SUFFICES ASSUME NEW c \in Children, c \notin behind', contact[c] # NoAddress
               PROVE  parents[contact[c]] = "active" /\ Link(contact[c], c) \in links'
    BY <1>1 DEF ContactsCanSignIn, Link
  <2>1. parents[contact[c]] = "active" /\ Link(contact[c], c) \in links
    BY <1>0, <1>2 DEF ContactsCanSignIn, Link
  <2> QED
    BY <1>2, <2>1 DEF Link
<1> QED
  BY <1>1, <1>3, <1>4, <1>5, CrossedStep DEF FamiliesInv

LEMMA RestartApiStep == ASSUME FamiliesInv, RestartApi PROVE FamiliesInv'
<1>0. /\ FamiliesTypeOK /\ ContactsCanSignIn /\ behind \subseteq Children
      /\ job \in [Editors -> Jobs]
  BY FamilyTypes DEF FamiliesInv
<1>1. /\ job' \in [Editors -> Jobs] /\ Reading' = {}
  BY JobRows DEF RestartApi, Reading
<1>2. UNCHANGED <<contact, parents, links, primary, edits, behind, met>>
  BY DEF RestartApi, familyTables
<1>3. FamiliesTypeOK'
  <2>1. interventions' \in 0 .. MaxInterventions /\ intruded' \subseteq Editors
        /\ backlog' \in [Editors -> SUBSET (Children \X Addresses)]
    BY <1>0, FamiliesAssumption DEF RestartApi, FamiliesTypeOK, Busy
  <2> QED
    BY <1>0, <1>1, <1>2, <2>1 DEF FamiliesTypeOK
<1> QED
  BY <1>0, <1>1, <1>2, <1>3 DEF FamiliesInv, SeenExists, RequestsKnow, ContactsCanSignIn

LEMMA FamiliesStep == FamiliesInv /\ [NextFamilies]_familyVars => FamiliesInv'
<1> SUFFICES ASSUME FamiliesInv, [NextFamilies]_familyVars PROVE FamiliesInv'
  OBVIOUS
<1>1. ASSUME NEW r \in Editors, NEW c \in Children, NEW a \in Addresses,
             UpdateStudent(r, c, a) \/ Enrol(r, c, a) \/ BackfillNext(r, c, a)
      PROVE  FamiliesInv'
  BY <1>1, CallersStep, SweepStep
<1>2. ASSUME NEW r \in Editors, ReadFamily(r) \/ CommitFamily(r) PROVE FamiliesInv'
  BY <1>2, ReadFamilyStep, CommitFamilyStep
<1>3. ASSUME NEW r \in Editors, BackfillFromStudents(r) \/ FailFamily(r) PROVE FamiliesInv'
  BY <1>3, SweepStep
<1>4. ASSUME NEW r \in Editors, SaveStudent(r) \/ \E c \in Children : ReadStudent(r, c)
      PROVE  FamiliesInv'
  BY <1>4, EditStudentStep
<1>5. ASSUME NEW a \in Addresses, SetActive(a, "active") \/ SetActive(a, "inactive") \/ RemoveParent(a)
      PROVE  FamiliesInv'
  BY <1>5, SetActiveStep, RemoveParentStep
<1>6. ASSUME NEW a \in Addresses, NEW b \in Addresses, ChangeAddress(a, b) PROVE FamiliesInv'
  BY <1>6, ChangeAddressStep
<1>7. CASE UNCHANGED familyVars
  <2>1. UNCHANGED <<contact, parents, links, primary, job, backlog, edits, interventions,
                    behind, intruded, met>>
    BY <1>7 DEF familyVars, familyTables, familyHistory
  <2>2. FamiliesTypeOK'
    BY <2>1 DEF FamiliesInv, FamiliesTypeOK
  <2>3. JobsStay /\ MarksStayOf /\ OthersStay
    BY <2>1 DEF JobsStay, MarksStayOf, OthersStay
  <2> QED
    BY <2>1, <2>2, <2>3, QuietFamilies DEF FamiliesInv
<1> QED
  BY <1>1, <1>2, <1>3, <1>4, <1>5, <1>6, <1>7, LinksStep, RestartApiStep DEF NextFamilies

LEMMA FamiliesInvariant == SpecFamilies => []FamiliesInv
BY FamiliesInit, FamiliesStep, PTL DEF SpecFamilies

\* No link outlives its parent row.
THEOREM FamiliesTypeCorrect == SpecFamilies => []FamiliesTypeOK
BY FamiliesInvariant, PTL DEF FamiliesInv

\* The contact of every student can sign in, however edits, enrolments, sweeps
\* and restarts cross, unless a request failed, an administrator undid it or a
\* stale copy of the student put an old address back.
THEOREM ContactsSignIn == SpecFamilies => []ContactsCanSignIn
BY FamiliesInvariant, PTL DEF FamiliesInv

\* A call that nobody disturbed between its reading and its writing succeeds.
THEOREM UndisturbedSucceeds == SpecFamilies => []FailsOnlyInCompany
<1>1. FamiliesInv => FailsOnlyInCompany
  <2> SUFFICES ASSUME FamiliesInv, NEW r \in Reading, Fails(job[r]), r \notin met \cup intruded
               PROVE  FALSE
    BY DEF FailsOnlyInCompany
  <2>1. /\ KeepsServing(r) /\ ReadsRight(r) /\ job[r].address \in Addresses
        /\ "gone" \notin Addresses /\ "none" \notin Addresses
    BY FamilyTypes, FamiliesAssumption DEF FamiliesInv, RequestsKnow, ReadJobs
  <2> QED
    BY <2>1 DEF Fails, KeepsServing, ReadsRight, Link
<1> QED
  BY <1>1, FamiliesInvariant, PTL

-----------------------------------------------------------------------------
(* The identity of a student over the years.                               *)

\* Nobody's row has an identity made for another person, unless chosen amiss.
OfItsPerson ==
    chosenAmiss \/ \A e \in DOMAIN identityOf :
        identityOf[e] # NoIdentity => madeFor[identityOf[e]] = e[1]

\* A form that has an identity has a row for it, and the right one.
FormsKnow == \A f \in Forms : formStage[f] = "identified" =>
    /\ formRow[f] \in Enrolments /\ formIdentity[f] \in Made
    /\ chosenAmiss \/ madeFor[formIdentity[f]] = formRow[f][1]

\* The rows a backfill has in memory exist; those at hand are of one person,
\* and some are yet to be stamped.
GroupAtHand(b) ==
    /\ unstamped[b] \subseteq DOMAIN identityOf
    /\ stamping[b] = NoIdentity => group[b] = {}
    /\ stamping[b] # NoIdentity =>
          /\ GroupOf(b, madeFor[stamping[b]]) # {}
          /\ group[b] \subseteq {e \in DOMAIN identityOf : e[1] = madeFor[stamping[b]]}

\* A row that two backfills have to do with is of a shared person.
HeldApart(b, c) ==
    \A e \in unstamped[b] : e \in unstamped[c] \cup group[c] => e[1] \in shared

\* The rows of the group already stamped have an identity, and the one made
\* for the group unless somebody else was at it.
StampedTogether(b) ==
    \A e \in group[b] \ unstamped[b] :
        /\ identityOf[e] # NoIdentity
        /\ \/ identityOf[e] = stamping[b]
           \/ stamping[b] \in lost \/ madeFor[stamping[b]] \in shared

IdentitiesInv ==
    /\ IdentitiesTypeOK /\ OfItsPerson /\ FormsKnow
    /\ \A b \in Backfills : GroupAtHand(b) /\ StampedTogether(b)
    /\ \A b, c \in Backfills : b # c => HeldApart(b, c)

LEMMA IdentityTypes ==
    ASSUME IdentitiesInv
    PROVE  /\ DOMAIN identityOf \subseteq Enrolments
           /\ \A e \in DOMAIN identityOf : identityOf[e] \in Made \cup {NoIdentity}
           /\ Made = 1 .. Cardinality(Made) /\ Cardinality(Made) \in Nat /\ Made \subseteq Ids
           /\ NoIdentity \notin Made /\ \A i \in Made : madeFor[i] \in Persons
           /\ unstamped \in [Backfills -> SUBSET Enrolments]
           /\ stamping \in [Backfills -> Made \cup {NoIdentity}]
           /\ group \in [Backfills -> SUBSET Enrolments]
           /\ formStage \in [Forms -> {"new", "identified", "done"}]
           /\ formRow \in [Forms -> Enrolments \cup {NoRow}]
           /\ formIdentity \in [Forms -> Made \cup {NoIdentity}]
           /\ chosenAmiss \in BOOLEAN /\ lost \subseteq Made /\ shared \subseteq Persons
           /\ \A e \in Enrolments : e[1] \in Persons
<1>1. IdentitiesTypeOK
  BY DEF IdentitiesInv
<1>2. Made \subseteq Ids /\ Made = 1 .. Cardinality(Made)
  BY <1>1 DEF IdentitiesTypeOK
<1>3. Cardinality(Made) \in Nat
  <2>1. IsFiniteSet(Ids)
    BY IdentitiesAssumption, FS_Interval DEF Ids
  <2> QED
    BY <1>2, <2>1, FS_Subset, FS_CardinalityType
<1>4. NoIdentity \notin Ids
  BY DEF NoIdentity, Ids
<1>5. \A e \in Enrolments : e[1] \in Persons
  BY IdentitiesAssumption
<1> QED
  BY <1>1, <1>2, <1>3, <1>4, <1>5 DEF IdentitiesTypeOK

\* What a new identity changes, and what it leaves.
LEMMA MakeAdds ==
    ASSUME IdentitiesInv, NEW p \in Persons, Make(p)
    PROVE  LET n == Cardinality(Made) + 1 IN
           /\ n \notin Made /\ n # NoIdentity /\ Made' = Made \cup {n} /\ madeFor'[n] = p
           /\ \A i \in Made : madeFor'[i] = madeFor[i] /\ madeFor'[i] \in Persons
           /\ Made' = 1 .. Cardinality(Made') /\ Made' \subseteq Ids
<1> DEFINE n == Cardinality(Made) + 1
<1>1. /\ Made = 1 .. Cardinality(Made) /\ Cardinality(Made) \in Nat
      /\ Cardinality(Made) < MaxIdentities /\ MaxIdentities \in Nat
      /\ \A i \in Made : madeFor[i] \in Persons
  BY IdentityTypes, IdentitiesAssumption DEF Make
<1>2. madeFor' = [i \in 1 .. n |-> IF i \in Made THEN madeFor[i] ELSE p]
  BY DEF Make
<1>3. Made' = 1 .. n
  BY <1>2 DEF Made
<1>4. n \notin Made /\ n \in 1 .. n /\ 1 .. n = Made \cup {n} /\ 1 .. n \subseteq Ids /\ n \in Nat
  BY <1>1 DEF Ids
<1>5. Cardinality(1 .. n) = n
  <2>1. n \in Int /\ 1 \in Int /\ ~ (1 > n) /\ n - 1 + 1 = n
    BY <1>1
  <2> QED
    BY <2>1, FS_Interval
<1>6. n # NoIdentity
  BY <1>1 DEF NoIdentity
<1> HIDE DEF n
<1>7. madeFor'[n] = p /\ \A i \in Made : madeFor'[i] = madeFor[i]
  BY <1>2, <1>4
<1>8. Made' = 1 .. Cardinality(Made')
  BY <1>3, <1>5
<1> QED
  BY <1>1, <1>3, <1>4, <1>6, <1>7, <1>8 DEF n

\* What WithRow changes, and what it leaves.
LEMMA RowWritten ==
    ASSUME NEW e, NEW i, identityOf' = WithRow(e, i)
    PROVE  /\ DOMAIN identityOf' = DOMAIN identityOf \cup {e}
           /\ \A d \in DOMAIN identityOf : d # e => identityOf'[d] = identityOf[d]
           /\ i # NoIdentity => identityOf'[e] = i
           /\ i = NoIdentity /\ e \notin DOMAIN identityOf => identityOf'[e] = NoIdentity
BY DEF WithRow

\* Steps of uploads and forms, which leave the backfills alone.
IdentitiesKept == \A i \in Made : i \in Made' /\ madeFor'[i] = madeFor[i]
HistoryKept == lost \subseteq lost' /\ shared \subseteq shared'
RowsStamped ==
    /\ DOMAIN identityOf \subseteq DOMAIN identityOf'
    /\ \A b \in Backfills : \A e \in group[b] \ unstamped[b] :
          \/ identityOf'[e] = identityOf[e]
          \/ identityOf'[e] # NoIdentity /\ identityOf[e] \in lost'

LEMMA BackfillsKept ==
    ASSUME IdentitiesInv, UNCHANGED backfillVars, IdentitiesKept, HistoryKept, RowsStamped
    PROVE  /\ \A b \in Backfills : GroupAtHand(b)' /\ StampedTogether(b)'
           /\ \A b, c \in Backfills : b # c => HeldApart(b, c)'
<1>0. UNCHANGED <<unstamped, stamping, group>>
  BY DEF backfillVars
<1>1. ASSUME NEW b \in Backfills PROVE GroupAtHand(b)' /\ StampedTogether(b)'
  <2>1. GroupAtHand(b) /\ StampedTogether(b) /\ stamping[b] \in Made \cup {NoIdentity}
    BY IdentityTypes DEF IdentitiesInv
  <2>2. stamping[b] # NoIdentity => madeFor'[stamping[b]] = madeFor[stamping[b]]
    BY <2>1 DEF IdentitiesKept
  <2>3. GroupAtHand(b)'
    BY <1>0, <2>1, <2>2 DEF GroupAtHand, GroupOf, RowsStamped
  <2>4. StampedTogether(b)'
    <3> SUFFICES ASSUME NEW e \in group[b] \ unstamped[b]
                 PROVE  /\ identityOf'[e] # NoIdentity
                        /\ \/ identityOf'[e] = stamping[b]
                           \/ stamping[b] \in lost' \/ madeFor'[stamping[b]] \in shared'
      BY <1>0 DEF StampedTogether
    <3>1. stamping[b] # NoIdentity
      BY <2>1 DEF GroupAtHand
    <3>2. \/ identityOf'[e] = identityOf[e]
          \/ identityOf'[e] # NoIdentity /\ identityOf[e] \in lost'
      BY DEF RowsStamped
    <3>3. /\ identityOf[e] # NoIdentity
          /\ \/ identityOf[e] = stamping[b]
             \/ stamping[b] \in lost \/ madeFor[stamping[b]] \in shared
      BY <2>1 DEF StampedTogether
    <3> QED
      BY <2>2, <3>1, <3>2, <3>3 DEF HistoryKept
  <2> QED
    BY <2>3, <2>4
<1>2. ASSUME NEW b \in Backfills, NEW c \in Backfills, b # c PROVE HeldApart(b, c)'
  BY <1>0, <1>2 DEF IdentitiesInv, HeldApart, HistoryKept
<1> QED
  BY <1>1, <1>2

LEMMA UploadRowStep ==
    ASSUME IdentitiesInv, NEW e \in Enrolments, UploadRow(e) PROVE IdentitiesInv'
<1>1. /\ e \notin DOMAIN identityOf /\ identityOf' = WithRow(e, NoIdentity)
      /\ UNCHANGED <<madeFor, backfillVars, formStage, formRow, formIdentity,
                     chosenAmiss, lost, shared>>
  BY DEF UploadRow, formVars, identityHistory
<1>2. /\ DOMAIN identityOf' = DOMAIN identityOf \cup {e} /\ identityOf'[e] = NoIdentity
      /\ \A d \in DOMAIN identityOf : identityOf'[d] = identityOf[d]
  BY <1>1, RowWritten
<1>3. IdentitiesTypeOK'
  <2>1. UNCHANGED <<unstamped, stamping, group, Made>>
    BY <1>1 DEF backfillVars, Made
  <2> QED
    BY <1>1, <1>2, <2>1 DEF IdentitiesInv, IdentitiesTypeOK
<1>4. OfItsPerson'
  BY <1>1, <1>2 DEF IdentitiesInv, OfItsPerson
<1>5. FormsKnow'
  BY <1>1 DEF IdentitiesInv, FormsKnow, Made
<1>6. IdentitiesKept /\ HistoryKept /\ RowsStamped
  <2>1. \A b \in Backfills : group[b] \subseteq DOMAIN identityOf
    BY DEF IdentitiesInv, GroupAtHand
  <2> QED
    BY <1>1, <1>2, <2>1 DEF IdentitiesKept, HistoryKept, RowsStamped, Made
<1> QED
  BY <1>1, <1>3, <1>4, <1>5, <1>6, BackfillsKept DEF IdentitiesInv

LEMMA FormBegins ==
    ASSUME IdentitiesInv, NEW f \in Forms, NEW e \in Enrolments,
           FormMakesIdentity(f, e) \/ \E i \in Ids : FormNamesIdentity(f, e, i)
    PROVE  IdentitiesInv'
<1>0. /\ formStage \in [Forms -> {"new", "identified", "done"}]
      /\ formRow \in [Forms -> Enrolments \cup {NoRow}] /\ chosenAmiss \in BOOLEAN
      /\ formIdentity \in [Forms -> Made \cup {NoIdentity}] /\ e[1] \in Persons
      /\ \A d \in DOMAIN identityOf : identityOf[d] \in Made \cup {NoIdentity}
      /\ stamping \in [Backfills -> Made \cup {NoIdentity}]
  BY IdentityTypes
<1>1. PICK i : /\ formIdentity' = [formIdentity EXCEPT ![f] = i]
               /\ formRow' = [formRow EXCEPT ![f] = e]
               /\ formStage' = [formStage EXCEPT ![f] = "identified"]
               /\ i \in Made' /\ (chosenAmiss' \/ madeFor'[i] = e[1])
               /\ IdentitiesKept /\ (chosenAmiss => chosenAmiss') /\ chosenAmiss' \in BOOLEAN
               /\ Made' = 1 .. Cardinality(Made') /\ Made' \subseteq Ids
               /\ \A k \in Made' : madeFor'[k] \in Persons
  <2>1. CASE FormMakesIdentity(f, e)
    <3>1. Make(e[1])
      BY <2>1 DEF FormMakesIdentity
    <3>2. LET n == Cardinality(Made) + 1 IN
             /\ Made' = Made \cup {n} /\ madeFor'[n] = e[1]
             /\ \A k \in Made : madeFor'[k] = madeFor[k] /\ madeFor'[k] \in Persons
             /\ Made' = 1 .. Cardinality(Made') /\ Made' \subseteq Ids
      BY <1>0, <3>1, MakeAdds
    <3>3. UNCHANGED chosenAmiss
      BY <2>1 DEF FormMakesIdentity, identityHistory
    <3> QED
      BY <1>0, <2>1, <3>2, <3>3 DEF FormMakesIdentity, IdentitiesKept
  <2>2. CASE \E i \in Ids : FormNamesIdentity(f, e, i)
    <3>1. PICK i \in Ids : FormNamesIdentity(f, e, i)
      BY <2>2
    <3>2. UNCHANGED madeFor /\ Made' = Made
      BY <3>1 DEF FormNamesIdentity, Made
    <3>3. Made = 1 .. Cardinality(Made) /\ Made \subseteq Ids /\ \A k \in Made : madeFor[k] \in Persons
      BY IdentityTypes
    <3>4. i \in Made /\ chosenAmiss' = (chosenAmiss \/ madeFor[i] # e[1])
      BY <3>1 DEF FormNamesIdentity
    <3>5. (chosenAmiss' \/ madeFor[i] = e[1]) /\ (chosenAmiss => chosenAmiss') /\ chosenAmiss' \in BOOLEAN
      BY <3>4, Zenon
    <3> QED
      BY <3>1, <3>2, <3>3, <3>4, <3>5 DEF FormNamesIdentity, IdentitiesKept
  <2> QED
    BY <2>1, <2>2
<1>2. UNCHANGED <<identityOf, backfillVars, lost, shared>>
  BY DEF FormMakesIdentity, FormNamesIdentity, identityHistory
<1>3. IdentitiesTypeOK'
  <2>1. Made \subseteq Made'
    BY <1>1 DEF IdentitiesKept
  <2>2. UNCHANGED <<unstamped, stamping, group>>
    BY <1>2 DEF backfillVars
  <2>3. /\ formStage' \in [Forms -> {"new", "identified", "done"}]
        /\ formRow' \in [Forms -> Enrolments \cup {NoRow}]
        /\ formIdentity' \in [Forms -> Made' \cup {NoIdentity}]
    BY <1>0, <1>1, <2>1
  <2>4. /\ stamping' \in [Backfills -> Made' \cup {NoIdentity}]
        /\ \A d \in DOMAIN identityOf' : identityOf'[d] \in Made' \cup {NoIdentity}
        /\ lost' \subseteq Made'
    BY <1>0, <1>2, <2>1, <2>2 DEF IdentitiesInv, IdentitiesTypeOK
  <2> QED
    BY <1>1, <1>2, <2>2, <2>3, <2>4 DEF IdentitiesInv, IdentitiesTypeOK
<1>4. OfItsPerson'
  <2>1. \A d \in DOMAIN identityOf : identityOf[d] # NoIdentity =>
            madeFor'[identityOf[d]] = madeFor[identityOf[d]]
    BY <1>0, <1>1 DEF IdentitiesKept
  <2> QED
    BY <1>1, <1>2, <2>1 DEF IdentitiesInv, OfItsPerson
<1>5. FormsKnow'
  <2> SUFFICES ASSUME NEW g \in Forms, formStage'[g] = "identified"
               PROVE  /\ formRow'[g] \in Enrolments /\ formIdentity'[g] \in Made'
                      /\ chosenAmiss' \/ madeFor'[formIdentity'[g]] = formRow'[g][1]
    BY DEF FormsKnow
  <2>1. CASE g = f
    BY <1>0, <1>1, <2>1
  <2>2. CASE g # f
    <3>1. UNCHANGED <<formStage[g], formRow[g], formIdentity[g]>>
      BY <1>0, <1>1, <2>2
    <3> QED
      BY <1>1, <3>1 DEF IdentitiesInv, FormsKnow, IdentitiesKept
  <2> QED
    BY <2>1, <2>2
<1>6. IdentitiesKept /\ HistoryKept /\ RowsStamped
  BY <1>1, <1>2 DEF HistoryKept, RowsStamped
<1> QED
  BY <1>2, <1>3, <1>4, <1>5, <1>6, BackfillsKept DEF IdentitiesInv

LEMMA FormEnds ==
    ASSUME IdentitiesInv, NEW f \in Forms, CommitForm(f) \/ FailForm(f)
    PROVE  IdentitiesInv'
<1>0. /\ formStage \in [Forms -> {"new", "identified", "done"}]
      /\ formRow \in [Forms -> Enrolments \cup {NoRow}] /\ DOMAIN identityOf \subseteq Enrolments
      /\ formIdentity \in [Forms -> Made \cup {NoIdentity}] /\ lost \subseteq Made
      /\ \A d \in DOMAIN identityOf : identityOf[d] \in Made \cup {NoIdentity}
      /\ NoIdentity \notin Made /\ shared \subseteq Persons
  BY IdentityTypes
<1> DEFINE e == formRow[f]
           i == formIdentity[f]
<1>1. /\ e \in Enrolments /\ i \in Made /\ i # NoIdentity /\ e[1] \in Persons
      /\ chosenAmiss \/ madeFor[i] = e[1]
  <2>1. formStage[f] = "identified"
    BY DEF CommitForm, FailForm
  <2> QED
    BY <1>0, <2>1, IdentityTypes DEF IdentitiesInv, FormsKnow
<1>2. /\ formStage' = [formStage EXCEPT ![f] = "done"]
      /\ formRow' = [formRow EXCEPT ![f] = NoRow]
      /\ formIdentity' = [formIdentity EXCEPT ![f] = NoIdentity]
      /\ UNCHANGED <<madeFor, backfillVars, chosenAmiss>>
  BY DEF CommitForm, FailForm, EndForm
<1>3. \/ identityOf' = identityOf
      \/ /\ DOMAIN identityOf' = DOMAIN identityOf \cup {e} /\ identityOf'[e] = i
         /\ \A d \in DOMAIN identityOf : d # e => identityOf'[d] = identityOf[d]
         /\ e \in DOMAIN identityOf /\ identityOf[e] # NoIdentity => identityOf[e] \in lost'
  <2>1. CASE CommitForm(f)
    <3>1. identityOf' = WithRow(e, i)
      BY <2>1 DEF CommitForm
    <3>2. /\ DOMAIN identityOf' = DOMAIN identityOf \cup {e}
          /\ \A d \in DOMAIN identityOf : d # e => identityOf'[d] = identityOf[d]
          /\ identityOf'[e] = i
      BY <1>1, <3>1, RowWritten
    <3>3. e \in DOMAIN identityOf /\ identityOf[e] # NoIdentity => identityOf[e] \in lost'
      BY <2>1 DEF CommitForm
    <3> QED
      BY <3>2, <3>3
  <2> QED
    BY <2>1 DEF FailForm
<1>4. lost \subseteq lost' /\ lost' \subseteq Made /\ shared \subseteq shared' /\ shared' \subseteq Persons
  BY <1>0, <1>1 DEF CommitForm, FailForm
<1> HIDE DEF e, i
<1>5. IdentitiesTypeOK'
  <2>1. UNCHANGED <<unstamped, stamping, group, Made>>
    BY <1>2 DEF backfillVars, Made
  <2>2. /\ formStage' \in [Forms -> {"new", "identified", "done"}]
        /\ formRow' \in [Forms -> Enrolments \cup {NoRow}]
        /\ formIdentity' \in [Forms -> Made \cup {NoIdentity}]
    BY <1>0, <1>2
  <2>3. /\ DOMAIN identityOf' \subseteq Enrolments
        /\ \A d \in DOMAIN identityOf' : identityOf'[d] \in Made \cup {NoIdentity}
    BY <1>0, <1>1, <1>3
  <2> QED
    BY <1>2, <1>4, <2>1, <2>2, <2>3 DEF IdentitiesInv, IdentitiesTypeOK
<1>6. OfItsPerson'
  BY <1>1, <1>2, <1>3 DEF IdentitiesInv, OfItsPerson
<1>7. FormsKnow'
  <2> SUFFICES ASSUME NEW g \in Forms, formStage'[g] = "identified"
               PROVE  /\ formRow'[g] \in Enrolments /\ formIdentity'[g] \in Made'
                      /\ chosenAmiss' \/ madeFor'[formIdentity'[g]] = formRow'[g][1]
    BY DEF FormsKnow
  <2>1. g # f
    BY <1>0, <1>2
  <2>2. UNCHANGED <<formStage[g], formRow[g], formIdentity[g], chosenAmiss, madeFor, Made>>
    BY <1>0, <1>2, <2>1 DEF Made
  <2> QED
    BY <2>2 DEF IdentitiesInv, FormsKnow
<1>8. IdentitiesKept /\ HistoryKept
  BY <1>2, <1>4 DEF IdentitiesKept, HistoryKept, Made
<1>9. RowsStamped
  <2>1. DOMAIN identityOf \subseteq DOMAIN identityOf'
    BY <1>3
  <2>2. ASSUME NEW b \in Backfills, NEW d \in group[b] \ unstamped[b]
        PROVE  \/ identityOf'[d] = identityOf[d]
               \/ identityOf'[d] # NoIdentity /\ identityOf[d] \in lost'
    <3>1. d \in DOMAIN identityOf /\ identityOf[d] # NoIdentity
      BY DEF IdentitiesInv, GroupAtHand, StampedTogether
    <3> QED
      BY <1>1, <1>3, <3>1
  <2> QED
    BY <2>1, <2>2 DEF RowsStamped
<1> QED
  BY <1>2, <1>5, <1>6, <1>7, <1>8, <1>9, BackfillsKept DEF IdentitiesInv

LEMMA ReadMissingStep ==
    ASSUME IdentitiesInv, NEW b \in Backfills, ReadMissing(b) PROVE IdentitiesInv'
<1>0. /\ unstamped \in [Backfills -> SUBSET Enrolments] /\ shared \subseteq Persons
      /\ DOMAIN identityOf \subseteq Enrolments /\ \A e \in Enrolments : e[1] \in Persons
  BY IdentityTypes
<1>1. /\ unstamped[b] = {} /\ unstamped' = [unstamped EXCEPT ![b] = Missing]
      /\ shared' = shared \cup {e[1] : e \in Held \cap Missing}
      /\ UNCHANGED <<identityOf, madeFor, stamping, group, formStage, formRow, formIdentity,
                     chosenAmiss, lost>>
  BY DEF ReadMissing, formVars
<1>2. /\ Missing \subseteq DOMAIN identityOf /\ \A e \in Missing : identityOf[e] = NoIdentity
      /\ shared \subseteq shared' /\ shared' \subseteq Persons
      /\ unstamped'[b] = Missing /\ \A c \in Backfills : c # b => unstamped'[c] = unstamped[c]
      /\ unstamped' \in [Backfills -> SUBSET Enrolments]
  BY <1>0, <1>1 DEF Missing
<1>3. \A c \in Backfills : \A e \in unstamped[c] : e \in Missing => e[1] \in shared'
  BY <1>1 DEF Held
<1>4. stamping[b] = NoIdentity /\ group[b] = {}
  BY <1>1 DEF IdentitiesInv, GroupAtHand, GroupOf
<1>5. IdentitiesTypeOK' /\ OfItsPerson' /\ FormsKnow'
  <2>1. UNCHANGED Made
    BY <1>1 DEF Made
  <2> QED
    BY <1>1, <1>2, <2>1 DEF IdentitiesInv, IdentitiesTypeOK, OfItsPerson, FormsKnow
<1>6. ASSUME NEW c \in Backfills PROVE GroupAtHand(c)' /\ StampedTogether(c)'
  <2>1. CASE c = b
    BY <1>1, <1>2, <1>4, <2>1 DEF GroupAtHand, StampedTogether
  <2>2. CASE c # b
    BY <1>1, <1>2, <2>2 DEF IdentitiesInv, GroupAtHand, GroupOf, StampedTogether
  <2> QED
    BY <2>1, <2>2
<1>7. ASSUME NEW c \in Backfills, NEW d \in Backfills, c # d PROVE HeldApart(c, d)'
  <2> SUFFICES ASSUME NEW e \in unstamped'[c], e \in unstamped'[d] \cup group[d]
               PROVE  e[1] \in shared'
    BY <1>1 DEF HeldApart
  <2>1. HeldApart(c, d) /\ GroupAtHand(d) /\ StampedTogether(d)
    BY <1>7 DEF IdentitiesInv
  <2>2. CASE c # b /\ d # b
    BY <1>2, <2>1, <2>2 DEF HeldApart
  <2>3. CASE d = b
    BY <1>2, <1>3, <1>4, <1>7, <2>3
  <2>4. CASE c = b
    <3>1. e \in Missing /\ identityOf[e] = NoIdentity /\ unstamped'[d] = unstamped[d]
      BY <1>2, <1>7, <2>4
    <3>2. e \in unstamped[d]
      BY <2>1, <3>1 DEF StampedTogether
    <3> QED
      BY <1>3, <3>1, <3>2
  <2> QED
    BY <2>2, <2>3, <2>4
<1> QED
  BY <1>5, <1>6, <1>7 DEF IdentitiesInv

LEMMA MakeForGroupStep ==
    ASSUME IdentitiesInv, NEW b \in Backfills, NEW p \in Persons, MakeForGroup(b, p)
    PROVE  IdentitiesInv'
<1>0. /\ unstamped \in [Backfills -> SUBSET Enrolments] /\ lost \subseteq Made
      /\ stamping \in [Backfills -> Made \cup {NoIdentity}]
      /\ group \in [Backfills -> SUBSET Enrolments]
      /\ formIdentity \in [Forms -> Made \cup {NoIdentity}]
      /\ \A d \in DOMAIN identityOf : identityOf[d] \in Made \cup {NoIdentity}
  BY IdentityTypes
<1> DEFINE n == Cardinality(Made) + 1
<1>1. /\ n \notin Made /\ n # NoIdentity /\ Made' = Made \cup {n} /\ madeFor'[n] = p
      /\ \A i \in Made : madeFor'[i] = madeFor[i] /\ madeFor'[i] \in Persons
      /\ Made' = 1 .. Cardinality(Made') /\ Made' \subseteq Ids
  <2>1. Make(p)
    BY DEF MakeForGroup
  <2> QED
    BY <2>1, MakeAdds
<1>2. /\ stamping' = [stamping EXCEPT ![b] = n]
      /\ group' = [group EXCEPT ![b] = GroupOf(b, p)]
      /\ GroupOf(b, p) # {} /\ stamping[b] = NoIdentity
      /\ UNCHANGED <<identityOf, unstamped, formStage, formRow, formIdentity,
                     chosenAmiss, lost, shared>>
  BY DEF MakeForGroup, formVars, identityHistory
<1> HIDE DEF n
<1>3. /\ stamping'[b] = n /\ group'[b] = GroupOf(b, p)
      /\ \A c \in Backfills : c # b => stamping'[c] = stamping[c] /\ group'[c] = group[c]
      /\ GroupOf(b, p) \subseteq unstamped[b] /\ \A e \in GroupOf(b, p) : e[1] = p
  BY <1>0, <1>2 DEF GroupOf
<1>4. IdentitiesTypeOK'
  <2>1. /\ stamping' \in [Backfills -> Made' \cup {NoIdentity}]
        /\ group' \in [Backfills -> SUBSET Enrolments]
        /\ formIdentity' \in [Forms -> Made' \cup {NoIdentity}] /\ lost' \subseteq Made'
        /\ \A d \in DOMAIN identityOf' : identityOf'[d] \in Made' \cup {NoIdentity}
        /\ \A i \in Made' : madeFor'[i] \in Persons
    <3>1. GroupOf(b, p) \subseteq Enrolments
      BY <1>0 DEF GroupOf
    <3>2. p \in Persons /\ Made \subseteq Made' /\ n \in Made'
      BY <1>1
    <3> QED
      BY <1>0, <1>1, <1>2, <3>1, <3>2
  <2> QED
    BY <1>1, <1>2, <2>1 DEF IdentitiesInv, IdentitiesTypeOK
<1>5. OfItsPerson'
  <2>1. \A d \in DOMAIN identityOf : identityOf[d] # NoIdentity =>
            madeFor'[identityOf[d]] = madeFor[identityOf[d]]
    BY <1>0, <1>1
  <2> QED
    BY <1>2, <2>1 DEF IdentitiesInv, OfItsPerson
<1>6. FormsKnow'
  BY <1>1, <1>2 DEF IdentitiesInv, FormsKnow
<1>7. ASSUME NEW c \in Backfills PROVE GroupAtHand(c)' /\ StampedTogether(c)'
  <2>0. GroupAtHand(c) /\ StampedTogether(c) /\ GroupAtHand(b)
    BY DEF IdentitiesInv
  <2>1. CASE c = b
    <3>1. GroupOf(b, p) \subseteq DOMAIN identityOf
      BY <1>3, <2>0 DEF GroupAtHand
    <3>2. GroupAtHand(b)'
      <4>1. {e \in unstamped'[b] : e[1] = madeFor'[stamping'[b]]} = GroupOf(b, p)
        BY <1>1, <1>2, <1>3 DEF GroupOf
      <4> QED
        BY <1>1, <1>2, <1>3, <2>0, <3>1, <4>1 DEF GroupAtHand, GroupOf
    <3>3. StampedTogether(b)'
      BY <1>2, <1>3 DEF StampedTogether
    <3> QED
      BY <2>1, <3>2, <3>3
  <2>2. CASE c # b
    <3>1. stamping[c] # NoIdentity => madeFor'[stamping[c]] = madeFor[stamping[c]]
      BY <1>0, <1>1
    <3>2. stamping'[c] = stamping[c] /\ group'[c] = group[c] /\ unstamped'[c] = unstamped[c]
      BY <1>2, <1>3, <2>2
    <3> QED
      BY <1>2, <2>0, <3>1, <3>2 DEF GroupAtHand, GroupOf, StampedTogether
  <2> QED
    BY <2>1, <2>2
<1>8. ASSUME NEW c \in Backfills, NEW d \in Backfills, c # d PROVE HeldApart(c, d)'
  <2>1. HeldApart(c, d)
    BY <1>8 DEF IdentitiesInv
  <2>2. group'[d] \subseteq unstamped[d] \cup group[d]
    BY <1>3
  <2> QED
    BY <1>2, <2>1, <2>2 DEF HeldApart
<1> QED
  BY <1>4, <1>5, <1>6, <1>7, <1>8 DEF IdentitiesInv

LEMMA StampRowStep ==
    ASSUME IdentitiesInv, NEW b \in Backfills, NEW e \in Enrolments, StampRow(b, e)
    PROVE  IdentitiesInv' /\ \A c \in Backfills : GroupTogether(c)
<1> DEFINE s == stamping[b]
           p == madeFor[s]
<1>0. /\ unstamped \in [Backfills -> SUBSET Enrolments] /\ group \in [Backfills -> SUBSET Enrolments]
      /\ stamping \in [Backfills -> Made \cup {NoIdentity}] /\ NoIdentity \notin Made
      /\ \A d \in DOMAIN identityOf : identityOf[d] \in Made \cup {NoIdentity}
  BY IdentityTypes
<1>1. /\ s \in Made /\ s # NoIdentity /\ e \in unstamped[b] /\ e[1] = p /\ e \in GroupOf(b, p)
      /\ identityOf' = [identityOf EXCEPT ![e] = s]
      /\ unstamped' = [unstamped EXCEPT ![b] = unstamped[b] \ {e}]
      /\ UNCHANGED <<madeFor, formStage, formRow, formIdentity, chosenAmiss, lost, shared>>
  BY <1>0 DEF StampRow, GroupOf, formVars, identityHistory
<1>2. /\ stamping' = [stamping EXCEPT ![b] = IF GroupOf(b, p) = {e} THEN NoIdentity ELSE s]
      /\ group' = [group EXCEPT ![b] = IF stamping'[b] = NoIdentity THEN {} ELSE group[b]]
  BY <1>1 DEF StampRow
<1>3. /\ unstamped'[b] = unstamped[b] \ {e}
      /\ \/ GroupOf(b, p) = {e} /\ stamping'[b] = NoIdentity /\ group'[b] = {}
         \/ GroupOf(b, p) # {e} /\ stamping'[b] = s /\ group'[b] = group[b]
      /\ \A c \in Backfills : c # b =>
            stamping'[c] = stamping[c] /\ group'[c] = group[c] /\ unstamped'[c] = unstamped[c]
      /\ unstamped' \in [Backfills -> SUBSET Enrolments] /\ group' \in [Backfills -> SUBSET Enrolments]
      /\ stamping' \in [Backfills -> Made \cup {NoIdentity}]
  BY <1>0, <1>1, <1>2
<1>4. /\ GroupAtHand(b) /\ StampedTogether(b) /\ e \in DOMAIN identityOf
      /\ \A d \in group[b] : d \in DOMAIN identityOf /\ d[1] = p
  BY <1>1 DEF IdentitiesInv, GroupAtHand
<1>5. /\ DOMAIN identityOf' = DOMAIN identityOf /\ identityOf'[e] = s
      /\ \A d \in DOMAIN identityOf : d # e => identityOf'[d] = identityOf[d]
  BY <1>1, <1>4
<1> HIDE DEF s
<1>6. IdentitiesTypeOK' /\ OfItsPerson' /\ FormsKnow'
  <2>1. UNCHANGED Made
    BY <1>1 DEF Made
  <2>2. IdentitiesTypeOK'
    BY <1>0, <1>1, <1>3, <1>5, <2>1 DEF IdentitiesInv, IdentitiesTypeOK
  <2>3. OfItsPerson' /\ FormsKnow'
    BY <1>1, <1>5, <2>1 DEF IdentitiesInv, OfItsPerson, FormsKnow
  <2> QED
    BY <2>2, <2>3
<1>7. ASSUME NEW c \in Backfills, c # b PROVE GroupAtHand(c)' /\ StampedTogether(c)'
  <2>1. GroupAtHand(c) /\ StampedTogether(c) /\ HeldApart(b, c)
    BY <1>7 DEF IdentitiesInv
  <2>2. GroupAtHand(c)'
    BY <1>1, <1>3, <1>5, <1>7, <2>1 DEF GroupAtHand, GroupOf
  <2>3. e \in group[c] => madeFor[stamping[c]] \in shared
    BY <1>1, <2>1 DEF HeldApart, GroupAtHand
  <2>4. StampedTogether(c)'
    <3>1. group[c] \subseteq DOMAIN identityOf
      BY <2>1 DEF GroupAtHand
    <3> QED
      BY <1>1, <1>3, <1>5, <1>7, <2>1, <2>3, <3>1 DEF StampedTogether
  <2> QED
    BY <2>2, <2>4
<1>8. GroupAtHand(b)' /\ StampedTogether(b)'
  <2>1. CASE stamping'[b] = NoIdentity
    BY <1>1, <1>3, <1>4, <1>5, <2>1 DEF GroupAtHand, StampedTogether
  <2>2. CASE stamping'[b] # NoIdentity
    <3>1. PICK d \in GroupOf(b, p) : d # e
      BY <1>1, <1>3, <2>2
    <3>2. d \in unstamped'[b] /\ d[1] = p
      BY <1>3, <3>1 DEF GroupOf
    <3>3. stamping'[b] = s /\ group'[b] = group[b] /\ madeFor'[stamping'[b]] = p
      BY <1>1, <1>3, <2>2
    <3>4. GroupAtHand(b)'
      BY <1>1, <1>3, <1>4, <1>5, <3>2, <3>3 DEF GroupAtHand, GroupOf
    <3>5. StampedTogether(b)'
      BY <1>1, <1>3, <1>4, <1>5, <3>3 DEF StampedTogether, s
    <3> QED
      BY <3>4, <3>5
  <2> QED
    BY <2>1, <2>2
<1>9. ASSUME NEW c \in Backfills, NEW d \in Backfills, c # d PROVE HeldApart(c, d)'
  <2>1. unstamped'[c] \subseteq unstamped[c] /\ unstamped'[d] \subseteq unstamped[d]
        /\ group'[d] \subseteq group[d]
    BY <1>3
  <2> QED
    BY <1>1, <1>9, <2>1 DEF IdentitiesInv, HeldApart
<1>10. ASSUME NEW c \in Backfills PROVE GroupTogether(c)
  <2>1. CASE c # b
    BY <1>3, <2>1 DEF GroupTogether
  <2>2. CASE c = b
    <3> SUFFICES ASSUME s \notin lost' \cup {NoIdentity}, stamping'[b] = NoIdentity, p \notin shared,
                        NEW d \in group[b]
                 PROVE  identityOf'[d] = s
      BY <2>2 DEF GroupTogether, s
    <3>1. GroupOf(b, p) = {e}
      BY <1>3
    <3>2. d = e \/ d \notin unstamped[b]
      BY <1>4, <3>1 DEF GroupOf
    <3> QED
      BY <1>1, <1>4, <1>5, <3>2 DEF StampedTogether, s
  <2> QED
    BY <2>1, <2>2
<1> QED
  BY <1>6, <1>7, <1>8, <1>9, <1>10 DEF IdentitiesInv

LEMMA LoseBackfillStep ==
    ASSUME IdentitiesInv, NEW b \in Backfills, LoseBackfill(b)
    PROVE  IdentitiesInv' /\ \A c \in Backfills : GroupTogether(c)
<1>0. /\ unstamped \in [Backfills -> SUBSET Enrolments] /\ group \in [Backfills -> SUBSET Enrolments]
      /\ stamping \in [Backfills -> Made \cup {NoIdentity}] /\ lost \subseteq Made
  BY IdentityTypes
<1>1. /\ unstamped' = [unstamped EXCEPT ![b] = {}] /\ group' = [group EXCEPT ![b] = {}]
      /\ stamping' = [stamping EXCEPT ![b] = NoIdentity]
      /\ lost' = lost \cup ({stamping[b]} \ {NoIdentity})
      /\ UNCHANGED <<identityOf, madeFor, formStage, formRow, formIdentity, chosenAmiss, shared>>
  BY DEF LoseBackfill, formVars
<1>2. /\ unstamped'[b] = {} /\ group'[b] = {} /\ stamping'[b] = NoIdentity
      /\ \A c \in Backfills : c # b =>
            stamping'[c] = stamping[c] /\ group'[c] = group[c] /\ unstamped'[c] = unstamped[c]
      /\ unstamped' \in [Backfills -> SUBSET Enrolments] /\ group' \in [Backfills -> SUBSET Enrolments]
      /\ stamping' \in [Backfills -> Made \cup {NoIdentity}] /\ lost' \subseteq Made
  BY <1>0, <1>1
<1>3. IdentitiesTypeOK' /\ OfItsPerson' /\ FormsKnow'
  <2>1. UNCHANGED Made
    BY <1>1 DEF Made
  <2> QED
    BY <1>1, <1>2, <2>1 DEF IdentitiesInv, IdentitiesTypeOK, OfItsPerson, FormsKnow
<1>4. ASSUME NEW c \in Backfills PROVE GroupAtHand(c)' /\ StampedTogether(c)'
  <2>1. CASE c = b
    BY <1>2, <2>1 DEF GroupAtHand, StampedTogether
  <2>2. CASE c # b
    BY <1>1, <1>2, <2>2 DEF IdentitiesInv, GroupAtHand, GroupOf, StampedTogether
  <2> QED
    BY <2>1, <2>2
<1>5. ASSUME NEW c \in Backfills, NEW d \in Backfills, c # d PROVE HeldApart(c, d)'
  <2>1. unstamped'[c] \subseteq unstamped[c] /\ unstamped'[d] \subseteq unstamped[d]
        /\ group'[d] \subseteq group[d]
    BY <1>2
  <2> QED
    BY <1>1, <1>5, <2>1 DEF IdentitiesInv, HeldApart
<1>6. ASSUME NEW c \in Backfills PROVE GroupTogether(c)
  BY <1>1, <1>2 DEF GroupTogether
<1> QED
  BY <1>3, <1>4, <1>5, <1>6 DEF IdentitiesInv

LEMMA IdentitiesInit == InitIdentities => IdentitiesInv
<1> SUFFICES ASSUME InitIdentities PROVE IdentitiesInv
  OBVIOUS
<1>1. DOMAIN identityOf = {} /\ Made = {}
  BY DEF InitIdentities, Made
<1>2. IdentitiesTypeOK
  <2>1. Cardinality(Made) = 0 /\ {} = 1 .. 0
    BY <1>1, FS_EmptySet
  <2> QED
    BY <1>1, <2>1 DEF InitIdentities, IdentitiesTypeOK
<1> QED
  BY <1>1, <1>2 DEF InitIdentities, IdentitiesInv, OfItsPerson, FormsKnow, GroupAtHand,
        StampedTogether, HeldApart

LEMMA IdentitiesStep ==
    IdentitiesInv /\ [NextIdentities]_identityVars =>
        IdentitiesInv' /\ [\A b \in Backfills : GroupTogether(b)]_identityVars
<1> SUFFICES ASSUME IdentitiesInv, [NextIdentities]_identityVars
             PROVE  IdentitiesInv' /\ [\A b \in Backfills : GroupTogether(b)]_identityVars
  OBVIOUS
<1>1. ASSUME UNCHANGED stamping PROVE \A b \in Backfills : GroupTogether(b)
  BY <1>1 DEF GroupTogether
<1>2. ASSUME NEW e \in Enrolments, UploadRow(e) PROVE IdentitiesInv' /\ UNCHANGED stamping
  BY <1>2, UploadRowStep DEF UploadRow, backfillVars
<1>3. ASSUME NEW f \in Forms, NEW e \in Enrolments,
             FormMakesIdentity(f, e) \/ \E i \in Ids : FormNamesIdentity(f, e, i)
      PROVE  IdentitiesInv' /\ UNCHANGED stamping
  BY <1>3, FormBegins DEF FormMakesIdentity, FormNamesIdentity, backfillVars
<1>4. ASSUME NEW f \in Forms, CommitForm(f) \/ FailForm(f)
      PROVE  IdentitiesInv' /\ UNCHANGED stamping
  BY <1>4, FormEnds DEF CommitForm, FailForm, backfillVars
<1>5. ASSUME NEW b \in Backfills, ReadMissing(b) PROVE IdentitiesInv' /\ UNCHANGED stamping
  BY <1>5, ReadMissingStep DEF ReadMissing
<1>6. ASSUME NEW b \in Backfills, NEW p \in Persons, MakeForGroup(b, p)
      PROVE  IdentitiesInv' /\ \A c \in Backfills : GroupTogether(c)
  <2>1. IdentitiesInv'
    BY <1>6, MakeForGroupStep
  <2>2. /\ stamping \in [Backfills -> Made \cup {NoIdentity}] /\ NoIdentity \notin Made
        /\ Cardinality(Made) \in Nat
    BY IdentityTypes
  <2>3. \A c \in Backfills : stamping'[c] = NoIdentity => stamping[c] = NoIdentity
    BY <1>6, <2>2 DEF MakeForGroup, NoIdentity
  <2> QED
    BY <2>1, <2>3 DEF GroupTogether
<1>7. ASSUME NEW b \in Backfills, LoseBackfill(b) \/ \E e \in Enrolments : StampRow(b, e)
      PROVE  IdentitiesInv' /\ \A c \in Backfills : GroupTogether(c)
  BY <1>7, LoseBackfillStep, StampRowStep
<1>8. CASE UNCHANGED identityVars
  <2>1. UNCHANGED <<identityOf, madeFor, unstamped, stamping, group, formStage, formRow,
                    formIdentity, chosenAmiss, lost, shared, Made>>
    BY <1>8 DEF identityVars, backfillVars, formVars, identityHistory, Made
  <2> QED
    BY <1>8, <2>1 DEF IdentitiesInv, IdentitiesTypeOK, OfItsPerson, FormsKnow, GroupAtHand,
          GroupOf, StampedTogether, HeldApart
<1> QED
  BY <1>1, <1>2, <1>3, <1>4, <1>5, <1>6, <1>7, <1>8 DEF NextIdentities

LEMMA IdentitiesAlways ==
    SpecIdentities => []IdentitiesInv /\ [][\A b \in Backfills : GroupTogether(b)]_identityVars
BY IdentitiesInit, IdentitiesStep, PTL DEF SpecIdentities

\* Identities are numbered as they are made, and rows point to one that was.
THEOREM IdentitiesTypeCorrect == SpecIdentities => []IdentitiesTypeOK
BY IdentitiesAlways, PTL DEF IdentitiesInv

\* "so siblings using the same parent email ... don't collapse".
THEOREM SiblingsApart == SpecIdentities => []SiblingsStayApart
<1>1. IdentitiesInv => SiblingsStayApart
  BY DEF IdentitiesInv, OfItsPerson, SiblingsStayApart
<1> QED
  BY <1>1, IdentitiesAlways, PTL

\* "the same person across academic years lands on one identity".
THEOREM GroupsEndTogether == SpecIdentities => BackfilledTogether
BY IdentitiesAlways, PTL DEF BackfilledTogether
=============================================================================
