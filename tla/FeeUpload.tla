----------------------------- MODULE FeeUpload -----------------------------
(***************************************************************************)
(* Enrolment of students with their fees, one school and one academic      *)
(* year: the Excel upload (upload.service.ts, upload-validation.service.ts)*)
(* and the single-student form (createOne), both over bulkUpsert of        *)
(* students.service.ts and findExistingByKeys and bulkCreate of            *)
(* fees.service.ts.                                                        *)
(*                                                                         *)
(* A file is validated against the fees committed so far, outside the      *)
(* transaction that writes it; the transaction reads the students once and *)
(* then inserts.  An INSERT waits for an open transaction with the same    *)
(* unique key, so that the writes of a request take effect at its commit,  *)
(* or fail altogether.                                                     *)
(*                                                                         *)
(* A row is <<spelling of the school code, admission number, term>>.  The  *)
(* school code is compared without regard to case when a row is authorised *)
(* and when duplicates are sought in the file, and exactly by the database.*)
(***************************************************************************)
EXTENDS Naturals, FiniteSets

CONSTANTS
    Uploads,        \* confirm and create requests, one file each
    CodeSpellings,  \* spellings of the school code, equal but for case
    JwtSpelling,    \* how the administrator's token spells it
    Admissions, Terms,
    Emails, EmailOf,  \* the parent's address in the rows of an admission
    MaxRows         \* bound: rows of one file

ASSUME FeeUploadAssumption ==
    /\ JwtSpelling \in CodeSpellings
    /\ EmailOf \in [Admissions -> Emails]
    /\ MaxRows \in Nat

Rows == [code : CodeSpellings, adm : Admissions, term : Terms]
StudentRows == [code : CodeSpellings, adm : Admissions]
Files == {f \in SUBSET Rows : Cardinality(f) \in 1 .. MaxRows}

VARIABLES
    students,     \* the table: the unique key stands for the row
    fees,         \* the table, with the request that inserted each fee
    parentRows,   \* the addresses that have a row of parents
    uploadStage,  \* how far each request is
    form,         \* the requests that came from the single-student form
    file,         \* its rows
    found,        \* the students its transaction found
    foundParents  \* the parents it found

tableVars == <<students, fees, parentRows>>
feeUploadVars ==
    <<tableVars, uploadStage, form, file, found, foundParents>>

UploadEnds == {"saved", "invalid", "conflict"}

FeeUploadTypeOK ==
    /\ students \subseteq StudentRows
    /\ fees \subseteq [branch : CodeSpellings, student : students, term : Terms, by : Uploads]
    /\ parentRows = {EmailOf[s.adm] : s \in students}
    /\ uploadStage \in [Uploads -> {"new", "valid", "read"} \cup UploadEnds]
    /\ form \subseteq Uploads
    /\ file \in [Uploads -> SUBSET Rows]
    /\ found \in [Uploads -> SUBSET students]
    /\ foundParents \in [Uploads -> SUBSET parentRows]

InitFeeUpload ==
    /\ students = {}
    /\ fees = {}
    /\ parentRows = {}
    /\ uploadStage = [u \in Uploads |-> "new"]
    /\ form = {}
    /\ file = [u \in Uploads |-> {}]
    /\ found = [u \in Uploads |-> {}]
    /\ foundParents = [u \in Uploads |-> {}]

\* The students of a file: rows that differ in the term share one.
StudentsOf(f) == {[code |-> r.code, adm |-> r.adm] : r \in f}

ParentsOf(f) == {EmailOf[r.adm] : r \in f}

\* Stage 2 of validate: one term twice in the file, whatever the case.
RepeatedInFile(f) ==
    \E r, s \in f : r # s /\ r.adm = s.adm /\ r.term = s.term

\* Stage 3: findExistingByKeys compares the branch of the token exactly.
AlreadyBilled(f) ==
    \E r \in f, x \in fees :
        x.branch = JwtSpelling /\ x.student.adm = r.adm /\ x.term = r.term

\* confirmUpload: the file is validated again; one bad row refuses it.
Validate(u, f) ==
    /\ uploadStage[u] = "new"
    /\ file' = [file EXCEPT ![u] = f]
    /\ uploadStage' = [uploadStage EXCEPT
          ![u] = IF RepeatedInFile(f) \/ AlreadyBilled(f) THEN "invalid" ELSE "valid"]
    /\ UNCHANGED <<tableVars, form, found, foundParents>>

\* createOne: one student, not validated against the fees.
CreateOne(u, f) ==
    /\ uploadStage[u] = "new"
    /\ Cardinality(StudentsOf(f)) = 1
    /\ file' = [file EXCEPT ![u] = f]
    /\ form' = form \cup {u}
    /\ uploadStage' = [uploadStage EXCEPT ![u] = "valid"]
    /\ UNCHANGED <<tableVars, found, foundParents>>

\* bulkUpsert looks for the students under the school code of its first
\* input, ensureForStudent for the parents.
ReadRows(u, code) ==
    /\ uploadStage[u] = "valid"
    /\ \E r \in file[u] : r.code = code
    /\ found' = [found EXCEPT
          ![u] = {s \in students : s.code = code /\ \E r \in file[u] : r.adm = s.adm}]
    /\ foundParents' = [foundParents EXCEPT ![u] = ParentsOf(file[u]) \cap parentRows]
    /\ uploadStage' = [uploadStage EXCEPT ![u] = "read"]
    /\ UNCHANGED <<tableVars, form, file>>

\* The maps of bulkUpsert have no school code in their keys: a student found
\* stands for every row with its admission number.
Created(u) ==
    {s \in StudentsOf(file[u]) : \A t \in found[u] : t.adm # s.adm}

\* idByKey: of several students with one admission number the last is kept.
IdByKey(u) ==
    {ids \in [{r.adm : r \in file[u]} -> found[u] \cup Created(u)] :
        \A a \in DOMAIN ids : ids[a].adm = a}

NewFees(u, ids) ==
    {[branch |-> r.code, student |-> ids[r.adm], term |-> r.term, by |-> u] : r \in file[u]}

\* Mutant of Violates: the fees have no unique key.
ViolatesStudentsOnly(u, ids) == Created(u) \cap students # {}

\* uq_students_tenant_branch_admission_year, uq_parents_tenant_email and
\* uq_fees_tenant_branch_student_year_term.
Violates(u, ids) ==
    \/ Created(u) \cap students # {}
    \/ (ParentsOf(file[u]) \ foundParents[u]) \cap parentRows # {}
    \/ \E x \in NewFees(u, ids), y \in fees :
          x.branch = y.branch /\ x.student = y.student /\ x.term = y.term

\* Students, parents and fees are committed together.
Save(u, ids) ==
    /\ uploadStage[u] = "read"
    /\ ids \in IdByKey(u)
    /\ ~Violates(u, ids)
    /\ students' = students \cup Created(u)
    /\ parentRows' = parentRows \cup ParentsOf(file[u])
    /\ fees' = fees \cup NewFees(u, ids)
    /\ uploadStage' = [uploadStage EXCEPT ![u] = "saved"]
    /\ UNCHANGED <<form, file, found, foundParents>>

\* 23505: everything is rolled back, and an upload reports a concurrent one.
Conflict(u, ids) ==
    /\ uploadStage[u] = "read"
    /\ ids \in IdByKey(u)
    /\ Violates(u, ids)
    /\ uploadStage' = [uploadStage EXCEPT ![u] = "conflict"]
    /\ UNCHANGED <<tableVars, form, file, found, foundParents>>

NextFeeUpload ==
    \/ \E u \in Uploads, f \in Files : Validate(u, f) \/ CreateOne(u, f)
    \/ \E u \in Uploads, code \in CodeSpellings : ReadRows(u, code)
    \/ \E u \in Uploads :
          \E ids \in [{r.adm : r \in file[u]} -> StudentRows] :
              Save(u, ids) \/ Conflict(u, ids)

SpecFeeUpload == InitFeeUpload /\ [][NextFeeUpload]_feeUploadVars

-----------------------------------------------------------------------------
(* Properties.                                                             *)

SpelledAlike == \A u, v \in Uploads : \A r \in file[u], s \in file[v] : r.code = s.code

\* "Duplicate prevention (the core insert-only contract)": no student is
\* billed one term twice, by whatever requests.
EachTermBilledOnce ==
    \A x, y \in fees : x.student.adm = y.student.adm /\ x.term = y.term => x = y

\* So it is as long as all files spell the school code alike, however the
\* validation of one request and the transaction of another interleave.
BilledOnceIfSpelledAlike == SpelledAlike => EachTermBilledOnce
=============================================================================
