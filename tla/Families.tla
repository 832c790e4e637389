------------------------------ MODULE Families ------------------------------
(***************************************************************************)
(* Parents and their children, one school: ensureForStudent and the        *)
(* administration of parents (parents.service.ts), called when a student   *)
(* is edited, enrolled or swept over at start-up (students.service.ts,     *)
(* upload.service.ts).  A parent signs in with the address of an active    *)
(* row of `parents` and sees the children linked to it.  An edit that is   *)
(* not about the address writes the address it has read all the same.      *)
(*                                                                         *)
(* ensureForStudent is a transaction, and reads before it writes.  An edit *)
(* has committed the student by then; an enrolment commits both together.  *)
(* A parent row is known by its address, and found by a request under the  *)
(* address it has now, if an administrator changed it.                     *)
(***************************************************************************)
EXTENDS Naturals, FiniteSets

CONSTANTS
    Children,         \* students, one row each
    Addresses,        \* e-mail addresses, in lower case
    Editors,          \* requests that may be in progress
    MaxEdits,         \* bound: edits, enrolments and sweeps begun
    MaxInterventions, \* bound: administration of parents, and restarts
    NoAddress

ASSUME FamiliesAssumption ==
    /\ {NoAddress, "none", "gone"} \cap Addresses = {}
    /\ MaxEdits \in Nat /\ MaxInterventions \in Nat

FamilyLinks == [parent : Addresses, child : Children]

VARIABLES
    contact,      \* students.email; NoAddress: not enrolled
    parents,      \* per address: is there a parent row, and is it active?
    links,        \* parent_students
    primary,      \* the links with is_primary
    job,          \* per request: the call of ensureForStudent at work
    backlog,      \* per request: the calls a sweep has yet to make
    edits, interventions,
    behind,       \* children whose parent was not served (history)
    intruded,     \* requests an administrator or a restart crossed (history)
    met           \* requests that another committed after they read (history)

familyTables == <<contact, parents, links, primary>>
familyHistory == <<behind, intruded, met>>
familyVars == <<familyTables, job, backlog, edits, interventions, familyHistory>>

\* seen: the parent row found; "none": there was none; "gone": removed since.
NoJob == [at |-> "idle"]
Call(at, c, a, enrols) ==
    [at |-> at, child |-> c, address |-> a, enrols |-> enrols]
Jobs == {NoJob} \cup
    [at : {"copied", "begun"}, child : Children, address : Addresses, enrols : BOOLEAN] \cup
    [at : {"read"}, child : Children, address : Addresses, enrols : BOOLEAN,
     seen : Addresses \cup {"none", "gone"}, linked : BOOLEAN, anyPrimary : BOOLEAN,
     woke : BOOLEAN]

FamiliesTypeOK ==
    /\ contact \in [Children -> Addresses \cup {NoAddress}]
    /\ parents \in [Addresses -> {"none", "active", "inactive"}]
    /\ links \subseteq {l \in FamilyLinks : parents[l.parent] # "none"}
    /\ primary \subseteq links
    /\ job \in [Editors -> Jobs]
    /\ backlog \in [Editors -> SUBSET (Children \X Addresses)]
    /\ edits \in 0 .. MaxEdits /\ interventions \in 0 .. MaxInterventions
    /\ behind \subseteq Children
    /\ intruded \subseteq Editors /\ met \subseteq Editors

InitFamilies ==
    /\ contact = [c \in Children |-> NoAddress]
    /\ parents = [a \in Addresses |-> "none"]
    /\ links = {} /\ primary = {}
    /\ job = [r \in Editors |-> NoJob]
    /\ backlog = [r \in Editors |-> {}]
    /\ edits = 0 /\ interventions = 0
    /\ behind = {} /\ intruded = {} /\ met = {}

Busy == {r \in Editors : job[r] # NoJob \/ backlog[r] # {}}
Reading == {r \in Editors : job[r].at = "read"}

-----------------------------------------------------------------------------
(* The callers.                                                            *)

BeginRequest(r) ==
    /\ r \notin Busy
    /\ edits < MaxEdits
    /\ edits' = edits + 1
    /\ intruded' = intruded \ {r}
    /\ UNCHANGED <<parents, links, primary, interventions, met>>

\* update, of another field: the student is read.
ReadStudent(r, c) ==
    /\ contact[c] # NoAddress
    /\ BeginRequest(r)
    /\ job' = [job EXCEPT ![r] = Call("copied", c, contact[c], FALSE)]
    /\ UNCHANGED <<contact, backlog, behind>>

\* The copy is saved as a whole.  If it is stale, an old address is back, and
\* ensureForStudent is not called for it.
SaveStudent(r) ==
    /\ job[r].at = "copied"
    /\ contact' = [contact EXCEPT ![job[r].child] = job[r].address]
    /\ behind' = IF contact' = contact THEN behind ELSE behind \cup {job[r].child}
    /\ job' = [job EXCEPT ![r] = NoJob]
    /\ UNCHANGED <<parents, links, primary, backlog, edits, interventions, intruded, met>>

\* update, of the address: the student is saved, then ensureForStudent is called.
UpdateStudent(r, c, a) ==
    /\ contact[c] # NoAddress
    /\ BeginRequest(r)
    /\ contact' = [contact EXCEPT ![c] = a]
    /\ job' = [job EXCEPT ![r] = Call("begun", c, a, FALSE)]
    /\ behind' = behind \cup {c}
    /\ UNCHANGED backlog

\* createOne and persist: the student is written in the same transaction.
Enrol(r, c, a) ==
    /\ BeginRequest(r)
    /\ job' = [job EXCEPT ![r] = Call("begun", c, a, TRUE)]
    /\ UNCHANGED <<contact, backlog, behind>>

\* backfillFromStudents reads all students first.
BackfillFromStudents(r) ==
    /\ BeginRequest(r)
    /\ backlog' = [backlog EXCEPT
          ![r] = {<<c, contact[c]>> : c \in {d \in Children : contact[d] # NoAddress}}]
    /\ UNCHANGED <<contact, job, behind>>

BackfillNext(r, c, a) ==
    /\ job[r] = NoJob
    /\ <<c, a>> \in backlog[r]
    /\ backlog' = [backlog EXCEPT ![r] = @ \ {<<c, a>>}]
    /\ job' = [job EXCEPT ![r] = Call("begun", c, a, FALSE)]
    /\ UNCHANGED <<familyTables, edits, interventions, familyHistory>>

-----------------------------------------------------------------------------
(* ensureForStudent.                                                       *)

PrimaryOf(a) == {l \in primary : l.parent = a}

\* A parent row being reactivated is locked until the transaction ends.
LockedRow(a) == \E r \in Reading : job[r].woke /\ job[r].seen = a

\* Mutant of Found: an inactive parent is left as it is.
FoundAsleep(j) ==
    [at |-> "read", child |-> j.child, address |-> j.address, enrols |-> j.enrols,
     seen |-> j.address, woke |-> FALSE,
     linked |-> [parent |-> j.address, child |-> j.child] \in links,
     anyPrimary |-> PrimaryOf(j.address) # {}]

Found(j) ==
    [at |-> "read", child |-> j.child, address |-> j.address, enrols |-> j.enrols,
     seen |-> j.address, woke |-> parents[j.address] = "inactive",
     linked |-> [parent |-> j.address, child |-> j.child] \in links,
     anyPrimary |-> PrimaryOf(j.address) # {}]

NotFound(j) ==
    [at |-> "read", child |-> j.child, address |-> j.address, enrols |-> j.enrols,
     seen |-> "none", woke |-> FALSE, linked |-> FALSE, anyPrimary |-> FALSE]

\* Mutant of ReadFamily: nothing is looked up.
ReadNothing(r) ==
    /\ job[r].at = "begun"
    /\ job' = [job EXCEPT ![r] = NotFound(@)]
    /\ met' = met \ {r}
    /\ UNCHANGED <<familyTables, backlog, edits, interventions, behind, intruded>>

\* The parent, the link and a primary link are looked up.
ReadFamily(r) ==
    /\ job[r].at = "begun"
    /\ LET a == job[r].address IN
         IF parents[a] = "none"
         THEN job' = [job EXCEPT ![r] = NotFound(@)]
         ELSE /\ ~LockedRow(a)
              /\ job' = [job EXCEPT ![r] = Found(@)]
    /\ met' = met \ {r}
    /\ UNCHANGED <<familyTables, backlog, edits, interventions, behind, intruded>>

\* uq_parents_tenant_email, uq_parent_students_link, or no row to refer to.
Fails(j) ==
    \/ j.seen = "gone"
    \/ j.seen = "none" /\ parents[j.address] # "none"
    \/ /\ j.seen \in Addresses /\ ~j.linked
       /\ [parent |-> j.seen, child |-> j.child] \in links

ParentOf(j) == IF j.seen = "none" THEN j.address ELSE j.seen

\* Is the new link primary?
NewLink(j) == ~j.anyPrimary

CommitFamily(r) ==
    /\ job[r].at = "read"
    /\ ~Fails(job[r])
    /\ LET j == job[r]
           l == [parent |-> ParentOf(j), child |-> j.child] IN
         /\ parents' = IF j.seen = "none" \/ j.woke
                       THEN [parents EXCEPT ![ParentOf(j)] = "active"] ELSE parents
         /\ links' = IF j.linked THEN links ELSE links \cup {l}
         /\ primary' = IF ~j.linked /\ NewLink(j) THEN primary \cup {l} ELSE primary
         /\ contact' = IF j.enrols THEN [contact EXCEPT ![j.child] = j.address] ELSE contact
         /\ behind' = IF r \in intruded THEN behind \cup {j.child}
                      ELSE IF contact'[j.child] = j.address THEN behind \ {j.child}
                      ELSE behind
    /\ job' = [job EXCEPT ![r] = NoJob]
    /\ met' = (met \ {r}) \cup (Reading \ {r})
    /\ UNCHANGED <<backlog, edits, interventions, intruded>>

\* Rolled back.  An edit has saved the student before; a sweep goes on.
FailFamily(r) ==
    /\ job[r].at = "read"
    /\ Fails(job[r])
    /\ job' = [job EXCEPT ![r] = NoJob]
    /\ UNCHANGED <<familyTables, backlog, edits, interventions, familyHistory>>

-----------------------------------------------------------------------------
(* The administration of parents.                                          *)

Intervene ==
    /\ interventions < MaxInterventions
    /\ interventions' = interventions + 1
    /\ intruded' = intruded \cup Busy
    /\ UNCHANGED <<contact, backlog, edits, met>>

ContactsAt(a) == {c \in Children : contact[c] = a}

\* update: isActive.
SetActive(a, to) ==
    /\ Intervene
    /\ parents[a] # "none" /\ ~LockedRow(a)
    /\ parents' = [parents EXCEPT ![a] = to]
    /\ behind' = IF to = "inactive" THEN behind \cup ContactsAt(a) ELSE behind
    /\ UNCHANGED <<links, primary, job>>

Moved(ls, a, b) ==
    {IF l.parent = a THEN [l EXCEPT !.parent = b] ELSE l : l \in ls}

\* update: email.  The row keeps its links, and the requests that found it.
ChangeAddress(a, b) ==
    /\ Intervene
    /\ parents[a] # "none" /\ parents[b] = "none" /\ a # b /\ ~LockedRow(a)
    /\ parents' = [parents EXCEPT ![a] = "none", ![b] = parents[a]]
    /\ links' = Moved(links, a, b) /\ primary' = Moved(primary, a, b)
    /\ job' = [r \in Editors |->
                 IF job[r].at = "read" /\ job[r].seen = a
                 THEN [job[r] EXCEPT !.seen = b] ELSE job[r]]
    /\ behind' = behind \cup ContactsAt(a) \cup ContactsAt(b)

\* remove: the links go with the row.
RemoveParent(a) ==
    /\ Intervene
    /\ parents[a] # "none" /\ ~LockedRow(a)
    /\ parents' = [parents EXCEPT ![a] = "none"]
    /\ links' = {l \in links : l.parent # a}
    /\ primary' = {l \in primary : l.parent # a}
    /\ job' = [r \in Editors |->
                 IF job[r].at = "read" /\ job[r].seen = a
                 THEN [job[r] EXCEPT !.seen = "gone"] ELSE job[r]]
    /\ behind' = behind \cup ContactsAt(a)

\* addStudentLink takes isPrimary as it comes; removeStudentLink.
AddStudentLink(a, c, isPrimary) ==
    /\ Intervene
    /\ parents[a] # "none"
    /\ [parent |-> a, child |-> c] \notin links
    /\ links' = links \cup {[parent |-> a, child |-> c]}
    /\ primary' = IF isPrimary THEN primary \cup {[parent |-> a, child |-> c]} ELSE primary
    /\ UNCHANGED <<parents, job, behind>>

RemoveStudentLink(l) ==
    /\ Intervene
    /\ l \in links
    /\ links' = links \ {l} /\ primary' = primary \ {l}
    /\ behind' = behind \cup {l.child}
    /\ UNCHANGED <<parents, job>>

\* The requests in progress are lost; the next start sweeps (a request).
RestartApi ==
    /\ interventions < MaxInterventions
    /\ Busy # {}
    /\ interventions' = interventions + 1
    /\ job' = [r \in Editors |-> NoJob]
    /\ backlog' = [r \in Editors |-> {}]
    /\ intruded' = intruded \cup Busy
    /\ UNCHANGED <<familyTables, edits, behind, met>>

-----------------------------------------------------------------------------
NextFamilies ==
    \/ \E r \in Editors, c \in Children, a \in Addresses :
          UpdateStudent(r, c, a) \/ Enrol(r, c, a) \/ BackfillNext(r, c, a)
    \/ \E r \in Editors :
          \/ BackfillFromStudents(r) \/ SaveStudent(r)
          \/ ReadFamily(r) \/ CommitFamily(r) \/ FailFamily(r)
    \/ \E r \in Editors, c \in Children : ReadStudent(r, c)
    \/ \E a \in Addresses :
          SetActive(a, "active") \/ SetActive(a, "inactive") \/ RemoveParent(a)
    \/ \E a, b \in Addresses : ChangeAddress(a, b)
    \/ \E a \in Addresses, c \in Children, p \in BOOLEAN : AddStudentLink(a, c, p)
    \/ \E l \in links : RemoveStudentLink(l)
    \/ RestartApi

SpecFamilies == InitFamilies /\ [][NextFamilies]_familyVars

-----------------------------------------------------------------------------
(* Properties.                                                             *)

\* "so the parent can log in by email-OTP": the contact of every student has
\* an active row and is linked to the student, except while a request is at
\* it, after one failed or was lost, after an administrator undid it, and
\* after a stale copy of the student put an old address back.
ContactsCanSignIn ==
    \A c \in Children \ behind :
        contact[c] # NoAddress =>
            /\ parents[contact[c]] = "active"
            /\ [parent |-> contact[c], child |-> c] \in links

\* ensureForStudent fails only when another request committed, or an
\* administrator intervened, between its reading and its writing: a sweep at
\* start-up, before requests are served, leaves nobody out.
FailsOnlyInCompany ==
    \A r \in Reading : Fails(job[r]) => r \in met \cup intruded
=============================================================================
