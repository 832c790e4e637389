----------------------------- MODULE Identities -----------------------------
(***************************************************************************)
(* The identity that joins the enrolments of one person over the years:    *)
(* student-identities.service.ts, with createOne of upload.service.ts.     *)
(* The form makes an identity, or is given one, before the transaction     *)
(* that writes the enrolment; an upload writes enrolments without one; a   *)
(* backfill, at start-up or on request, reads all enrolments without one,  *)
(* and then makes an identity per person and stamps row after row.         *)
(***************************************************************************)
EXTENDS Naturals, FiniteSets

CONSTANTS
    Persons,         \* admission number and e-mail address
    SchoolYears,
    Enrolments,      \* the rows there may be: <<person, year>>
    Backfills,       \* instances of the API, or requests, that may backfill
    Forms,           \* createOne requests
    MaxIdentities    \* bound: identities made

ASSUME IdentitiesAssumption ==
    /\ Enrolments \subseteq Persons \X SchoolYears
    /\ MaxIdentities \in Nat

NoIdentity == 0
Ids == 1 .. MaxIdentities

VARIABLES
    identityOf,      \* students.identity_id, of the rows there are
    madeFor,         \* the identities made, with the person each is made for
    unstamped,       \* per backfill: the rows it read and has yet to stamp
    stamping,        \* per backfill: the identity of the group at hand
    group,           \* per backfill: the rows of that group (history)
    formStage, formRow, formIdentity,   \* per form
    chosenAmiss,     \* did the office choose another person's identity? (history)
    lost,            \* identities of failed forms or of lost backfills (history)
    shared           \* persons that two backfills, or a form beside one, had (history)

backfillVars == <<unstamped, stamping, group>>
formVars == <<formStage, formRow, formIdentity>>
identityHistory == <<chosenAmiss, lost, shared>>
identityVars == <<identityOf, madeFor, backfillVars, formVars, identityHistory>>

Made == DOMAIN madeFor
NoRow == <<>>

IdentitiesTypeOK ==
    /\ DOMAIN identityOf \subseteq Enrolments
    /\ \A e \in DOMAIN identityOf : identityOf[e] \in Made \cup {NoIdentity}
    /\ Made = 1 .. Cardinality(Made) /\ Made \subseteq Ids
    /\ \A i \in Made : madeFor[i] \in Persons
    /\ unstamped \in [Backfills -> SUBSET Enrolments]
    /\ stamping \in [Backfills -> Made \cup {NoIdentity}]
    /\ group \in [Backfills -> SUBSET Enrolments]
    /\ formStage \in [Forms -> {"new", "identified", "done"}]
    /\ formRow \in [Forms -> Enrolments \cup {NoRow}]
    /\ formIdentity \in [Forms -> Made \cup {NoIdentity}]
    /\ chosenAmiss \in BOOLEAN
    /\ lost \subseteq Made /\ shared \subseteq Persons

InitIdentities ==
    /\ identityOf = <<>>
    /\ madeFor = <<>>
    /\ unstamped = [b \in Backfills |-> {}]
    /\ stamping = [b \in Backfills |-> NoIdentity]
    /\ group = [b \in Backfills |-> {}]
    /\ formStage = [f \in Forms |-> "new"]
    /\ formRow = [f \in Forms |-> NoRow]
    /\ formIdentity = [f \in Forms |-> NoIdentity]
    /\ chosenAmiss = FALSE /\ lost = {} /\ shared = {}

Missing == {e \in DOMAIN identityOf : identityOf[e] = NoIdentity}

\* The row is inserted, or found by its unique key and given the identity.
WithRow(e, i) ==
    [d \in DOMAIN identityOf \cup {e} |->
        IF d # e THEN identityOf[d]
        ELSE IF i # NoIdentity THEN i
        ELSE IF e \in DOMAIN identityOf THEN identityOf[e] ELSE NoIdentity]

Make(p) ==
    /\ Cardinality(Made) < MaxIdentities
    /\ madeFor' = [i \in 1 .. Cardinality(Made) + 1 |->
                     IF i \in Made THEN madeFor[i] ELSE p]

\* bulkUpsert of an upload.
UploadRow(e) ==
    /\ e \notin DOMAIN identityOf
    /\ identityOf' = WithRow(e, NoIdentity)
    /\ UNCHANGED <<madeFor, backfillVars, formVars, identityHistory>>

-----------------------------------------------------------------------------
(* createOne.                                                              *)

\* No identity is given: one is made, and committed.
FormMakesIdentity(f, e) ==
    /\ formStage[f] = "new"
    /\ Make(e[1])
    /\ formIdentity' = [formIdentity EXCEPT ![f] = Cardinality(Made) + 1]
    /\ formRow' = [formRow EXCEPT ![f] = e]
    /\ formStage' = [formStage EXCEPT ![f] = "identified"]
    /\ UNCHANGED <<identityOf, backfillVars, identityHistory>>

\* The office picked one of the matches.
FormNamesIdentity(f, e, i) ==
    /\ formStage[f] = "new"
    /\ i \in Made
    /\ formIdentity' = [formIdentity EXCEPT ![f] = i]
    /\ formRow' = [formRow EXCEPT ![f] = e]
    /\ formStage' = [formStage EXCEPT ![f] = "identified"]
    /\ chosenAmiss' = (chosenAmiss \/ madeFor[i] # e[1])
    /\ UNCHANGED <<identityOf, madeFor, backfillVars, lost, shared>>

\* Backfills that hold the row in memory, as one without an identity.
Holding(e) == {b \in Backfills : e \in unstamped[b]}

\* The request ends, and what it held in memory is gone.
EndForm(f) ==
    /\ formStage' = [formStage EXCEPT ![f] = "done"]
    /\ formRow' = [formRow EXCEPT ![f] = NoRow]
    /\ formIdentity' = [formIdentity EXCEPT ![f] = NoIdentity]

CommitForm(f) ==
    /\ formStage[f] = "identified"
    /\ identityOf' = WithRow(formRow[f], formIdentity[f])
    /\ EndForm(f)
    /\ lost' = IF formRow[f] \in DOMAIN identityOf
               THEN lost \cup ({identityOf[formRow[f]]} \ {NoIdentity}) ELSE lost
    /\ shared' = IF Holding(formRow[f]) = {} THEN shared
                     ELSE shared \cup {formRow[f][1]}
    /\ UNCHANGED <<madeFor, backfillVars, chosenAmiss>>

\* The transaction fails, or the request is lost: the identity stays.
FailForm(f) ==
    /\ formStage[f] = "identified"
    /\ EndForm(f)
    /\ lost' = lost \cup {formIdentity[f]}
    /\ UNCHANGED <<identityOf, madeFor, backfillVars, chosenAmiss, shared>>

-----------------------------------------------------------------------------
(* ensureIdentitiesForExisting.                                            *)

\* The rows of its group that backfill b has yet to stamp.
GroupOf(b, p) == {e \in unstamped[b] : e[1] = p}
Held == UNION {unstamped[b] : b \in Backfills}

ReadMissing(b) ==
    /\ unstamped[b] = {} /\ Missing # {}
    /\ unstamped' = [unstamped EXCEPT ![b] = Missing]
    /\ shared' = shared \cup {e[1] : e \in Held \cap Missing}
    /\ UNCHANGED <<identityOf, madeFor, stamping, group, formVars, chosenAmiss, lost>>

MakeForGroup(b, p) ==
    /\ stamping[b] = NoIdentity
    /\ GroupOf(b, p) # {}
    /\ Make(p)
    /\ stamping' = [stamping EXCEPT ![b] = Cardinality(Made) + 1]
    /\ group' = [group EXCEPT ![b] = GroupOf(b, p)]
    /\ UNCHANGED <<identityOf, unstamped, formVars, identityHistory>>

\* Mutant of StampRow: an identity serves more than its group.
StampAnyRow(b, e) ==
    /\ stamping[b] # NoIdentity
    /\ e \in unstamped[b]
    /\ identityOf' = [identityOf EXCEPT ![e] = stamping[b]]
    /\ unstamped' = [unstamped EXCEPT ![b] = @ \ {e}]
    /\ stamping' = [stamping EXCEPT ![b] = IF unstamped[b] = {e} THEN NoIdentity ELSE @]
    /\ group' = [group EXCEPT ![b] = IF stamping'[b] = NoIdentity THEN {} ELSE @]
    /\ UNCHANGED <<madeFor, formVars, identityHistory>>

\* Mutant of StampRow: every row gets an identity of its own.
StampOneRow(b, e) ==
    /\ stamping[b] # NoIdentity
    /\ e \in GroupOf(b, madeFor[stamping[b]])
    /\ identityOf' = [identityOf EXCEPT ![e] = stamping[b]]
    /\ unstamped' = [unstamped EXCEPT ![b] = @ \ {e}]
    /\ stamping' = [stamping EXCEPT ![b] = NoIdentity]
    /\ group' = [group EXCEPT ![b] = IF stamping'[b] = NoIdentity THEN {} ELSE @]
    /\ UNCHANGED <<madeFor, formVars, identityHistory>>

\* The row is stamped by its id, whatever it has by now.
StampRow(b, e) ==
    /\ stamping[b] # NoIdentity
    /\ e \in GroupOf(b, madeFor[stamping[b]])
    /\ identityOf' = [identityOf EXCEPT ![e] = stamping[b]]
    /\ unstamped' = [unstamped EXCEPT ![b] = @ \ {e}]
    /\ stamping' = [stamping EXCEPT
          ![b] = IF GroupOf(b, e[1]) = {e} THEN NoIdentity ELSE @]
    /\ group' = [group EXCEPT ![b] = IF stamping'[b] = NoIdentity THEN {} ELSE @]
    /\ UNCHANGED <<madeFor, formVars, identityHistory>>

\* The process ends.
LoseBackfill(b) ==
    /\ unstamped[b] # {}
    /\ unstamped' = [unstamped EXCEPT ![b] = {}]
    /\ stamping' = [stamping EXCEPT ![b] = NoIdentity]
    /\ group' = [group EXCEPT ![b] = {}]
    /\ lost' = lost \cup ({stamping[b]} \ {NoIdentity})
    /\ UNCHANGED <<identityOf, madeFor, formVars, chosenAmiss, shared>>

NextIdentities ==
    \/ \E e \in Enrolments : UploadRow(e)
    \/ \E f \in Forms, e \in Enrolments : FormMakesIdentity(f, e)
    \/ \E f \in Forms, e \in Enrolments, i \in Ids : FormNamesIdentity(f, e, i)
    \/ \E f \in Forms : CommitForm(f) \/ FailForm(f)
    \/ \E b \in Backfills : ReadMissing(b) \/ LoseBackfill(b)
    \/ \E b \in Backfills, p \in Persons : MakeForGroup(b, p)
    \/ \E b \in Backfills, e \in Enrolments : StampRow(b, e)

SpecIdentities == InitIdentities /\ [][NextIdentities]_identityVars

-----------------------------------------------------------------------------
(* Properties.                                                             *)

\* "so siblings using the same parent email but different admission numbers
\* don't collapse": no two persons share an identity, whatever backfills and
\* forms run at once, unless the office chose one amiss.
SiblingsStayApart ==
    chosenAmiss \/ \A d, e \in DOMAIN identityOf :
        identityOf[d] = identityOf[e] /\ identityOf[d] # NoIdentity => d[1] = e[1]

\* The rows of a group whose backfill is done with it have its identity.
GroupTogether(b) ==
    LET p == madeFor[stamping[b]] IN
    stamping[b] \notin lost' \cup {NoIdentity} /\ stamping'[b] = NoIdentity
    /\ p \notin shared
    => \A e \in group[b] : identityOf'[e] = stamping[b]

\* "the same person across academic years lands on one identity": the rows of
\* one person that a backfill found without an identity end up with the same
\* one, unless another backfill or a form had them at the same time.
BackfilledTogether == [][\A b \in Backfills : GroupTogether(b)]_identityVars
=============================================================================
