-------------------------- MODULE ReceiptTemplates --------------------------
(***************************************************************************)
(* The receipt templates of one school: receipt-templates.service.ts.  A   *)
(* template made the default first clears the flag of the templates it     *)
(* replaces and is then saved, in two statements without a transaction; an *)
(* edit reads the row, changes the copy and saves it.                      *)
(***************************************************************************)
EXTENDS Naturals, FiniteSets

CONSTANTS
    Templates,           \* the templates there may be a row of
    TemplateEditors,     \* requests that may be in progress
    MaxTemplateEdits,    \* bound: requests begun
    NoTemplate

Sources == {"ONLINE", "OFFLINE"}
TemplateRows == [kind : Sources \cup {"BOTH"}, isDefault : BOOLEAN, isActive : BOOLEAN]

ASSUME ReceiptTemplatesAssumption ==
    NoTemplate \notin Templates \cup TemplateRows /\ MaxTemplateEdits \in Nat

VARIABLES
    template,       \* the rows; a template without one: NoTemplate
    revision,       \* per request: the copy it is about to save
    templateEdits,
    chosen,         \* per source: the template made its default last (history)
    copiesMet       \* did requests overlap that disturb each other? (history)

templateVars == <<template, revision, templateEdits, chosen, copiesMet>>

NoRevision == [at |-> "idle"]
Revising(at, t, copy, makes, inserts) ==
    [at |-> at, of |-> t, copy |-> copy, makes |-> makes, inserts |-> inserts]

ReceiptTemplatesTypeOK ==
    /\ template \in [Templates -> TemplateRows \cup {NoTemplate}]
    /\ revision \in [TemplateEditors -> {NoRevision} \cup
          [at : {"clearing", "saving"}, of : Templates, copy : TemplateRows, makes : BOOLEAN,
           inserts : BOOLEAN]]
    /\ templateEdits \in 0 .. MaxTemplateEdits
    /\ chosen \in [Sources -> Templates \cup {NoTemplate}]
    /\ copiesMet \in BOOLEAN

InitReceiptTemplates ==
    /\ template = [t \in Templates |-> NoTemplate]
    /\ revision = [r \in TemplateEditors |-> NoRevision]
    /\ templateEdits = 0
    /\ chosen = [k \in Sources |-> NoTemplate]
    /\ copiesMet = FALSE

Exists(t) == template[t] # NoTemplate
Covers(kind) == IF kind = "BOTH" THEN Sources ELSE {kind}

\* Requests disturb each other over one template, or if both copies are defaults.
Disturbs(q, t, copy) ==
    revision[q] # NoRevision /\ (revision[q].of = t \/ (revision[q].copy.isDefault /\ copy.isDefault))

BeginRevision(r, t, copy, makes) ==
    /\ revision[r] = NoRevision
    /\ templateEdits < MaxTemplateEdits
    /\ templateEdits' = templateEdits + 1
    /\ revision' = [revision EXCEPT
          ![r] = Revising(IF makes THEN "clearing" ELSE "saving", t, copy, makes, ~Exists(t))]
    /\ copiesMet' = (copiesMet \/ \E q \in TemplateEditors : Disturbs(q, t, copy))
    /\ UNCHANGED <<template, chosen>>

\* create: the name must be new.
CreateTemplate(r, t, copy) ==
    /\ ~Exists(t)
    /\ BeginRevision(r, t, copy, copy.isDefault)

\* ensureStarterForTenant: the school has no template at all.
EnsureStarter(r, t) ==
    /\ \A s \in Templates : ~Exists(s)
    /\ BeginRevision(r, t, [kind |-> "BOTH", isDefault |-> TRUE, isActive |-> TRUE], FALSE)

\* update: kind and isActive, and isDefault set.
MakeDefault(r, t, kind, isActive) ==
    /\ Exists(t)
    /\ BeginRevision(r, t, [kind |-> kind, isDefault |-> TRUE, isActive |-> isActive], TRUE)

\* update: isDefault cleared, or left as it was read.
EditTemplate(r, t, copy) ==
    /\ Exists(t)
    /\ copy.isDefault => template[t].isDefault
    /\ BeginRevision(r, t, copy, FALSE)

\* Mutant of ReplacedKinds: a template for both leaves those for one alone.
ReplacedSameKind(kind) == {kind, "BOTH"}

\* The kinds whose defaults a new default of this kind replaces.
ReplacedKinds(kind) == IF kind = "BOTH" THEN Sources \cup {"BOTH"} ELSE {kind, "BOTH"}

\* clearOtherDefaults.
ClearOtherDefaults(r) ==
    /\ revision[r].at = "clearing"
    /\ LET cleared == {s \in Templates \ {revision[r].of} :
                          Exists(s) /\ template[s].kind \in ReplacedKinds(revision[r].copy.kind)} IN
         /\ template' = [s \in Templates |->
                           IF s \in cleared THEN [template[s] EXCEPT !.isDefault = FALSE]
                           ELSE template[s]]
         /\ chosen' = [k \in Sources |-> IF chosen[k] \in cleared THEN NoTemplate ELSE chosen[k]]
    /\ revision' = [revision EXCEPT ![r].at = "saving"]
    /\ UNCHANGED <<templateEdits, copiesMet>>

\* Which templates are known to be picked once t is saved as `copy`.  A template
\* that was a default and changes its kind may rival the one of the new kind.
ChosenAfter(t, copy, makes) ==
    [k \in Sources |->
        IF makes /\ copy.isActive /\ k \in Covers(copy.kind) THEN t
        ELSE IF chosen[k] = t /\ (~copy.isDefault \/ ~copy.isActive \/ k \notin Covers(copy.kind))
        THEN NoTemplate
        ELSE IF ~makes /\ copy.isDefault /\ k \in Covers(copy.kind) /\ chosen[k] # t
        THEN NoTemplate
        ELSE chosen[k]]

\* save: an UPDATE of the row, or an INSERT if there was none to read or it is
\* gone.
SaveTemplate(r) ==
    /\ revision[r].at = "saving"
    /\ revision[r].inserts <=> ~Exists(revision[r].of)
    /\ LET v == revision[r] IN
         /\ template' = [template EXCEPT ![v.of] = v.copy]
         /\ chosen' = ChosenAfter(v.of, v.copy, v.makes)
    /\ revision' = [revision EXCEPT ![r] = NoRevision]
    /\ UNCHANGED <<templateEdits, copiesMet>>

\* uq_receipt_templates_tenant_name, or the request is lost: what was cleared
\* stays cleared.
FailRevision(r) ==
    /\ revision[r] # NoRevision
    /\ revision' = [revision EXCEPT ![r] = NoRevision]
    /\ UNCHANGED <<template, templateEdits, chosen, copiesMet>>

\* remove.
RemoveTemplate(t) ==
    /\ Exists(t)
    /\ templateEdits < MaxTemplateEdits
    /\ templateEdits' = templateEdits + 1
    /\ template' = [template EXCEPT ![t] = NoTemplate]
    /\ chosen' = [k \in Sources |-> IF chosen[k] = t THEN NoTemplate ELSE chosen[k]]
    /\ copiesMet' = (copiesMet \/ \E q \in TemplateEditors :
                        revision[q] # NoRevision /\ revision[q].of = t)
    /\ revision' = [q \in TemplateEditors |->
                      IF revision[q] # NoRevision /\ revision[q].of = t
                      THEN [revision[q] EXCEPT !.inserts = TRUE] ELSE revision[q]]

NextReceiptTemplates ==
    \/ \E r \in TemplateEditors, t \in Templates, copy \in TemplateRows :
          CreateTemplate(r, t, copy) \/ EditTemplate(r, t, copy)
    \/ \E r \in TemplateEditors, t \in Templates, kind \in Sources \cup {"BOTH"}, a \in BOOLEAN :
          MakeDefault(r, t, kind, a)
    \/ \E r \in TemplateEditors, t \in Templates : EnsureStarter(r, t)
    \/ \E r \in TemplateEditors : ClearOtherDefaults(r) \/ SaveTemplate(r) \/ FailRevision(r)
    \/ \E t \in Templates : RemoveTemplate(t)

SpecReceiptTemplates == InitReceiptTemplates /\ [][NextReceiptTemplates]_templateVars

-----------------------------------------------------------------------------
(* Properties.                                                             *)

ActiveDefaults(kind) ==
    {t \in Templates : Exists(t) /\ template[t].isDefault /\ template[t].isActive
                         /\ template[t].kind = kind}

\* pickDefault: any of the defaults for this source, or else of those for both.
Picked(source) ==
    IF ActiveDefaults(source) # {} THEN ActiveDefaults(source) ELSE ActiveDefaults("BOTH")

\* "makes this the template the auto-renderer picks for receipts of its kind":
\* the template made default last is the one that is picked, until it is
\* edited, replaced or removed, unless requests disturbed each other or a
\* default changed its kind without being made the default again.
DefaultIsPicked ==
    ~copiesMet => \A k \in Sources : chosen[k] # NoTemplate => Picked(k) = {chosen[k]}
=============================================================================
