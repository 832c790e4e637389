--------------------------- MODULE AcademicYears ---------------------------
(***************************************************************************)
(* The academic years of one school and which of them is the current one:  *)
(* academic-years.service.ts.  To make a year the current one is a         *)
(* transaction: one UPDATE unsets the flag wherever it is set, then the    *)
(* year is saved.  Under READ COMMITTED the UPDATE looks for its rows once *)
(* and then waits for those another transaction has locked.  Any other     *)
(* edit reads the row, changes the copy and saves it: `save` writes every  *)
(* column in which the copy differs, and inserts the row if it is gone.    *)
(***************************************************************************)
EXTENDS Naturals, FiniteSets

CONSTANTS
    Years,           \* the years there may be a row of
    Catalog,         \* those of system_metadata
    Newest,          \* the last of them
    YearEditors,     \* requests that may be in progress
    MaxYearEdits     \* bound: requests begun

ASSUME AcademicYearsAssumption ==
    /\ Catalog \subseteq Years
    /\ Newest \in Catalog
    /\ MaxYearEdits \in Nat

VARIABLES
    years,           \* the rows of academic_years
    currentYears,    \* those with is_current_year
    edit,            \* per request: what it is about, and how far it is
    yearEdits,
    flagsMet         \* did two requests that carry the flag overlap? (history)

yearVars == <<years, currentYears, edit, yearEdits, flagsMet>>

\* flag: the copy says that the year is current.  inserts: it has no row.
\* sought: the rows the UPDATE found; held: those it has unset and locked.
Editing(at, y, flag, inserts) ==
    [at |-> at, year |-> y, flag |-> flag, inserts |-> inserts, sought |-> {}, held |-> {}]
NoEdit == Editing("idle", Newest, FALSE, FALSE)

AcademicYearsTypeOK ==
    /\ years \subseteq Years
    /\ currentYears \subseteq years
    /\ edit \in [YearEditors ->
          [at : {"idle", "saving", "begun", "waiting", "unset", "seeding"}, year : Years,
           flag : BOOLEAN, inserts : BOOLEAN, sought : SUBSET Years, held : SUBSET Years]]
    /\ yearEdits \in 0 .. MaxYearEdits
    /\ flagsMet \in BOOLEAN

InitAcademicYears ==
    /\ years = {} /\ currentYears = {}
    /\ edit = [r \in YearEditors |-> NoEdit]
    /\ yearEdits = 0
    /\ flagsMet = FALSE

\* The rows other transactions have locked.
LockedYears(r) == UNION {edit[q].held : q \in YearEditors \ {r}}

\* Requests that may set the flag: an edit in a copy of the current year too.
Flagged == {r \in YearEditors : edit[r].flag}

BeginEdit(r, e) ==
    /\ edit[r] = NoEdit
    /\ yearEdits < MaxYearEdits
    /\ yearEdits' = yearEdits + 1
    /\ edit' = [edit EXCEPT ![r] = e]
    /\ flagsMet' = (flagsMet \/ (e.flag /\ Flagged # {}))
    /\ UNCHANGED <<years, currentYears>>

\* create: the year must be new.
CreateYear(r, y, asCurrent) ==
    /\ y \notin years
    /\ BeginEdit(r, Editing(IF asCurrent THEN "begun" ELSE "saving", y, asCurrent, TRUE))

\* update: the transaction is for a year whose flag is to be set and is not.
UpdateYear(r, y, asCurrent) ==
    /\ y \in years
    /\ BeginEdit(r, Editing(IF asCurrent /\ y \notin currentYears THEN "begun" ELSE "saving",
                            y, asCurrent, FALSE))

\* update without isCurrentYear: the copy keeps the flag as it was read.
EditYear(r, y) ==
    /\ y \in years
    /\ BeginEdit(r, Editing("saving", y, y \in currentYears, FALSE))

\* syncFromMetadata: the missing years, the newest one as the current one if
\* the school has none.  What was read is kept until the rows are saved.
SyncFromMetadata(r) ==
    /\ Catalog \ years # {}
    /\ BeginEdit(r, [Editing("seeding", Newest, currentYears = {} /\ Newest \notin years, TRUE)
                        EXCEPT !.sought = Catalog \ years])

-----------------------------------------------------------------------------
(* setCurrentYearTransaction.                                              *)

\* Mutant of SeekCurrent: the other years keep the flag.
SeekNone(r) ==
    /\ edit[r].at = "begun"
    /\ edit' = [edit EXCEPT ![r].at = "waiting"]
    /\ UNCHANGED <<years, currentYears, yearEdits, flagsMet>>

\* UPDATE academic_years SET is_current_year = false WHERE is_current_year
SeekCurrent(r) ==
    /\ edit[r].at = "begun"
    /\ edit' = [edit EXCEPT ![r].at = "waiting", ![r].sought = currentYears]
    /\ UNCHANGED <<years, currentYears, yearEdits, flagsMet>>

\* The rows it found, as far as they still are current, are unset and locked.
UnsetCurrent(r) ==
    /\ edit[r].at = "waiting"
    /\ edit[r].sought \cap LockedYears(r) = {}
    /\ edit' = [edit EXCEPT ![r].at = "unset", ![r].held = @ \cup (edit[r].sought \cap currentYears)]
    /\ UNCHANGED <<years, currentYears, yearEdits, flagsMet>>

EndEdit(r) == edit' = [edit EXCEPT ![r] = NoEdit]

\* The row is there, or is inserted and its key is free; and nobody locks it.
Writable(r) ==
    /\ edit[r].year \notin LockedYears(r)
    /\ edit[r].inserts <=> edit[r].year \notin years

\* The year is saved, and all of it is committed.
CommitCurrent(r) ==
    /\ edit[r].at = "unset"
    /\ Writable(r)
    /\ years' = years \cup {edit[r].year}
    /\ currentYears' = (currentYears \ edit[r].held) \cup {edit[r].year}
    /\ EndEdit(r)
    /\ UNCHANGED <<yearEdits, flagsMet>>

-----------------------------------------------------------------------------
(* The other writes.                                                       *)

\* save of a copy.
SaveYear(r) ==
    /\ edit[r].at = "saving"
    /\ Writable(r)
    /\ years' = years \cup {edit[r].year}
    /\ currentYears' = IF edit[r].flag THEN currentYears \cup {edit[r].year}
                       ELSE currentYears \ {edit[r].year}
    /\ EndEdit(r)
    /\ UNCHANGED <<yearEdits, flagsMet>>

\* All missing rows, or none if one of them exists by now.
SaveCatalog(r) ==
    /\ edit[r].at = "seeding"
    /\ edit[r].sought \cap years = {}
    /\ years' = years \cup edit[r].sought
    /\ currentYears' = IF edit[r].flag THEN currentYears \cup {Newest} ELSE currentYears
    /\ EndEdit(r)
    /\ UNCHANGED <<yearEdits, flagsMet>>

\* A unique key, a deadlock or a lost connection: nothing is written.
FailEdit(r) ==
    /\ edit[r].at # "idle"
    /\ EndEdit(r)
    /\ UNCHANGED <<years, currentYears, yearEdits, flagsMet>>

\* remove.  A copy that is saved later brings the row back.
RemoveYear(r, y) ==
    /\ edit[r] = NoEdit
    /\ yearEdits < MaxYearEdits
    /\ yearEdits' = yearEdits + 1
    /\ y \in years \ LockedYears(r)
    /\ years' = years \ {y}
    /\ currentYears' = currentYears \ {y}
    /\ edit' = [q \in YearEditors |->
                  IF edit[q].at \in {"saving", "begun", "waiting", "unset"} /\ edit[q].year = y
                  THEN [edit[q] EXCEPT !.inserts = TRUE] ELSE edit[q]]
    /\ UNCHANGED flagsMet

NextAcademicYears ==
    \/ \E r \in YearEditors, y \in Years, c \in BOOLEAN : CreateYear(r, y, c) \/ UpdateYear(r, y, c)
    \/ \E r \in YearEditors, y \in Years : EditYear(r, y) \/ RemoveYear(r, y)
    \/ \E r \in YearEditors :
          \/ SyncFromMetadata(r) \/ SeekCurrent(r) \/ UnsetCurrent(r) \/ CommitCurrent(r)
          \/ SaveYear(r) \/ SaveCatalog(r) \/ FailEdit(r)

SpecAcademicYears == InitAcademicYears /\ [][NextAcademicYears]_yearVars

-----------------------------------------------------------------------------
(* Properties.                                                             *)

\* "first unsets any existing current year": a school has one current year at
\* most, unless two requests overlapped that both set the flag or hold a copy
\* of a row that has it.
OneCurrentYear == ~flagsMet => \A x, y \in currentYears : x = y
=============================================================================
