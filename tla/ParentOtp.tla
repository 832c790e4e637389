----------------------------- MODULE ParentOtp -----------------------------
(***************************************************************************)
(* Sign-in of one parent by a one-time code: parent-auth.service.ts.  The  *)
(* parent's address has a row in each of several schools, and a code is    *)
(* written once per school.  Nothing is a transaction: for each school the *)
(* old codes are marked used by one statement and the new one inserted by  *)
(* the next; a verification reads the newest unused row, compares, and     *)
(* marks what is unused by another statement.                              *)
(***************************************************************************)
EXTENDS Integers, Sequences, SequencesExt

CONSTANTS
    ParentSchools,   \* the schools the parent has children in
    Codes,           \* the codes that may be sent
    Verifications,   \* verifyOtp requests that may be in progress
    Spellings,       \* how the parent types the address
    Stored,          \* the spelling the school stored: lower case
    MaxSwitchings,      \* bound: times a parent row is switched on or off
    NoCode

ASSUME ParentOtpAssumption ==
    /\ Stored \in Spellings
    /\ MaxSwitchings \in Nat
    /\ NoCode \notin Codes

CodeStages == {"new", "marking", "inserting", "mailing", "mailed", "unsent"}
Issued == {"mailing", "mailed", "unsent"}

OtpRows == [school : ParentSchools, code : Codes, used : BOOLEAN]

VARIABLES
    otps,          \* parent_otps, in the order of created_at
    activeSchools, \* the schools whose parent row is active
    sending,       \* per code: how far sendOtp is, and whether it was mailed
    todo,          \* per code: the schools it has yet to be written for
    expired,       \* the codes whose five minutes are over
    verifying,     \* per request: how far verifyOtp is
    entered,       \* per request: the code
    candidates,    \* per request: the schools it found the parent in
    spent,         \* codes that opened a session (history)
    otpRaced,      \* did a sendOtp meet another request? (history)
    changes

sendVars == <<sending, todo, expired>>
verifyVars == <<verifying, entered, candidates>>
otpVars == <<otps, activeSchools, sendVars, verifyVars, spent, otpRaced, changes>>

OtpTypeOK ==
    /\ otps \in Seq(OtpRows)
    /\ activeSchools \subseteq ParentSchools
    /\ sending \in [Codes -> CodeStages]
    /\ todo \in [Codes -> SUBSET ParentSchools]
    /\ \A c \in Codes : todo[c] = {} <=> sending[c] \in {"new"} \cup Issued
    /\ expired \subseteq Codes
    /\ verifying \in [Verifications -> {"idle", "expiring", "burning", "burnt", "choosing"}]
    /\ entered \in [Verifications -> Codes \cup {NoCode}]
    /\ candidates \in [Verifications -> SUBSET ParentSchools]
    /\ spent \subseteq Codes
    /\ otpRaced \in BOOLEAN
    /\ changes \in 0 .. MaxSwitchings

InitOtp ==
    /\ otps = << >>
    /\ activeSchools = ParentSchools
    /\ sending = [c \in Codes |-> "new"]
    /\ todo = [c \in Codes |-> {}]
    /\ expired = {}
    /\ verifying = [v \in Verifications |-> "idle"]
    /\ entered = [v \in Verifications |-> NoCode]
    /\ candidates = [v \in Verifications |-> {}]
    /\ spent = {}
    /\ otpRaced = FALSE
    /\ changes = 0

-----------------------------------------------------------------------------
(* sendOtp.                                                                *)

Sending == {c \in Codes : sending[c] \in {"marking", "inserting"}}
Verifying == {v \in Verifications : verifying[v] \in {"expiring", "burning"}}

\* UPDATE parent_otps SET is_used = true WHERE school IN ... AND NOT is_used
MarkUsed(schools) ==
    otps' = [i \in DOMAIN otps |->
               IF otps[i].school \in schools THEN [otps[i] EXCEPT !.used = TRUE]
                                             ELSE otps[i]]

\* The schools: all active ones, or the one whose code was given, active or
\* not: resolveParentByEmail does not ask.
SendOtp(c, schools) ==
    /\ sending[c] = "new"
    /\ schools # {}
    /\ schools = activeSchools \/ \E s \in ParentSchools : schools = {s}
    /\ sending' = [sending EXCEPT ![c] = "marking"]
    /\ todo' = [todo EXCEPT ![c] = schools]
    /\ otpRaced' = (otpRaced \/ Sending # {} \/ Verifying # {})
    /\ UNCHANGED <<otps, activeSchools, expired, verifyVars, spent, changes>>

\* The schools are served in the order of the query; any order will do.
MarkOldUsed(c, s) ==
    /\ sending[c] = "marking"
    /\ s = CHOOSE t \in todo[c] : TRUE
    /\ MarkUsed({s})
    /\ sending' = [sending EXCEPT ![c] = "inserting"]
    /\ UNCHANGED <<activeSchools, todo, expired, verifyVars, spent, otpRaced, changes>>

\* After the last school comes the mail.
InsertOtp(c, s) ==
    /\ sending[c] = "inserting"
    /\ s = CHOOSE t \in todo[c] : TRUE
    /\ otps' = Append(otps, [school |-> s, code |-> c, used |-> FALSE])
    /\ todo' = [todo EXCEPT ![c] = @ \ {s}]
    /\ sending' = [sending EXCEPT ![c] = IF todo[c] = {s} THEN "mailing" ELSE "marking"]
    /\ UNCHANGED <<activeSchools, expired, verifyVars, spent, otpRaced, changes>>

\* The mail is handed over, or, outside of production, the code is put in the
\* answer; or the request fails, and the rows it wrote stay.
MailOtp(c, delivered) ==
    /\ sending[c] = "mailing"
    /\ sending' = [sending EXCEPT ![c] = IF delivered THEN "mailed" ELSE "unsent"]
    /\ UNCHANGED <<otps, activeSchools, todo, expired, verifyVars, spent, otpRaced, changes>>

\* expires_at passes.
OtpExpires(c) ==
    /\ sending[c] \in {"mailed", "unsent"}
    /\ c \notin expired
    /\ expired' = expired \cup {c}
    /\ UNCHANGED <<otps, activeSchools, sending, todo, verifyVars, spent, otpRaced, changes>>

-----------------------------------------------------------------------------
(* verifyOtp and selectTenant.                                             *)

Unused(schools) == {i \in DOMAIN otps : otps[i].school \in schools /\ ~otps[i].used}

\* Mutant of NewestCode: the oldest unused row is taken.
OldestCode(schools, spelling) ==
    IF spelling # Stored \/ Unused(schools) = {} THEN NoCode
    ELSE otps[Min(Unused(schools))].code

\* The code of the newest unused row; the rows carry the stored spelling.
NewestCode(schools, spelling) ==
    IF spelling # Stored \/ Unused(schools) = {} THEN NoCode
    ELSE otps[Max(Unused(schools))].code

\* The newest row is read, and unless it is expired the code compared, which
\* is right only if the parent got it; a wrong code, or no row, is an error and
\* changes nothing.
ReadOtp(v, c, spelling) ==
    /\ verifying[v] = "idle"
    /\ activeSchools # {}
    /\ NewestCode(activeSchools, spelling) # NoCode
    /\ IF NewestCode(activeSchools, spelling) \in expired
       THEN verifying' = [verifying EXCEPT ![v] = "expiring"]
       ELSE /\ NewestCode(activeSchools, spelling) = c /\ sending[c] = "mailed"
            /\ verifying' = [verifying EXCEPT ![v] = "burning"]
    /\ entered' = [entered EXCEPT ![v] = c]
    /\ candidates' = [candidates EXCEPT ![v] = activeSchools]
    /\ otpRaced' = (otpRaced \/ Sending # {})
    /\ UNCHANGED <<otps, activeSchools, sendVars, spent, changes>>

\* The request ends, and what it held in memory is gone.
EndVerification(v) ==
    /\ verifying' = [verifying EXCEPT ![v] = "idle"]
    /\ entered' = [entered EXCEPT ![v] = NoCode]
    /\ candidates' = [candidates EXCEPT ![v] = {}]

\* An expired code: every unused row of the parent is marked used.
MarkExpired(v) ==
    /\ verifying[v] = "expiring"
    /\ MarkUsed(candidates[v])
    /\ EndVerification(v)
    /\ UNCHANGED <<activeSchools, sendVars, spent, otpRaced, changes>>

\* Mutant of BurnOtp: only the rows of one school are marked.
BurnOneRow(v) ==
    /\ verifying[v] = "burning"
    /\ MarkUsed({CHOOSE s \in candidates[v] : TRUE})
    /\ verifying' = [verifying EXCEPT ![v] = "burnt"]
    /\ spent' = spent \cup {entered[v]}
    /\ UNCHANGED <<activeSchools, sendVars, entered, candidates, otpRaced, changes>>

\* The code is right: it is burnt for every school it was issued to.
BurnOtp(v) ==
    /\ verifying[v] = "burning"
    /\ MarkUsed(candidates[v])
    /\ verifying' = [verifying EXCEPT ![v] = "burnt"]
    /\ spent' = spent \cup {entered[v]}
    /\ UNCHANGED <<activeSchools, sendVars, entered, candidates, otpRaced, changes>>

\* tokenResponse: for the school whose code was given, active or not, or for
\* the only one.
OpenSession(v, s, named) ==
    /\ verifying[v] = "burnt"
    /\ named \/ candidates[v] = {s}
    /\ EndVerification(v)
    /\ UNCHANGED <<otps, activeSchools, sendVars, spent, otpRaced, changes>>

\* Several schools: the parent is asked to pick one.
OfferSchools(v) ==
    /\ verifying[v] = "burnt"
    /\ \A s \in ParentSchools : candidates[v] # {s}
    /\ verifying' = [verifying EXCEPT ![v] = "choosing"]
    /\ UNCHANGED <<otps, activeSchools, sendVars, entered, candidates, spent, otpRaced, changes>>

\* The school picked must still be active.
SelectTenant(v, s) ==
    /\ verifying[v] = "choosing"
    /\ s \in candidates[v] \cap activeSchools
    /\ EndVerification(v)
    /\ UNCHANGED <<otps, activeSchools, sendVars, spent, otpRaced, changes>>

\* The school named is none of the parent's; or the picker is closed, or its
\* five minutes pass.
AbandonChoice(v) ==
    /\ verifying[v] \in {"burnt", "choosing"}
    /\ EndVerification(v)
    /\ UNCHANGED <<otps, activeSchools, sendVars, spent, otpRaced, changes>>

\* An administrator switches the parent row of a school on or off.
SwitchParent(s) ==
    /\ changes < MaxSwitchings
    /\ changes' = changes + 1
    /\ activeSchools' = IF s \in activeSchools THEN activeSchools \ {s} ELSE activeSchools \cup {s}
    /\ UNCHANGED <<otps, sendVars, verifyVars, spent, otpRaced>>

-----------------------------------------------------------------------------
NextOtp ==
    \/ \E c \in Codes, S \in SUBSET ParentSchools : SendOtp(c, S)
    \/ \E c \in Codes, s \in ParentSchools : MarkOldUsed(c, s) \/ InsertOtp(c, s)
    \/ \E c \in Codes : OtpExpires(c) \/ \E delivered \in BOOLEAN : MailOtp(c, delivered)
    \/ \E v \in Verifications, c \in Codes, w \in Spellings : ReadOtp(v, c, w)
    \/ \E v \in Verifications : MarkExpired(v) \/ BurnOtp(v) \/ OfferSchools(v) \/ AbandonChoice(v)
    \/ \E v \in Verifications, s \in ParentSchools :
          SelectTenant(v, s) \/ \E named \in BOOLEAN : OpenSession(v, s, named)
    \/ \E s \in ParentSchools : SwitchParent(s)

SpecOtp == InitOtp /\ [][NextOtp]_otpVars

-----------------------------------------------------------------------------
(* Properties.                                                             *)

\* A verification that accepts its code here has one that nobody used.
AcceptsUnspent(v) ==
    verifying[v] = "idle" /\ verifying'[v] = "burning" /\ changes = 0
    => entered'[v] \notin spent

\* "Burn the OTP for every tenant it was issued to": a verification that
\* starts after a code was used never succeeds with it, however requests
\* for codes and verifications interleave, as long as no parent row is
\* switched on or off.
CodeDiesWithItsUse == [][\A v \in Verifications : AcceptsUnspent(v)]_otpVars

LastMailed(c) ==
    /\ sending[c] = "mailed"
    /\ \A i \in DOMAIN otps : otps[i].code # c =>
          \E j \in DOMAIN otps : j > i /\ otps[j].code = c

\* The code mailed last is the one that is accepted until it is used or
\* expires, unless the request for it raced with another.
LatestCodeWorks ==
    ~otpRaced /\ changes = 0 /\ Sending = {} /\ Verifying = {} =>
        \A c \in Codes : LastMailed(c) /\ c \notin expired \cup spent =>
            NewestCode(activeSchools, Stored) = c
=============================================================================
