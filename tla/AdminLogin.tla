----------------------------- MODULE AdminLogin -----------------------------
(***************************************************************************)
(* Sign-in and password reset of one administrator's e-mail address, which *)
(* has a row of `admins` in each of several schools: auth.service.ts over  *)
(* admins.service.ts.  Nothing is a transaction: every await (a query, a   *)
(* bcrypt hash or comparison) ends a step, and the counter of failures is  *)
(* read in one step and written back in another.  Failures and the lock    *)
(* are written to all rows of the address at once, so they are one value.  *)
(* One reset of the password is in progress at a time.                     *)
(***************************************************************************)
EXTENDS Integers, FiniteSets

CONSTANTS
    Schools,          \* the schools that know the address
    SignIns,          \* sign-in requests that may be in progress
    Links,            \* password-reset links that may be mailed
    Passwords,        \* what people type
    MaxAttempts,      \* auth.lockoutMaxAttempts
    MaxWrong,         \* bound: failures counted, and to be counted
    RequireVerification,  \* auth.requireEmailVerification
    NoValue

ASSUME AdminLoginAssumption ==
    /\ MaxAttempts \in Nat \ {0}
    /\ MaxWrong \in Nat
    /\ RequireVerification \in BOOLEAN
    /\ NoValue \notin Passwords \cup Links

VARIABLES
    password,         \* per school: password_hash
    resetToken,       \* per school: password_reset_token_hash
    signedInWith,     \* per school: the password behind refresh_token_hash
    failures, locked, verified,   \* columns all rows of the address share
    linkState,        \* new, mailed, or expired
    toMark,           \* per link: the rows forgotPassword has yet to mark
    resetting,        \* rows resetPassword has yet to write, and the password
    signIn,           \* how far each sign-in is
    typed, seen,      \* its password, and the hashes it read
    seenVerified,     \* and whether the address it read was verified
    tally,            \* the count it is about to write
    wrong,            \* wrong passwords since the last success (history)
    crossed           \* the kinds of races that happened (history)

signInVars == <<signIn, typed, seen, seenVerified, tally>>
linkVars == <<linkState, toMark>>
schoolVars == <<password, resetToken, signedInWith>>
accountVars == <<failures, locked, verified>>
loginHistory == <<wrong, crossed>>
loginVars ==
    <<schoolVars, accountVars, linkVars, resetting, signInVars, loginHistory>>

SignInStages == {"idle", "comparing", "counting", "matched"}
LoginTypeOK ==
    /\ password \in [Schools -> Passwords]
    /\ resetToken \in [Schools -> Links \cup {NoValue}]
    /\ signedInWith \in [Schools -> Passwords \cup {NoValue}]
    /\ failures \in Nat /\ locked \in BOOLEAN /\ verified \in BOOLEAN
    /\ linkState \in [Links -> {"new", "marking", "mailed", "expired"}]
    /\ toMark \in [Links -> SUBSET Schools]
    /\ resetting \in [rows : SUBSET Schools, to : Passwords \cup {NoValue}]
    /\ signIn \in [SignIns -> SignInStages]
    /\ typed \in [SignIns -> Passwords \cup {NoValue}]
    /\ seen \in [SignIns -> [Schools -> Passwords \cup {NoValue}]]
    /\ seenVerified \in [SignIns -> BOOLEAN]
    /\ tally \in [SignIns -> Nat]
    /\ \A r \in SignIns : tally[r] > 0 <=> signIn[r] = "counting"
    /\ wrong \in 0 .. MaxWrong
    /\ crossed \subseteq {"count", "reset", "links"}

AtRest == [rows |-> {}, to |-> NoValue]
Nothing == [s \in Schools |-> NoValue]

InitLogin ==
    /\ password \in [Schools -> Passwords]
    /\ resetToken = [s \in Schools |-> NoValue]
    /\ signedInWith = [s \in Schools |-> NoValue]
    /\ failures = 0
    /\ locked = FALSE
    /\ verified = ~RequireVerification
    /\ linkState = [l \in Links |-> "new"]
    /\ toMark = [l \in Links |-> {}]
    /\ resetting = AtRest
    /\ signIn = [r \in SignIns |-> "idle"]
    /\ typed = [r \in SignIns |-> NoValue]
    /\ seen = [r \in SignIns |-> Nothing]
    /\ seenVerified = [r \in SignIns |-> FALSE]
    /\ tally = [r \in SignIns |-> 0]
    /\ wrong = 0
    /\ crossed = {}

-----------------------------------------------------------------------------
(* signIn.                                                                 *)

\* The rows are read, and the lock is tested on what was read.
ReadAccount(r, pw) ==
    /\ signIn[r] = "idle"
    /\ ~locked
    /\ signIn' = [signIn EXCEPT ![r] = "comparing"]
    /\ typed' = [typed EXCEPT ![r] = pw]
    /\ seen' = [seen EXCEPT ![r] = password]
    /\ seenVerified' = [seenVerified EXCEPT ![r] = verified]
    /\ UNCHANGED <<schoolVars, accountVars, linkVars, resetting, tally,
                   loginHistory>>

\* The request ends, and what it held in memory is gone.
EndSignIn(r) ==
    /\ signIn' = [signIn EXCEPT ![r] = "idle"]
    /\ typed' = [typed EXCEPT ![r] = NoValue]
    /\ seen' = [seen EXCEPT ![r] = Nothing]
    /\ seenVerified' = [seenVerified EXCEPT ![r] = FALSE]
    /\ tally' = [tally EXCEPT ![r] = 0]

Matched(r) == {s \in Schools : seen[r][s] = typed[r]}

\* Sign-ins that read the counter and have not yet written it back.
Counting(r) == {q \in SignIns \ {r} : signIn[q] = "counting"}

\* registerFailedLogin reads the rows.
ReadFailures(r) ==
    /\ signIn[r] = "comparing"
    /\ Matched(r) = {}
    /\ wrong < MaxWrong /\ failures < MaxWrong
    /\ wrong' = wrong + 1
    /\ signIn' = [signIn EXCEPT ![r] = "counting"]
    /\ tally' = [tally EXCEPT ![r] = failures + 1]
    /\ UNCHANGED <<schoolVars, accountVars, linkVars, resetting, typed,
                   seen, seenVerified, crossed>>

\* registerFailedLogin writes the count and the lock, or no lock, to all rows.
WriteFailures(r) ==
    /\ signIn[r] = "counting"
    /\ failures' = tally[r]
    /\ locked' = (tally[r] >= MaxAttempts)
    /\ EndSignIn(r)
    /\ crossed' = IF Counting(r) = {} THEN crossed ELSE crossed \cup {"count"}
    /\ UNCHANGED <<schoolVars, verified, linkVars, resetting, wrong>>

\* Mutant of ResetLoginState: only the lock is cleared.
ResetLock(r) ==
    /\ signIn[r] = "comparing"
    /\ Matched(r) # {}
    /\ locked' = FALSE /\ wrong' = 0
    /\ IF seenVerified[r]
       THEN /\ signIn' = [signIn EXCEPT ![r] = "matched"]
            /\ UNCHANGED <<typed, seen, seenVerified, tally>>
       ELSE EndSignIn(r)
    /\ crossed' = IF Counting(r) = {} THEN crossed ELSE crossed \cup {"count"}
    /\ UNCHANGED <<schoolVars, failures, verified, linkVars, resetting>>

\* A password matched: the counter and the lock are cleared, before the
\* address is required to be verified, as it was read.
ResetLoginState(r) ==
    /\ signIn[r] = "comparing"
    /\ Matched(r) # {}
    /\ failures' = 0 /\ locked' = FALSE /\ wrong' = 0
    /\ IF seenVerified[r]
       THEN /\ signIn' = [signIn EXCEPT ![r] = "matched"]
            /\ UNCHANGED <<typed, seen, seenVerified, tally>>
       ELSE EndSignIn(r)
    /\ crossed' = IF Counting(r) = {} THEN crossed ELSE crossed \cup {"count"}
    /\ UNCHANGED <<schoolVars, verified, linkVars, resetting>>

\* issueTokens for the only school that matched, or selectTenant for the one
\* the user picked: the hash of the new refresh token is stored.
StoreRefreshToken(r, s) ==
    /\ signIn[r] = "matched"
    /\ s \in Matched(r)
    /\ signedInWith' = [signedInWith EXCEPT ![s] = typed[r]]
    /\ EndSignIn(r)
    /\ UNCHANGED <<password, resetToken, accountVars, linkVars, resetting,
                   loginHistory>>

\* lockedUntil passes; the counter stays where it was.
LockExpires ==
    /\ locked
    /\ locked' = FALSE
    /\ UNCHANGED <<schoolVars, failures, verified, linkVars, resetting,
                   signInVars, loginHistory>>

-----------------------------------------------------------------------------
(* forgotPassword, resetPassword and the verification of the address.      *)

Marking(l) == {k \in Links \ {l} : linkState[k] = "marking"}

ForgotPassword(l) ==
    /\ linkState[l] = "new"
    /\ linkState' = [linkState EXCEPT ![l] = "marking"]
    /\ toMark' = [toMark EXCEPT ![l] = Schools]
    /\ crossed' = IF Marking(l) = {} /\ resetting.rows = {}
                  THEN crossed ELSE crossed \cup {"links"}
    /\ UNCHANGED <<schoolVars, accountVars, resetting, signInVars, wrong>>

\* Mutant of MarkRow: the mail leaves after the first row.
MarkFirstRow(l, s) ==
    /\ s \in toMark[l]
    /\ resetToken' = [resetToken EXCEPT ![s] = l]
    /\ toMark' = [toMark EXCEPT ![l] = {}]
    /\ linkState' = [linkState EXCEPT ![l] = "mailed"]
    /\ UNCHANGED <<password, signedInWith, accountVars, resetting, signInVars,
                   loginHistory>>

\* The rows are marked one by one; after the last the link is mailed.
MarkRow(l, s) ==
    /\ s \in toMark[l]
    /\ resetToken' = [resetToken EXCEPT ![s] = l]
    /\ toMark' = [toMark EXCEPT ![l] = @ \ {s}]
    /\ linkState' = [linkState EXCEPT
          ![l] = IF toMark[l] = {s} THEN "mailed" ELSE "marking"]
    /\ UNCHANGED <<password, signedInWith, accountVars, resetting, signInVars,
                   loginHistory>>

LinkExpires(l) ==
    /\ linkState[l] = "mailed"
    /\ linkState' = [linkState EXCEPT ![l] = "expired"]
    /\ UNCHANGED <<schoolVars, accountVars, toMark, resetting, signInVars,
                   loginHistory>>

\* The rows that carry the link are read; the new password is hashed.
ResetPassword(l, pw) ==
    /\ resetting.rows = {}
    /\ linkState[l] = "mailed"
    /\ \E s \in Schools : resetToken[s] = l
    /\ resetting' = [rows |-> {s \in Schools : resetToken[s] = l}, to |-> pw]
    /\ crossed' = IF Marking(l) = {} THEN crossed ELSE crossed \cup {"links"}
    /\ UNCHANGED <<schoolVars, accountVars, linkVars, signInVars, wrong>>

\* Mutant of CompletePasswordReset: the refresh token stays.
CompletePasswordResetKeepingSession(s) ==
    /\ s \in resetting.rows
    /\ password' = [password EXCEPT ![s] = resetting.to]
    /\ resetToken' = [resetToken EXCEPT ![s] = NoValue]
    /\ resetting' = IF resetting.rows = {s} THEN AtRest
                    ELSE [resetting EXCEPT !.rows = @ \ {s}]
    /\ crossed' = IF \E r \in SignIns : signIn[r] # "idle"
                  THEN crossed \cup {"reset"} ELSE crossed
    /\ UNCHANGED <<signedInWith, accountVars, linkVars, signInVars, wrong>>

\* Row by row.  The counter and the lock are left as they are.
CompletePasswordReset(s) ==
    /\ s \in resetting.rows
    /\ password' = [password EXCEPT ![s] = resetting.to]
    /\ resetToken' = [resetToken EXCEPT ![s] = NoValue]
    /\ signedInWith' = [signedInWith EXCEPT ![s] = NoValue]
    /\ resetting' = IF resetting.rows = {s} THEN AtRest
                    ELSE [resetting EXCEPT !.rows = @ \ {s}]
    /\ crossed' = IF \E r \in SignIns : signIn[r] # "idle"
                  THEN crossed \cup {"reset"} ELSE crossed
    /\ UNCHANGED <<accountVars, linkVars, signInVars, wrong>>

\* sendVerificationEmail, and verifyEmail with the link it mailed.
VerifyEmail ==
    /\ ~verified
    /\ verified' = TRUE
    /\ UNCHANGED <<schoolVars, failures, locked, linkVars, resetting,
                   signInVars, loginHistory>>

-----------------------------------------------------------------------------
NextLogin ==
    \/ \E r \in SignIns, pw \in Passwords : ReadAccount(r, pw)
    \/ \E r \in SignIns : ReadFailures(r) \/ WriteFailures(r) \/ ResetLoginState(r)
    \/ \E r \in SignIns, s \in Schools : StoreRefreshToken(r, s)
    \/ LockExpires
    \/ \E l \in Links : ForgotPassword(l) \/ LinkExpires(l)
    \/ \E l \in Links, s \in Schools : MarkRow(l, s)
    \/ \E l \in Links, pw \in Passwords : ResetPassword(l, pw)
    \/ \E s \in Schools : CompletePasswordReset(s)
    \/ VerifyEmail

SpecLogin == InitLogin /\ [][NextLogin]_loginVars

-----------------------------------------------------------------------------
(* Properties.                                                             *)

\* Unless two requests raced for the counter, it is the number of wrong
\* passwords since the last success, except for those still being counted,
\* and nobody is locked out by fewer than MaxAttempts of them.
FailuresCounted ==
    "count" \notin crossed =>
        /\ failures + Cardinality({r \in SignIns : signIn[r] = "counting"}) = wrong
        /\ locked => wrong >= MaxAttempts

\* "forces re-login": after a reset no session is left that was opened with
\* the old password, unless a sign-in was in progress during the reset.
ResetEndsSessions ==
    "reset" \notin crossed =>
        \A s \in Schools : signedInWith[s] \in {NoValue, password[s]}

\* A reset that ends here has written the new password everywhere.
EndsEverywhere ==
    resetting.rows # {} /\ resetting'.rows = {} /\ "links" \notin crossed =>
        \A s \in Schools : password'[s] = resetting.to

\* "the person resets their password across all their tenants at once": when
\* a reset ends every school has the new password, unless requests raced.
ResetReachesEverySchool == [][EndsEverywhere]_loginVars
=============================================================================
