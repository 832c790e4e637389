--------------------------- MODULE SignIn_proofs ----------------------------
(***************************************************************************)
(* Proofs about the ways to sign in, for any number of requests, schools,  *)
(* tabs, links and codes: AdminSession (the queue of a tab is never        *)
(* stranded, a logout lasts, renewals alone sign nobody out), AdminLogin   *)
(* (the counter counts, a reset ends every session and reaches every       *)
(* school) and ParentOtp (a code works until it is used, and then never).  *)
(***************************************************************************)
EXTENDS AdminSession, AdminLogin, ParentOtp, SetLemmas, SequenceTheorems

-----------------------------------------------------------------------------
(* The session of an administrator in the browser.                         *)

\* isRefreshing says whether a request of the tab renews the tokens, no two do
\* at once, and what waits in the queue waits for a renewal.
Renewals ==
    /\ \A q \in Requests : progress[q] \in Renewing \cup {"queued"} => isRefreshing[TabOf[q]]
    /\ \A t \in Tabs : isRefreshing[t] => \E q \in InTab(t) : progress[q] \in Renewing
    /\ \A p, q \in Requests :
          progress[p] \in Renewing /\ progress[q] \in Renewing /\ TabOf[p] = TabOf[q] => p = q

\* After a logout that no renewal crossed nothing is stored and no renewal,
\* which could store something, begins.
Logouts ==
    signedOut /\ ~logoutCrossed =>
        stored = NoToken /\ \A q \in Requests : progress[q] \notin Renewing

\* No token comes from nowhere, and once a pair is issued the API has no hash
\* only if it was cleared.
Hashes ==
    /\ stored \in 0 .. issued /\ \A q \in Requests : carried[q] \in 0 .. issued
    /\ hash = NoToken /\ issued # 0 => revoked
    /\ thrownOut => revoked

SessionInv == SessionTypeOK /\ Renewals /\ Logouts /\ Hashes

LEMMA SessionInit == InitSession => SessionInv
<1> SUFFICES ASSUME InitSession PROVE SessionInv
  OBVIOUS
<1> USE SessionAssumption DEF InitSession, NoToken, Tokens, Renewing
<1>1. SessionTypeOK
  <2>1. stored \in Tokens \cup {NoToken} /\ hash \in Tokens \cup {NoToken}
    OBVIOUS
  <2>2. issued \in 0 .. MaxTokens /\ stale \subseteq 1 .. issued
    OBVIOUS
  <2>3. /\ progress \in [Requests -> {"idle", "sent", "unauthorized", "queued"} \cup Renewing]
        /\ carried \in [Requests -> Tokens \cup {NoToken}]
        /\ retried \in [Requests -> BOOLEAN]
        /\ isRefreshing \in [Tabs -> BOOLEAN]
    OBVIOUS
  <2>4. \A q \in Requests : carried[q] # NoToken <=> progress[q] \in {"sent"} \cup Renewing
    OBVIOUS
  <2> QED
    BY <2>1, <2>2, <2>3, <2>4 DEF SessionTypeOK
<1>2. Renewals
  BY DEF Renewals
<1>3. Logouts /\ Hashes
  BY DEF Logouts, Hashes
<1> QED
  BY <1>1, <1>2, <1>3 DEF SessionInv

LEMMA SessionTypeStep == SessionTypeOK /\ [NextSession]_adminSessionVars => SessionTypeOK'
<1> SUFFICES ASSUME SessionTypeOK, [NextSession]_adminSessionVars PROVE SessionTypeOK'
  OBVIOUS
<1> USE SessionAssumption DEF SessionTypeOK, NoToken, Tokens, Renewing, browserVars, sessionHistory
<1>1. CASE SignIn
  <2>1. issued' \in 1 .. MaxTokens /\ 1 .. issued \subseteq 1 .. issued'
    BY <1>1 DEF SignIn
  <2>2. /\ stored' \in Tokens \cup {NoToken} /\ hash' \in Tokens \cup {NoToken}
        /\ issued' \in 0 .. MaxTokens
    BY <1>1, <2>1 DEF SignIn
  <2>3. stale' \subseteq 1 .. issued'
    BY <1>1, <2>1 DEF SignIn
  <2> QED
    BY <1>1, <2>2, <2>3 DEF SignIn
<1>2. CASE ClearHash
  BY <1>2 DEF ClearHash
<1>3. ASSUME NEW t \in Tabs, Logout(t) PROVE SessionTypeOK'
  BY <1>3 DEF Logout
<1>4. ASSUME NEW n \in Tokens, AccessExpires(n) PROVE SessionTypeOK'
  BY <1>4 DEF AccessExpires
<1>5. ASSUME NEW q \in Requests, Send(q) PROVE SessionTypeOK'
  BY <1>5 DEF Send
<1>6. ASSUME NEW q \in Requests, Progress(q) PROVE SessionTypeOK'
  <2>1. CASE Answer(q)
    BY <2>1 DEF Answer, Settle
  <2>2. CASE Unauthorized(q)
    BY <2>2 DEF Unauthorized
  <2>3. CASE Queue(q)
    BY <2>3 DEF Queue
  <2>4. CASE BeginRefresh(q)
    BY <2>4 DEF BeginRefresh
  <2>5. CASE NothingToRefresh(q)
    BY <2>5 DEF NothingToRefresh, RejectAll, Waiting
  <2>6. CASE CheckRefresh(q)
    BY <2>6 DEF CheckRefresh
  <2>7. CASE RotateToken(q)
    <3>1. issued' \in 1 .. MaxTokens /\ 1 .. issued \subseteq 1 .. issued'
      BY <2>7 DEF RotateToken
    <3> QED
      BY <2>7, <3>1 DEF RotateToken
  <2>8. CASE Refreshed(q)
    BY <2>8 DEF Refreshed, ResendAll, Waiting
  <2>9. CASE RefreshRefused(q) \/ RefreshLost(q)
    <3>1. GiveUp(q) /\ revoked' \in BOOLEAN
      BY <2>9 DEF RefreshRefused, RefreshLost
    <3>2. stored' \in Tokens \cup {NoToken} /\ UNCHANGED <<issued, stale, hash>>
      BY <3>1 DEF GiveUp
    <3>3. RejectAll(q)
      BY <3>1 DEF GiveUp
    <3>4. /\ progress' \in [Requests -> {"idle", "sent", "unauthorized", "queued"} \cup Renewing]
          /\ carried' \in [Requests -> Tokens \cup {NoToken}]
          /\ \A p \in Requests : carried'[p] # NoToken <=> progress'[p] \in {"sent"} \cup Renewing
      BY <3>3 DEF RejectAll
    <3>5. retried' \in [Requests -> BOOLEAN] /\ isRefreshing' \in [Tabs -> BOOLEAN]
      BY <3>3 DEF RejectAll
    <3>6. signedOut' \in BOOLEAN /\ logoutCrossed' \in BOOLEAN /\ thrownOut' \in BOOLEAN
      BY <3>1 DEF GiveUp
    <3> QED
      BY <3>1, <3>2, <3>4, <3>5, <3>6
  <2> QED
    BY <1>6, <2>1, <2>2, <2>3, <2>4, <2>5, <2>6, <2>7, <2>8, <2>9 DEF Progress
<1>7. CASE UNCHANGED adminSessionVars
  BY <1>7 DEF adminSessionVars
<1> QED
  BY <1>1, <1>2, <1>3, <1>4, <1>5, <1>6, <1>7 DEF NextSession

LEMMA RenewalsStep ==
    SessionTypeOK /\ Renewals /\ [NextSession]_adminSessionVars => Renewals'
<1> SUFFICES ASSUME SessionTypeOK, Renewals, [NextSession]_adminSessionVars PROVE Renewals'
  OBVIOUS
<1> USE SessionAssumption DEF SessionTypeOK, Renewals, InTab, Renewing, browserVars
<1>1. ASSUME NEW t \in Tabs, Logout(t) PROVE Renewals'
  BY <1>1 DEF Logout
<1>2. ASSUME NEW q \in Requests, Send(q) PROVE Renewals'
  BY <1>2 DEF Send
<1>3. ASSUME NEW q \in Requests, Progress(q) PROVE Renewals'
  <2>1. CASE Answer(q)
    BY <2>1 DEF Answer, Settle
  <2>2. CASE Unauthorized(q)
    BY <2>2 DEF Unauthorized
  <2>3. CASE Queue(q)
    BY <2>3 DEF Queue
  <2>4. CASE BeginRefresh(q)
    BY <2>4 DEF BeginRefresh
  <2>5. CASE NothingToRefresh(q)
    BY <2>5 DEF NothingToRefresh, RejectAll, Waiting
  <2>6. CASE CheckRefresh(q)
    BY <2>6 DEF CheckRefresh
  <2>7. CASE RotateToken(q)
    BY <2>7 DEF RotateToken
  <2>8. CASE Refreshed(q)
    BY <2>8 DEF Refreshed, ResendAll, Waiting
  <2>9. CASE RefreshRefused(q) \/ RefreshLost(q)
    BY <2>9 DEF RefreshRefused, RefreshLost, GiveUp, RejectAll, Waiting
  <2> QED
    BY <1>3, <2>1, <2>2, <2>3, <2>4, <2>5, <2>6, <2>7, <2>8, <2>9 DEF Progress
<1>4. CASE UNCHANGED browserVars
  BY <1>4
<1>5. SignIn \/ ClearHash \/ (\E n \in Tokens : AccessExpires(n)) \/ UNCHANGED adminSessionVars
      => UNCHANGED browserVars
  BY DEF SignIn, ClearHash, AccessExpires, adminSessionVars
<1> QED
  BY <1>1, <1>2, <1>3, <1>4, <1>5 DEF NextSession

LEMMA LogoutsStep ==
    SessionTypeOK /\ Logouts /\ [NextSession]_adminSessionVars => Logouts'
<1> SUFFICES ASSUME SessionTypeOK, Logouts, [NextSession]_adminSessionVars PROVE Logouts'
  OBVIOUS
<1> USE SessionAssumption
    DEF SessionTypeOK, Logouts, InTab, Renewing, NoToken, browserVars, sessionHistory
<1>1. CASE SignIn
  BY <1>1 DEF SignIn
<1>2. CASE ClearHash
  BY <1>2 DEF ClearHash
<1>3. ASSUME NEW t \in Tabs, Logout(t) PROVE Logouts'
  BY <1>3 DEF Logout
<1>4. ASSUME NEW n \in Tokens, AccessExpires(n) PROVE Logouts'
  BY <1>4 DEF AccessExpires
<1>5. ASSUME NEW q \in Requests, Send(q) PROVE Logouts'
  BY <1>5 DEF Send
<1>6. ASSUME NEW q \in Requests, Progress(q) PROVE Logouts'
  <2>1. CASE Answer(q) \/ Unauthorized(q) \/ Queue(q)
    BY <2>1 DEF Answer, Settle, Unauthorized, Queue
  <2>2. CASE BeginRefresh(q)
    BY <2>2 DEF BeginRefresh
  <2>3. CASE NothingToRefresh(q)
    BY <2>3 DEF NothingToRefresh, RejectAll, Waiting
  <2>4. CASE CheckRefresh(q) \/ RotateToken(q)
    BY <2>4 DEF CheckRefresh, RotateToken
  <2>5. CASE Refreshed(q)
    BY <2>5 DEF Refreshed, ResendAll, Waiting
  <2>6. CASE RefreshRefused(q) \/ RefreshLost(q)
    BY <2>6 DEF RefreshRefused, RefreshLost, GiveUp, RejectAll, Waiting
  <2> QED
    BY <1>6, <2>1, <2>2, <2>3, <2>4, <2>5, <2>6 DEF Progress
<1>7. CASE UNCHANGED adminSessionVars
  BY <1>7 DEF adminSessionVars
<1> QED
  BY <1>1, <1>2, <1>3, <1>4, <1>5, <1>6, <1>7 DEF NextSession

LEMMA HashesStep ==
    SessionTypeOK /\ Hashes /\ [NextSession]_adminSessionVars => Hashes'
<1> SUFFICES ASSUME SessionTypeOK, Hashes, [NextSession]_adminSessionVars PROVE Hashes'
  OBVIOUS
<1> USE SessionAssumption
    DEF SessionTypeOK, Hashes, Renewing, NoToken, Tokens, browserVars, sessionHistory
<1>1. CASE SignIn
  BY <1>1 DEF SignIn
<1>2. CASE ClearHash
  BY <1>2 DEF ClearHash
<1>3. ASSUME NEW t \in Tabs, Logout(t) PROVE Hashes'
  BY <1>3 DEF Logout
<1>4. ASSUME NEW n \in Tokens, AccessExpires(n) PROVE Hashes'
  BY <1>4 DEF AccessExpires
<1>5. ASSUME NEW q \in Requests, Send(q) PROVE Hashes'
  BY <1>5 DEF Send
<1>6. ASSUME NEW q \in Requests, Progress(q) PROVE Hashes'
  <2>1. CASE Answer(q) \/ Unauthorized(q) \/ Queue(q)
    BY <2>1 DEF Answer, Settle, Unauthorized, Queue
  <2>2. CASE BeginRefresh(q) \/ NothingToRefresh(q)
    BY <2>2 DEF BeginRefresh, NothingToRefresh, RejectAll
  <2>3. CASE CheckRefresh(q)
    BY <2>3 DEF CheckRefresh
  <2>4. CASE RotateToken(q)
    BY <2>4 DEF RotateToken
  <2>5. CASE Refreshed(q)
    BY <2>5 DEF Refreshed, ResendAll
  <2>6. CASE RefreshRefused(q) \/ RefreshLost(q)
    BY <2>6 DEF RefreshRefused, RefreshLost, GiveUp, RejectAll, TokenMatches
  <2> QED
    BY <1>6, <2>1, <2>2, <2>3, <2>4, <2>5, <2>6 DEF Progress
<1>7. CASE UNCHANGED adminSessionVars
  BY <1>7 DEF adminSessionVars
<1> QED
  BY <1>1, <1>2, <1>3, <1>4, <1>5, <1>6, <1>7 DEF NextSession

\* Together the four parts are inductive.
LEMMA SessionAlways == SpecSession => []SessionInv
<1>1. SessionInv /\ [NextSession]_adminSessionVars => SessionInv'
  BY SessionTypeStep, RenewalsStep, LogoutsStep, HashesStep DEF SessionInv
<1> QED
  BY <1>1, SessionInit, PTL DEF SpecSession

-----------------------------------------------------------------------------
\* The storage, the tokens and the requests keep their domains; exactly the
\* requests on their way carry a token.
THEOREM SessionTypeCorrect == SpecSession => []SessionTypeOK
<1>1. SessionInv => SessionTypeOK
  BY DEF SessionInv
<1> QED
  BY <1>1, SessionAlways, PTL

\* failedQueue: a queued request always has a renewal in its tab to wait for,
\* and a tab never renews twice at a time.
THEOREM QueueCorrect == SpecSession => []QueueIsServed
<1>1. SessionInv => QueueIsServed
  <2> SUFFICES ASSUME SessionInv PROVE QueueIsServed
    OBVIOUS
  <2> USE SessionAssumption DEF SessionInv, Renewals, InTab
  <2>1. ASSUME NEW t \in Tabs, NEW p \in InTab(t), NEW q \in InTab(t),
               progress[p] \in Renewing, progress[q] \in Renewing
        PROVE  p = q
    BY <2>1
  <2>2. ASSUME NEW t \in Tabs, NEW q \in InTab(t), progress[q] = "queued"
        PROVE  \E p \in InTab(t) : progress[p] \in Renewing
    BY <2>2
  <2> QED
    BY <2>1, <2>2 DEF QueueIsServed
<1> QED
  BY <1>1, SessionAlways, PTL

\* logout: the tokens it removed do not come back without a sign-in, unless
\* another tab was renewing them.
THEOREM LogoutCorrect == SpecSession => []LogoutLasts
<1>1. SessionInv => LogoutLasts
  BY DEF SessionInv, Logouts, LogoutLasts
<1> QED
  BY <1>1, SessionAlways, PTL

\* refreshTokens: the tabs of a browser may rotate the hash under each other,
\* and none is thrown out by it.
THEOREM ThrownOutCorrect == SpecSession => []OnlyRevocationThrowsOut
<1>1. SessionInv => OnlyRevocationThrowsOut
  BY DEF SessionInv, Hashes, OnlyRevocationThrowsOut
<1> QED
  BY <1>1, SessionAlways, PTL

-----------------------------------------------------------------------------
(* Sign-in and password reset of an administrator.                         *)

CountingNow == {r \in SignIns : signIn[r] = "counting"}

\* Unless requests raced for it, whoever read the counter read what it is.
CountsRight ==
    /\ IsFiniteSet(CountingNow)
    /\ "count" \notin crossed =>
          /\ failures + Cardinality(CountingNow) = wrong
          /\ locked => wrong >= MaxAttempts
          /\ \A r \in CountingNow : tally[r] = failures + 1

\* Unless one was in progress during a reset, a sign-in has read the hashes
\* there are, and so has every session.
SessionsRight ==
    "reset" \notin crossed =>
        \A s \in Schools :
            /\ signedInWith[s] \in {NoValue, password[s]}
            /\ \A r \in SignIns : signIn[r] # "idle" => seen[r][s] = password[s]

MarkingNow == {l \in Links : linkState[l] = "marking"}

\* Unless requests for links raced with each other or with a reset: one link
\* is at the rows, or a reset, or the rows agree.
LinksAgree ==
    /\ \A k, l \in MarkingNow : k = l
    /\ \A l \in MarkingNow : \A s \in Schools \ toMark[l] : resetToken[s] = l
    /\ resetting.rows # {} =>
          /\ MarkingNow = {}
          /\ \A s \in Schools \ resetting.rows :
                password[s] = resetting.to /\ resetToken[s] = NoValue
    /\ resetting.rows = {} /\ MarkingNow = {} =>
          \A s, t \in Schools : resetToken[s] = resetToken[t]

LinksRight ==
    /\ \A l \in Links : toMark[l] # {} => linkState[l] = "marking"
    /\ resetting.rows # {} => resetting.to \in Passwords
    /\ "links" \notin crossed => LinksAgree

LoginInv == LoginTypeOK /\ CountsRight /\ SessionsRight /\ LinksRight

\* Steps that leave the counter, the sessions or the links as they are.
CountsKept ==
    /\ UNCHANGED <<failures, locked, wrong>> /\ crossed \subseteq crossed'
    /\ CountingNow' = CountingNow /\ \A r \in CountingNow : tally'[r] = tally[r]
SessionsKept ==
    /\ UNCHANGED <<password, signedInWith>> /\ crossed \subseteq crossed'
    /\ \A r \in SignIns : signIn'[r] # "idle" => signIn[r] # "idle" /\ seen'[r] = seen[r]
LinksKept ==
    UNCHANGED <<linkState, toMark, resetting, resetToken, password>> /\ crossed \subseteq crossed'

LEMMA CountsStay == ASSUME CountsRight, CountsKept PROVE CountsRight'
BY DEF CountsRight, CountsKept

LEMMA SessionsStay == ASSUME SessionsRight, SessionsKept PROVE SessionsRight'
BY DEF SessionsRight, SessionsKept

LEMMA LinksStay == ASSUME LinksRight, LinksKept PROVE LinksRight'
<1>1. UNCHANGED <<linkState, toMark, resetting, resetToken, password, MarkingNow>>
  BY DEF LinksKept, MarkingNow
<1> QED
  BY <1>1 DEF LinksRight, LinksAgree, LinksKept

SignInTypes ==
    /\ signIn \in [SignIns -> SignInStages]
    /\ typed \in [SignIns -> Passwords \cup {NoValue}]
    /\ seen \in [SignIns -> [Schools -> Passwords \cup {NoValue}]]
    /\ seenVerified \in [SignIns -> BOOLEAN]
    /\ tally \in [SignIns -> Nat]
    /\ \A r \in SignIns : tally[r] > 0 <=> signIn[r] = "counting"
OtherTypes ==
    /\ password \in [Schools -> Passwords]
    /\ resetToken \in [Schools -> Links \cup {NoValue}]
    /\ signedInWith \in [Schools -> Passwords \cup {NoValue}]
    /\ failures \in Nat /\ locked \in BOOLEAN /\ verified \in BOOLEAN
    /\ linkState \in [Links -> {"new", "marking", "mailed", "expired"}]
    /\ toMark \in [Links -> SUBSET Schools]
    /\ resetting \in [rows : SUBSET Schools, to : Passwords \cup {NoValue}]
    /\ wrong \in 0 .. MaxWrong
    /\ crossed \subseteq {"count", "reset", "links"}

LEMMA LoginTypes == LoginTypeOK <=> SignInTypes /\ OtherTypes
BY DEF LoginTypeOK, SignInTypes, OtherTypes

LEMMA SignInEnds ==
    ASSUME SignInTypes, NEW r \in SignIns, EndSignIn(r)
    PROVE  /\ SignInTypes' /\ signIn'[r] = "idle" /\ CountingNow' = CountingNow \ {r}
           /\ \A q \in SignIns : q # r => signIn'[q] = signIn[q] /\ seen'[q] = seen[q]
                                            /\ tally'[q] = tally[q]
<1>1. /\ signIn' = [signIn EXCEPT ![r] = "idle"] /\ typed' = [typed EXCEPT ![r] = NoValue]
      /\ seen' = [seen EXCEPT ![r] = Nothing]
      /\ seenVerified' = [seenVerified EXCEPT ![r] = FALSE] /\ tally' = [tally EXCEPT ![r] = 0]
  BY DEF EndSignIn
<1>2. Nothing \in [Schools -> Passwords \cup {NoValue}] /\ "idle" \in SignInStages
  BY DEF Nothing, SignInStages
<1>3. signIn' \in [SignIns -> SignInStages] /\ tally' \in [SignIns -> Nat]
  BY <1>1, <1>2 DEF SignInTypes
<1>4. typed' \in [SignIns -> Passwords \cup {NoValue}] /\ seenVerified' \in [SignIns -> BOOLEAN]
  BY <1>1 DEF SignInTypes
<1>5. seen' \in [SignIns -> [Schools -> Passwords \cup {NoValue}]]
  BY <1>1, <1>2 DEF SignInTypes
<1>6. \A q \in SignIns : q # r => signIn'[q] = signIn[q] /\ seen'[q] = seen[q]
                                    /\ tally'[q] = tally[q]
  BY <1>1 DEF SignInTypes
<1>7. signIn'[r] = "idle" /\ tally'[r] = 0
  BY <1>1 DEF SignInTypes
<1>8. CountingNow' = CountingNow \ {r}
  BY <1>6, <1>7 DEF CountingNow
<1>9. \A q \in SignIns : tally'[q] > 0 <=> signIn'[q] = "counting"
  BY <1>6, <1>7 DEF SignInTypes
<1> QED
  BY <1>3, <1>4, <1>5, <1>6, <1>7, <1>8, <1>9 DEF SignInTypes

LEMMA ReadAccountStep ==
    ASSUME LoginInv, NEW r \in SignIns, NEW pw \in Passwords, ReadAccount(r, pw)
    PROVE  LoginInv'
<1>0. SignInTypes /\ OtherTypes /\ signIn[r] = "idle" /\ r \notin CountingNow
  BY LoginTypes DEF LoginInv, ReadAccount, CountingNow
<1>1. /\ signIn' = [signIn EXCEPT ![r] = "comparing"] /\ typed' = [typed EXCEPT ![r] = pw]
      /\ seen' = [seen EXCEPT ![r] = password]
      /\ seenVerified' = [seenVerified EXCEPT ![r] = verified]
      /\ UNCHANGED <<password, resetToken, signedInWith, failures, locked, verified, linkState,
                     toMark, resetting, tally, wrong, crossed>>
  BY DEF ReadAccount, schoolVars, accountVars, linkVars, loginHistory
<1>2. /\ signIn'[r] = "comparing" /\ seen'[r] = password
      /\ \A q \in SignIns : q # r => signIn'[q] = signIn[q] /\ seen'[q] = seen[q]
  BY <1>0, <1>1 DEF SignInTypes
<1>3. CountingNow' = CountingNow
  BY <1>0, <1>2 DEF CountingNow
<1>4. LoginTypeOK'
  <2>1. /\ seen' \in [SignIns -> [Schools -> Passwords \cup {NoValue}]]
        /\ typed' \in [SignIns -> Passwords \cup {NoValue}]
    BY <1>0, <1>1 DEF SignInTypes, OtherTypes
  <2>2. /\ signIn' \in [SignIns -> SignInStages]
        /\ seenVerified' \in [SignIns -> BOOLEAN]
    BY <1>0, <1>1 DEF SignInTypes, OtherTypes, SignInStages
  <2>3. \A q \in SignIns : tally'[q] > 0 <=> signIn'[q] = "counting"
    BY <1>0, <1>1, <1>2 DEF SignInTypes
  <2> QED
    BY <1>0, <1>1, <2>1, <2>2, <2>3, LoginTypes DEF SignInTypes, OtherTypes, LoginTypeOK
<1>5. CountsRight' /\ LinksRight'
  BY <1>1, <1>3, CountsStay, LinksStay DEF LoginInv, CountsKept, LinksKept
<1>6. SessionsRight'
  BY <1>1, <1>2 DEF LoginInv, SessionsRight
<1> QED
  BY <1>4, <1>5, <1>6 DEF LoginInv

LEMMA ReadFailuresStep ==
    ASSUME LoginInv, NEW r \in SignIns, ReadFailures(r) PROVE LoginInv'
<1>0. SignInTypes /\ OtherTypes /\ signIn[r] = "comparing" /\ r \notin CountingNow
  BY LoginTypes DEF LoginInv, ReadFailures, CountingNow
<1>1. /\ signIn' = [signIn EXCEPT ![r] = "counting"]
      /\ tally' = [tally EXCEPT ![r] = failures + 1]
      /\ wrong' = wrong + 1 /\ wrong < MaxWrong
      /\ UNCHANGED <<password, resetToken, signedInWith, failures, locked, verified, linkState,
                     toMark, resetting, typed, seen, seenVerified, crossed>>
  BY DEF ReadFailures, schoolVars, accountVars, linkVars
<1>2. /\ signIn'[r] = "counting" /\ tally'[r] = failures + 1 /\ failures \in Nat
      /\ \A q \in SignIns : q # r => signIn'[q] = signIn[q] /\ tally'[q] = tally[q]
  BY <1>0, <1>1 DEF SignInTypes, OtherTypes
<1>3. CountingNow' = CountingNow \cup {r}
  BY <1>0, <1>2 DEF CountingNow
<1>4. LoginTypeOK'
  <2>1. signIn' \in [SignIns -> SignInStages] /\ tally' \in [SignIns -> Nat]
    BY <1>0, <1>1 DEF SignInTypes, OtherTypes, SignInStages
  <2>2. \A q \in SignIns : tally'[q] > 0 <=> signIn'[q] = "counting"
    BY <1>0, <1>1, <1>2 DEF SignInTypes
  <2>3. wrong' \in 0 .. MaxWrong
    BY <1>0, <1>1, AdminLoginAssumption DEF OtherTypes
  <2> QED
    BY <1>0, <1>1, <2>1, <2>2, <2>3, LoginTypes DEF SignInTypes, OtherTypes, LoginTypeOK
<1>5. CountsRight'
  <2>1. /\ IsFiniteSet(CountingNow) /\ Cardinality(CountingNow) \in Nat
        /\ IsFiniteSet(CountingNow') /\ Cardinality(CountingNow') = Cardinality(CountingNow) + 1
    BY <1>0, <1>3, OneMore, FS_CardinalityType DEF LoginInv, CountsRight
  <2>2. "count" \notin crossed =>
          /\ failures + Cardinality(CountingNow) = wrong
          /\ locked => wrong >= MaxAttempts
          /\ \A q \in CountingNow : tally[q] = failures + 1
    BY DEF LoginInv, CountsRight
  <2>3. "count" \notin crossed => \A q \in CountingNow' : tally'[q] = failures + 1
    BY <1>0, <1>2, <1>3, <2>2 DEF CountingNow
  <2>4. failures \in Nat /\ wrong \in Nat /\ MaxAttempts \in Nat
    BY <1>0, AdminLoginAssumption DEF OtherTypes
  <2>5. "count" \notin crossed =>
          /\ failures + Cardinality(CountingNow') = wrong'
          /\ locked => wrong' >= MaxAttempts
    BY <1>1, <2>1, <2>2, <2>4
  <2> QED
    BY <1>1, <2>1, <2>3, <2>5 DEF CountsRight
<1>6. SessionsRight' /\ LinksRight'
  BY <1>0, <1>1, <1>2, SessionsStay, LinksStay DEF LoginInv, SessionsKept, LinksKept
<1> QED
  BY <1>4, <1>5, <1>6 DEF LoginInv

LEMMA WriteFailuresStep ==
    ASSUME LoginInv, NEW r \in SignIns, WriteFailures(r) PROVE LoginInv'
<1>0. SignInTypes /\ OtherTypes /\ signIn[r] = "counting" /\ r \in CountingNow
  BY LoginTypes DEF LoginInv, WriteFailures, CountingNow
<1>1. /\ failures' = tally[r] /\ locked' = (tally[r] >= MaxAttempts)
      /\ EndSignIn(r)
      /\ crossed' = IF Counting(r) = {} THEN crossed ELSE crossed \cup {"count"}
      /\ UNCHANGED <<password, resetToken, signedInWith, verified, linkState,
                     toMark, resetting, wrong>>
  BY DEF WriteFailures, schoolVars, linkVars
<1>2. /\ SignInTypes' /\ signIn'[r] = "idle" /\ CountingNow' = CountingNow \ {r}
      /\ \A q \in SignIns : q # r => signIn'[q] = signIn[q] /\ seen'[q] = seen[q]
                                       /\ tally'[q] = tally[q]
  BY <1>0, <1>1, SignInEnds
<1>3. crossed \subseteq crossed' /\ crossed' \subseteq {"count", "reset", "links"}
  BY <1>0, <1>1 DEF OtherTypes
<1>4. LoginTypeOK'
  <2>1. failures' \in Nat /\ locked' \in BOOLEAN
    BY <1>0, <1>1 DEF SignInTypes
  <2> QED
    BY <1>0, <1>1, <1>2, <1>3, <2>1, LoginTypes DEF OtherTypes, LoginTypeOK, SignInTypes
<1>5. CountsRight'
  <2>1. IsFiniteSet(CountingNow)
    BY DEF LoginInv, CountsRight
  <2>2. IsFiniteSet(CountingNow')
    BY <1>2, <2>1, FS_RemoveElement
  <2> SUFFICES ASSUME "count" \notin crossed'
               PROVE  /\ failures' + Cardinality(CountingNow') = wrong'
                      /\ locked' => wrong' >= MaxAttempts
                      /\ \A q \in CountingNow' : tally'[q] = failures' + 1
    BY <2>2 DEF CountsRight
  <2>3. Counting(r) = {} /\ "count" \notin crossed
    BY <1>1, <1>3
  <2>4. CountingNow = {r} /\ CountingNow' = {}
    BY <1>0, <1>2, <2>3 DEF Counting, CountingNow
  <2>5. failures + 1 = wrong /\ tally[r] = failures + 1
    BY <1>0, <2>3, <2>4, FS_Singleton DEF LoginInv, CountsRight
  <2>6. Cardinality(CountingNow') = 0
    BY <2>4, FS_EmptySet
  <2>7. wrong \in Nat /\ failures' = wrong
    BY <1>0, <1>1, <2>5 DEF OtherTypes
  <2>8. locked' => wrong >= MaxAttempts
    <3>1. tally[r] >= MaxAttempts => wrong >= MaxAttempts
      BY <2>5
    <3> QED
      BY <1>1, <3>1, Zenon
  <2>9. wrong' = wrong /\ wrong + 0 = wrong
    BY <1>1, <2>7
  <2> QED
    BY <2>4, <2>6, <2>7, <2>8, <2>9
<1>6. SessionsRight' /\ LinksRight'
  BY <1>0, <1>1, <1>2, <1>3, SessionsStay, LinksStay DEF LoginInv, SessionsKept, LinksKept
<1> QED
  BY <1>4, <1>5, <1>6 DEF LoginInv

LEMMA ResetLoginStateStep ==
    ASSUME LoginInv, NEW r \in SignIns, ResetLoginState(r) PROVE LoginInv'
<1>0. SignInTypes /\ OtherTypes /\ signIn[r] = "comparing" /\ r \notin CountingNow
  BY LoginTypes DEF LoginInv, ResetLoginState, CountingNow
<1>1. /\ failures' = 0 /\ locked' = FALSE /\ wrong' = 0
      /\ crossed' = IF Counting(r) = {} THEN crossed ELSE crossed \cup {"count"}
      /\ UNCHANGED <<password, resetToken, signedInWith, verified, linkState, toMark, resetting>>
  BY DEF ResetLoginState, schoolVars, linkVars
<1>2. /\ SignInTypes' /\ CountingNow' = CountingNow
      /\ \A q \in SignIns : signIn'[q] # "idle" => signIn[q] # "idle" /\ seen'[q] = seen[q]
  <2>1. CASE signIn' = [signIn EXCEPT ![r] = "matched"] /\ UNCHANGED <<typed, seen, seenVerified, tally>>
    <3>1. /\ signIn'[r] = "matched" /\ \A q \in SignIns : q # r => signIn'[q] = signIn[q]
          /\ signIn' \in [SignIns -> SignInStages]
      BY <1>0, <2>1 DEF SignInTypes, SignInStages
    <3>2. CountingNow' = CountingNow
      BY <1>0, <3>1 DEF CountingNow
    <3> QED
      BY <1>0, <2>1, <3>1, <3>2 DEF SignInTypes
  <2>2. CASE EndSignIn(r)
    BY <1>0, <2>2, SignInEnds
  <2> QED
    BY <2>1, <2>2 DEF ResetLoginState
<1>3. crossed \subseteq crossed' /\ crossed' \subseteq {"count", "reset", "links"}
  BY <1>0, <1>1 DEF OtherTypes
<1>4. LoginTypeOK'
  <2>1. wrong' \in 0 .. MaxWrong
    BY <1>1, AdminLoginAssumption
  <2> QED
    BY <1>0, <1>1, <1>2, <1>3, <2>1, LoginTypes DEF OtherTypes, LoginTypeOK, SignInTypes
<1>5. CountsRight'
  <2>1. IsFiniteSet(CountingNow)
    BY DEF LoginInv, CountsRight
  <2> SUFFICES ASSUME "count" \notin crossed'
               PROVE  /\ failures' + Cardinality(CountingNow') = wrong'
                      /\ \A q \in CountingNow' : tally'[q] = failures' + 1
    BY <1>1, <1>2, <2>1 DEF CountsRight
  <2>2. CountingNow' = {}
    BY <1>0, <1>1, <1>2 DEF Counting, CountingNow
  <2> QED
    BY <1>1, <2>2, FS_EmptySet
<1>6. SessionsRight' /\ LinksRight'
  BY <1>1, <1>2, <1>3, SessionsStay, LinksStay DEF LoginInv, SessionsKept, LinksKept
<1> QED
  BY <1>4, <1>5, <1>6 DEF LoginInv

LEMMA StoreRefreshTokenStep ==
    ASSUME LoginInv, NEW r \in SignIns, NEW s \in Schools, StoreRefreshToken(r, s)
    PROVE  LoginInv'
<1>0. SignInTypes /\ OtherTypes /\ signIn[r] = "matched" /\ r \notin CountingNow
  BY LoginTypes DEF LoginInv, StoreRefreshToken, CountingNow
<1>1. /\ signedInWith' = [signedInWith EXCEPT ![s] = typed[r]] /\ seen[r][s] = typed[r]
      /\ EndSignIn(r)
      /\ UNCHANGED <<password, resetToken, failures, locked, verified, linkState, toMark,
                     resetting, wrong, crossed>>
  BY DEF StoreRefreshToken, Matched, accountVars, linkVars, loginHistory
<1>2. /\ SignInTypes' /\ signIn'[r] = "idle" /\ CountingNow' = CountingNow
      /\ \A q \in SignIns : q # r => signIn'[q] = signIn[q] /\ seen'[q] = seen[q]
                                       /\ tally'[q] = tally[q]
  BY <1>0, <1>1, SignInEnds
<1>3. LoginTypeOK'
  <2>1. signedInWith' \in [Schools -> Passwords \cup {NoValue}]
    BY <1>0, <1>1 DEF SignInTypes, OtherTypes
  <2> QED
    BY <1>0, <1>1, <1>2, <2>1, LoginTypes DEF OtherTypes, LoginTypeOK, SignInTypes
<1>4. CountsRight' /\ LinksRight'
  BY <1>0, <1>1, <1>2, CountsStay, LinksStay DEF LoginInv, CountsKept, LinksKept, CountingNow
<1>5. SessionsRight'
  <2> SUFFICES ASSUME "reset" \notin crossed, NEW t \in Schools
               PROVE  /\ signedInWith'[t] \in {NoValue, password[t]}
                      /\ \A q \in SignIns : signIn'[q] # "idle" => seen'[q][t] = password[t]
    BY <1>1 DEF SessionsRight
  <2>1. /\ signedInWith[t] \in {NoValue, password[t]}
        /\ \A q \in SignIns : signIn[q] # "idle" => seen[q][t] = password[t]
    BY DEF LoginInv, SessionsRight
  <2>2. signedInWith'[t] = IF t = s THEN typed[r] ELSE signedInWith[t]
    BY <1>0, <1>1 DEF OtherTypes
  <2> QED
    BY <1>0, <1>1, <1>2, <2>1, <2>2
<1> QED
  BY <1>3, <1>4, <1>5 DEF LoginInv

LEMMA AccountStep ==
    ASSUME LoginInv, LockExpires \/ VerifyEmail PROVE LoginInv'
<1>0. SignInTypes /\ OtherTypes
  BY LoginTypes DEF LoginInv
<1>1. /\ UNCHANGED <<password, resetToken, signedInWith, failures, linkState, toMark, resetting,
                     signIn, typed, seen, seenVerified, tally, wrong, crossed>>
      /\ locked' \in BOOLEAN /\ verified' \in BOOLEAN /\ (locked' => locked)
  <2>1. /\ UNCHANGED <<password, resetToken, signedInWith, failures, linkState, toMark,
                       resetting, signIn, typed, seen, seenVerified, tally, wrong, crossed>>
        /\ (locked' = FALSE /\ verified' = verified) \/ (locked' = locked /\ verified' = TRUE)
    BY DEF LockExpires, VerifyEmail, schoolVars, linkVars, signInVars, loginHistory
  <2>2. locked \in BOOLEAN /\ verified \in BOOLEAN
    BY <1>0 DEF OtherTypes
  <2>3. locked' \in BOOLEAN /\ verified' \in BOOLEAN
    <3>1. locked' = FALSE \/ locked' = locked
      BY <2>1
    <3>2. verified' = TRUE \/ verified' = verified
      BY <2>1
    <3> QED
      BY <2>2, <3>1, <3>2
  <2>4. locked' => locked
    BY <2>1
  <2> QED
    BY <2>1, <2>3, <2>4
<1>2. LoginTypeOK'
  BY <1>0, <1>1, LoginTypes DEF SignInTypes, OtherTypes, LoginTypeOK
<1>3. CountsRight'
  <2>1. CountingNow' = CountingNow
    BY <1>1 DEF CountingNow
  <2> QED
    BY <1>1, <2>1 DEF LoginInv, CountsRight
<1>4. SessionsRight' /\ LinksRight'
  BY <1>1, SessionsStay, LinksStay DEF LoginInv, SessionsKept, LinksKept
<1> QED
  BY <1>2, <1>3, <1>4 DEF LoginInv

\* Steps of links and resets: neither counter nor sign-in is touched.
LEMMA SignInsAside ==
    ASSUME LoginInv, UNCHANGED <<failures, locked, verified, signIn, typed, seen, seenVerified,
                                 tally, wrong>>,
           crossed \subseteq crossed'
    PROVE  SignInTypes' /\ CountsRight'
<1>1. CountingNow' = CountingNow
  BY DEF CountingNow
<1> QED
  BY <1>1, CountsStay, LoginTypes DEF LoginInv, CountsKept, SignInTypes

LEMMA ForgotPasswordStep ==
    ASSUME LoginInv, NEW l \in Links, ForgotPassword(l) PROVE LoginInv'
<1>0. OtherTypes /\ linkState[l] = "new" /\ l \notin MarkingNow /\ LinksRight
  BY LoginTypes DEF LoginInv, ForgotPassword, MarkingNow
<1>1. /\ linkState' = [linkState EXCEPT ![l] = "marking"]
      /\ toMark' = [toMark EXCEPT ![l] = Schools]
      /\ crossed' = IF Marking(l) = {} /\ resetting.rows = {}
                    THEN crossed ELSE crossed \cup {"links"}
      /\ UNCHANGED <<password, resetToken, signedInWith, failures, locked, verified, resetting,
                     signIn, typed, seen, seenVerified, tally, wrong>>
  BY DEF ForgotPassword, schoolVars, accountVars, signInVars
<1>2. crossed \subseteq crossed' /\ crossed' \subseteq {"count", "reset", "links"}
  BY <1>0, <1>1 DEF OtherTypes
<1>3. /\ linkState'[l] = "marking" /\ toMark'[l] = Schools
      /\ \A k \in Links : k # l => linkState'[k] = linkState[k] /\ toMark'[k] = toMark[k]
      /\ linkState' \in [Links -> {"new", "marking", "mailed", "expired"}]
      /\ toMark' \in [Links -> SUBSET Schools]
  BY <1>0, <1>1 DEF OtherTypes
<1>4. MarkingNow' = MarkingNow \cup {l}
  BY <1>3 DEF MarkingNow
<1>5. LoginTypeOK' /\ CountsRight' /\ SessionsRight'
  <2>1. OtherTypes'
    BY <1>0, <1>1, <1>2, <1>3 DEF OtherTypes
  <2> QED
    BY <1>1, <1>2, <2>1, SignInsAside, SessionsStay, LoginTypes
       DEF LoginInv, SessionsKept, LoginTypeOK, SignInTypes, OtherTypes
<1>6. LinksRight'
  <2>1. \A k \in Links : toMark'[k] # {} => linkState'[k] = "marking"
    BY <1>0, <1>3 DEF LinksRight
  <2>2. ASSUME "links" \notin crossed' PROVE LinksAgree'
    <3>1. Marking(l) = {} /\ resetting.rows = {} /\ "links" \notin crossed
      BY <1>1, <2>2
    <3>2. MarkingNow' = {l}
      BY <1>4, <3>1 DEF Marking, MarkingNow
    <3> QED
      BY <1>1, <1>3, <3>1, <3>2 DEF LinksAgree
  <2> QED
    BY <1>0, <1>1, <2>1, <2>2 DEF LinksRight
<1> QED
  BY <1>5, <1>6 DEF LoginInv

LEMMA MarkRowStep ==
    ASSUME LoginInv, NEW l \in Links, NEW s \in Schools, MarkRow(l, s) PROVE LoginInv'
<1>0. OtherTypes /\ s \in toMark[l] /\ LinksRight
  BY LoginTypes DEF LoginInv, MarkRow
<1>1. /\ resetToken' = [resetToken EXCEPT ![s] = l]
      /\ toMark' = [toMark EXCEPT ![l] = toMark[l] \ {s}]
      /\ linkState' = [linkState EXCEPT ![l] = IF toMark[l] = {s} THEN "mailed" ELSE "marking"]
      /\ UNCHANGED <<password, signedInWith, failures, locked, verified, resetting,
                     signIn, typed, seen, seenVerified, tally, wrong, crossed>>
  BY DEF MarkRow, accountVars, signInVars, loginHistory
<1>2. /\ toMark'[l] = toMark[l] \ {s} /\ linkState'[l] \in {"mailed", "marking"}
      /\ (linkState'[l] = "mailed" <=> toMark[l] = {s})
      /\ \A k \in Links : k # l => linkState'[k] = linkState[k] /\ toMark'[k] = toMark[k]
      /\ linkState' \in [Links -> {"new", "marking", "mailed", "expired"}]
      /\ toMark' \in [Links -> SUBSET Schools]
  BY <1>0, <1>1 DEF OtherTypes
<1>3. /\ resetToken' \in [Schools -> Links \cup {NoValue}] /\ resetToken'[s] = l
      /\ \A t \in Schools : t # s => resetToken'[t] = resetToken[t]
  BY <1>0, <1>1 DEF OtherTypes
<1>4. LoginTypeOK' /\ CountsRight' /\ SessionsRight'
  <2>1. OtherTypes'
    BY <1>0, <1>1, <1>2, <1>3 DEF OtherTypes
  <2> QED
    BY <1>1, <2>1, SignInsAside, SessionsStay, LoginTypes
       DEF LoginInv, SessionsKept, LoginTypeOK, SignInTypes, OtherTypes
<1>5. LinksRight'
  <2>1. \A k \in Links : toMark'[k] # {} => linkState'[k] = "marking"
    BY <1>0, <1>2 DEF LinksRight
  <2>2. ASSUME "links" \notin crossed PROVE LinksAgree'
    <3>1. LinksAgree /\ linkState[l] = "marking" /\ l \in MarkingNow
      BY <1>0, <2>2 DEF LinksRight, MarkingNow
    <3>2. MarkingNow = {l} /\ resetting.rows = {}
      BY <3>1 DEF LinksAgree
    <3>3. MarkingNow' \subseteq {l} /\ (MarkingNow' = {} => toMark[l] = {s})
      BY <1>2, <3>2 DEF MarkingNow
    <3>4. \A t \in Schools \ toMark'[l] : resetToken'[t] = l
      BY <1>2, <1>3, <3>1, <3>2 DEF LinksAgree
    <3>5. MarkingNow' = {} => \A t \in Schools : resetToken'[t] = l
      BY <1>2, <3>3, <3>4
    <3> QED
      BY <1>1, <3>2, <3>3, <3>4, <3>5 DEF LinksAgree
  <2> QED
    BY <1>0, <1>1, <2>1, <2>2 DEF LinksRight
<1> QED
  BY <1>4, <1>5 DEF LoginInv

LEMMA LinkExpiresStep ==
    ASSUME LoginInv, NEW l \in Links, LinkExpires(l) PROVE LoginInv'
<1>0. OtherTypes /\ linkState[l] = "mailed" /\ LinksRight
  BY LoginTypes DEF LoginInv, LinkExpires
<1>1. /\ linkState' = [linkState EXCEPT ![l] = "expired"]
      /\ UNCHANGED <<password, resetToken, signedInWith, failures, locked, verified, toMark,
                     resetting, signIn, typed, seen, seenVerified, tally, wrong, crossed>>
  BY DEF LinkExpires, schoolVars, accountVars, signInVars, loginHistory
<1>2. /\ linkState' \in [Links -> {"new", "marking", "mailed", "expired"}]
      /\ linkState'[l] = "expired" /\ \A k \in Links : k # l => linkState'[k] = linkState[k]
  BY <1>0, <1>1 DEF OtherTypes
<1>3. MarkingNow' = MarkingNow
  BY <1>0, <1>2 DEF MarkingNow
<1>4. LoginTypeOK' /\ CountsRight' /\ SessionsRight'
  <2>1. OtherTypes'
    BY <1>0, <1>1, <1>2 DEF OtherTypes
  <2> QED
    BY <1>1, <2>1, SignInsAside, SessionsStay, LoginTypes
       DEF LoginInv, SessionsKept, LoginTypeOK, SignInTypes, OtherTypes
<1>5. LinksRight'
  <2>1. \A k \in Links : toMark'[k] # {} => linkState'[k] = "marking"
    BY <1>0, <1>1, <1>2 DEF LinksRight
  <2>2. "links" \notin crossed' => LinksAgree'
    BY <1>0, <1>1, <1>3 DEF LinksRight, LinksAgree
  <2> QED
    BY <1>0, <1>1, <2>1, <2>2 DEF LinksRight
<1> QED
  BY <1>4, <1>5 DEF LoginInv

LEMMA ResetPasswordStep ==
    ASSUME LoginInv, NEW l \in Links, NEW pw \in Passwords, ResetPassword(l, pw)
    PROVE  LoginInv'
<1> DEFINE R == {s \in Schools : resetToken[s] = l}
<1>0. /\ OtherTypes /\ linkState[l] = "mailed" /\ LinksRight /\ resetting.rows = {}
      /\ R # {} /\ NoValue \notin Links
  BY LoginTypes, AdminLoginAssumption DEF LoginInv, ResetPassword
<1>1. /\ resetting' = [rows |-> R, to |-> pw]
      /\ crossed' = IF Marking(l) = {} THEN crossed ELSE crossed \cup {"links"}
      /\ UNCHANGED <<password, resetToken, signedInWith, failures, locked, verified, linkState,
                     toMark, signIn, typed, seen, seenVerified, tally, wrong>>
  BY DEF ResetPassword, schoolVars, accountVars, linkVars, signInVars
<1>2. crossed \subseteq crossed' /\ crossed' \subseteq {"count", "reset", "links"}
  BY <1>0, <1>1 DEF OtherTypes
<1>3. resetting' \in [rows : SUBSET Schools, to : Passwords \cup {NoValue}] /\ resetting'.rows = R
  BY <1>1
<1>4. LoginTypeOK' /\ CountsRight' /\ SessionsRight'
  <2>1. OtherTypes'
    BY <1>0, <1>1, <1>2, <1>3 DEF OtherTypes
  <2> QED
    BY <1>1, <1>2, <2>1, SignInsAside, SessionsStay, LoginTypes
       DEF LoginInv, SessionsKept, LoginTypeOK, SignInTypes, OtherTypes
<1>5. LinksRight'
  <2>1. \A k \in Links : toMark'[k] # {} => linkState'[k] = "marking"
    BY <1>0, <1>1 DEF LinksRight
  <2>2. ASSUME "links" \notin crossed' PROVE LinksAgree'
    <3>1. Marking(l) = {} /\ "links" \notin crossed /\ LinksAgree
      BY <1>0, <1>1, <1>2, <2>2 DEF LinksRight
    <3>2. MarkingNow = {} /\ MarkingNow' = {}
      BY <1>0, <1>1, <3>1 DEF Marking, MarkingNow
    <3>3. R = Schools
      <4>1. \A s, t \in Schools : resetToken[s] = resetToken[t]
        BY <1>0, <3>1, <3>2 DEF LinksAgree
      <4> QED
        BY <1>0, <4>1
    <3> HIDE DEF R
    <3> QED
      BY <1>0, <1>3, <3>2, <3>3 DEF LinksAgree
  <2> QED
    BY <1>0, <1>1, <2>1, <2>2 DEF LinksRight
<1> QED
  BY <1>4, <1>5 DEF LoginInv

LEMMA CompletePasswordResetStep ==
    ASSUME LoginInv, NEW s \in Schools, CompletePasswordReset(s)
    PROVE  LoginInv' /\ EndsEverywhere
<1>0. /\ OtherTypes /\ SignInTypes /\ LinksRight /\ s \in resetting.rows
      /\ resetting.rows \subseteq Schools /\ resetting.to \in Passwords \cup {NoValue}
  BY LoginTypes DEF LoginInv, CompletePasswordReset, OtherTypes
<1>1. /\ password' = [password EXCEPT ![s] = resetting.to]
      /\ resetToken' = [resetToken EXCEPT ![s] = NoValue]
      /\ signedInWith' = [signedInWith EXCEPT ![s] = NoValue]
      /\ resetting' = IF resetting.rows = {s} THEN AtRest
                      ELSE [resetting EXCEPT !.rows = resetting.rows \ {s}]
      /\ crossed' = IF \E r \in SignIns : signIn[r] # "idle"
                    THEN crossed \cup {"reset"} ELSE crossed
      /\ UNCHANGED <<failures, locked, verified, linkState, toMark, signIn, typed, seen,
                     seenVerified, tally, wrong>>
  BY DEF CompletePasswordReset, accountVars, linkVars, signInVars
<1>2. crossed \subseteq crossed' /\ crossed' \subseteq {"count", "reset", "links"}
  BY <1>0, <1>1 DEF OtherTypes
<1>3. /\ resetting' \in [rows : SUBSET Schools, to : Passwords \cup {NoValue}]
      /\ resetting'.rows = resetting.rows \ {s}
      /\ resetting'.rows # {} => resetting'.to = resetting.to
      /\ resetting.to \in Passwords
  <2>1. resetting.to \in Passwords
    BY <1>0 DEF LinksRight
  <2>2. CASE resetting.rows = {s}
    <3>1. resetting' = [rows |-> {}, to |-> NoValue]
      BY <1>1, <2>2 DEF AtRest
    <3> QED
      BY <2>1, <2>2, <3>1
  <2>3. CASE resetting.rows # {s}
    <3>1. resetting' = [resetting EXCEPT !.rows = resetting.rows \ {s}]
      BY <1>1, <2>3
    <3> QED
      BY <1>0, <2>1, <3>1 DEF OtherTypes
  <2> QED
    BY <2>2, <2>3
<1>4. /\ password' \in [Schools -> Passwords] /\ password'[s] = resetting.to
      /\ resetToken' \in [Schools -> Links \cup {NoValue}] /\ resetToken'[s] = NoValue
      /\ signedInWith' \in [Schools -> Passwords \cup {NoValue}] /\ signedInWith'[s] = NoValue
      /\ \A t \in Schools : t # s => /\ password'[t] = password[t]
                                     /\ resetToken'[t] = resetToken[t]
                                     /\ signedInWith'[t] = signedInWith[t]
  BY <1>0, <1>1, <1>3 DEF OtherTypes
<1>5. LoginTypeOK' /\ CountsRight'
  <2>1. OtherTypes'
    BY <1>0, <1>1, <1>2, <1>3, <1>4 DEF OtherTypes
  <2>2. SignInTypes' /\ CountsRight'
    BY <1>1, <1>2, SignInsAside
  <2> QED
    BY <2>1, <2>2 DEF LoginTypeOK, SignInTypes, OtherTypes
<1>6. SessionsRight'
  <2> SUFFICES ASSUME "reset" \notin crossed', NEW t \in Schools
               PROVE  /\ signedInWith'[t] \in {NoValue, password'[t]}
                      /\ \A r \in SignIns : signIn'[r] # "idle" => seen'[r][t] = password'[t]
    BY DEF SessionsRight
  <2>1. "reset" \notin crossed /\ \A r \in SignIns : signIn[r] = "idle"
    BY <1>1
  <2>2. signedInWith[t] \in {NoValue, password[t]}
    BY <2>1 DEF LoginInv, SessionsRight
  <2> QED
    BY <1>1, <1>4, <2>1, <2>2
<1>7. "links" \notin crossed =>
         /\ LinksAgree /\ MarkingNow = {} /\ MarkingNow' = {}
         /\ \A t \in Schools \ resetting'.rows :
               password'[t] = resetting.to /\ resetToken'[t] = NoValue
  BY <1>0, <1>1, <1>3, <1>4 DEF LinksRight, LinksAgree, MarkingNow
<1>8. LinksRight'
  <2>1. \A k \in Links : toMark'[k] # {} => linkState'[k] = "marking"
    BY <1>0, <1>1 DEF LinksRight
  <2>2. ASSUME "links" \notin crossed' PROVE LinksAgree'
    <3>1. "links" \notin crossed
      BY <1>2, <2>2
    <3> QED
      BY <1>3, <1>7, <3>1 DEF LinksAgree
  <2> QED
    BY <1>3, <2>1, <2>2 DEF LinksRight
<1>9. EndsEverywhere
  BY <1>7 DEF EndsEverywhere
<1> QED
  BY <1>5, <1>6, <1>8, <1>9 DEF LoginInv

LEMMA LoginInit == InitLogin => LoginInv
<1> SUFFICES ASSUME InitLogin PROVE LoginInv
  OBVIOUS
<1>1. CountingNow = {} /\ MarkingNow = {} /\ Nothing \in [Schools -> Passwords \cup {NoValue}]
  BY DEF InitLogin, CountingNow, MarkingNow, Nothing
<1>2. LoginTypeOK
  <2>1. 0 \in 0 .. MaxWrong
    BY AdminLoginAssumption
  <2>2. resetting \in [rows : SUBSET Schools, to : Passwords \cup {NoValue}]
    BY DEF InitLogin, AtRest
  <2>3. SignInTypes
    <3>1. /\ signIn \in [SignIns -> SignInStages] /\ tally \in [SignIns -> Nat]
          /\ seenVerified \in [SignIns -> BOOLEAN]
      BY DEF InitLogin, SignInStages
    <3>2. /\ typed \in [SignIns -> Passwords \cup {NoValue}]
          /\ seen \in [SignIns -> [Schools -> Passwords \cup {NoValue}]]
      BY <1>1 DEF InitLogin
    <3>3. \A r \in SignIns : tally[r] > 0 <=> signIn[r] = "counting"
      BY DEF InitLogin
    <3> QED
      BY <3>1, <3>2, <3>3 DEF SignInTypes
  <2>4. OtherTypes
    <3>1. verified \in BOOLEAN
      BY AdminLoginAssumption DEF InitLogin
    <3> QED
      BY <2>1, <2>2, <3>1 DEF InitLogin, OtherTypes
  <2> QED
    BY <2>3, <2>4, LoginTypes
<1>3. CountsRight
  BY <1>1, FS_EmptySet DEF InitLogin, CountsRight
<1>4. SessionsRight
  BY DEF InitLogin, SessionsRight
<1>5. LinksRight
  BY <1>1 DEF InitLogin, LinksRight, LinksAgree, AtRest
<1> QED
  BY <1>2, <1>3, <1>4, <1>5 DEF LoginInv

LEMMA LoginStep == LoginInv /\ [NextLogin]_loginVars => LoginInv' /\ [EndsEverywhere]_loginVars
<1> SUFFICES ASSUME LoginInv, [NextLogin]_loginVars PROVE LoginInv' /\ [EndsEverywhere]_loginVars
  OBVIOUS
<1>1. ASSUME UNCHANGED resetting PROVE EndsEverywhere
  BY <1>1 DEF EndsEverywhere
<1>2. ASSUME NEW r \in SignIns,
             \/ \E pw \in Passwords : ReadAccount(r, pw)
             \/ ReadFailures(r) \/ WriteFailures(r) \/ ResetLoginState(r)
             \/ \E s \in Schools : StoreRefreshToken(r, s)
      PROVE  LoginInv' /\ UNCHANGED resetting
  <2>1. LoginInv'
    BY <1>2, ReadAccountStep, ReadFailuresStep, WriteFailuresStep, ResetLoginStateStep,
       StoreRefreshTokenStep
  <2>2. UNCHANGED resetting
    BY <1>2 DEF ReadAccount, ReadFailures, WriteFailures, ResetLoginState, StoreRefreshToken
  <2> QED
    BY <2>1, <2>2
<1>3. CASE LockExpires \/ VerifyEmail
  <2>1. UNCHANGED resetting
    BY <1>3 DEF LockExpires, VerifyEmail
  <2> QED
    BY <1>1, <1>3, <2>1, AccountStep
<1>4. ASSUME NEW l \in Links,
             ForgotPassword(l) \/ LinkExpires(l) \/ \E s \in Schools : MarkRow(l, s)
      PROVE  LoginInv' /\ UNCHANGED resetting
  <2>1. LoginInv'
    BY <1>4, ForgotPasswordStep, LinkExpiresStep, MarkRowStep
  <2>2. UNCHANGED resetting
    BY <1>4 DEF ForgotPassword, LinkExpires, MarkRow
  <2> QED
    BY <2>1, <2>2
<1>5. ASSUME NEW l \in Links, NEW pw \in Passwords, ResetPassword(l, pw)
      PROVE  LoginInv' /\ EndsEverywhere
  BY <1>5, ResetPasswordStep DEF ResetPassword, EndsEverywhere
<1>6. ASSUME NEW s \in Schools, CompletePasswordReset(s) PROVE LoginInv' /\ EndsEverywhere
  BY <1>6, CompletePasswordResetStep
<1>7. CASE UNCHANGED loginVars
  <2>1. UNCHANGED <<password, resetToken, signedInWith, failures, locked, verified, linkState,
                    toMark, resetting, signIn, typed, seen, seenVerified, tally, wrong, crossed>>
    BY <1>7 DEF loginVars, schoolVars, accountVars, linkVars, signInVars, loginHistory
  <2>2. LoginTypeOK'
    BY <2>1 DEF LoginInv, LoginTypeOK
  <2>3. CountsKept /\ SessionsKept /\ LinksKept
    BY <2>1 DEF CountsKept, SessionsKept, LinksKept, CountingNow
  <2> QED
    BY <1>7, <2>2, <2>3, CountsStay, SessionsStay, LinksStay DEF LoginInv
<1> QED
  BY <1>1, <1>2, <1>3, <1>4, <1>5, <1>6, <1>7 DEF NextLogin

LEMMA LoginAlways == SpecLogin => []LoginInv /\ [][EndsEverywhere]_loginVars
BY LoginInit, LoginStep, PTL DEF SpecLogin

\* The columns and what the requests hold in memory keep their types; a tally
\* is held exactly while a failure is being counted.
THEOREM LoginTypeCorrect == SpecLogin => []LoginTypeOK
BY LoginAlways, PTL DEF LoginInv

\* The counter counts the wrong passwords since the last success, and nobody
\* is locked out early, unless two requests raced for it.
THEOREM FailuresAreCounted == SpecLogin => []FailuresCounted
<1>1. LoginInv => FailuresCounted
  BY DEF LoginInv, CountsRight, FailuresCounted, CountingNow
<1> QED
  BY <1>1, LoginAlways, PTL

\* "forces re-login": no session outlives the password it was opened with.
THEOREM SessionsEnd == SpecLogin => []ResetEndsSessions
<1>1. LoginInv => ResetEndsSessions
  BY DEF LoginInv, SessionsRight, ResetEndsSessions
<1> QED
  BY <1>1, LoginAlways, PTL

\* "resets their password across all their tenants at once".
THEOREM ResetsReachAll == SpecLogin => ResetReachesEverySchool
BY LoginAlways, PTL DEF ResetReachesEverySchool

-----------------------------------------------------------------------------
(* Sign-in of a parent by a one-time code.                                 *)

AllUsed == \A i \in DOMAIN otps : otps[i].used
LastRow == otps[Len(otps)]

VerifiesCode == \A v \in Verifying : v \in Verifications /\ entered[v] \in Codes

\* A code is mailed after its rows are written.
MailedHasRow ==
    \A c \in Codes : sending[c] \in Issued => \E i \in DOMAIN otps : otps[i].code = c

\* While no parent row is switched, requests are about all the schools, and a
\* code that opened a session has no unused row, nor will it get one.
SpentIsUsed ==
    changes = 0 =>
        /\ activeSchools = ParentSchools
        /\ \A v \in Verifying : /\ candidates[v] = ParentSchools
                                /\ verifying[v] = "burning" => sending[entered[v]] = "mailed"
        /\ \A c \in spent :
              sending[c] = "mailed" /\ \A i \in DOMAIN otps : otps[i].code = c => otps[i].used

\* Unless requests raced, no code is verified while one is sent, what is
\* verified is the code of the newest row, and that row is unused, or all are.
NewestIsLast ==
    ~otpRaced /\ changes = 0 =>
        /\ Sending # {} => Verifying = {}
        /\ Sending = {} /\ otps # << >> =>
              /\ LastRow.used => AllUsed /\ LastRow.code \in expired \cup spent
              /\ \A v \in Verifications :
                    /\ verifying[v] = "burning" => entered[v] = LastRow.code
                    /\ verifying[v] = "expiring" => LastRow.code \in expired
        /\ otps = << >> => Verifying = {}

OtpInv == OtpTypeOK /\ VerifiesCode /\ MailedHasRow /\ SpentIsUsed /\ NewestIsLast

LEMMA OtpTypes == ASSUME OtpInv PROVE
    /\ otps \in Seq(OtpRows) /\ Len(otps) \in Nat /\ DOMAIN otps = 1 .. Len(otps)
    /\ (otps # << >> => Len(otps) \in DOMAIN otps) /\ (Len(otps) = 0 => otps = << >>)
    /\ \A i \in DOMAIN otps : otps[i] \in OtpRows
    /\ activeSchools \subseteq ParentSchools /\ spent \subseteq Codes
    /\ sending \in [Codes -> CodeStages]
    /\ todo \in [Codes -> SUBSET ParentSchools]
    /\ verifying \in [Verifications -> {"idle", "expiring", "burning", "burnt", "choosing"}]
    /\ entered \in [Verifications -> Codes \cup {NoCode}]
    /\ candidates \in [Verifications -> SUBSET ParentSchools]
    /\ otpRaced \in BOOLEAN /\ changes \in Nat
<1>1. OtpTypeOK
  BY DEF OtpInv
<1>2. /\ otps \in Seq(OtpRows) /\ Len(otps) \in Nat /\ DOMAIN otps = 1 .. Len(otps)
      /\ \A i \in DOMAIN otps : otps[i] \in OtpRows
  BY <1>1 DEF OtpTypeOK
<1>3. Len(otps) = 0 => otps = << >>
  BY <1>2, EmptySeq
<1>4. changes \in Nat
  BY <1>1, ParentOtpAssumption DEF OtpTypeOK
<1> QED
  BY <1>1, <1>2, <1>3, <1>4 DEF OtpTypeOK

\* What marking rows used changes, and what it leaves.
LEMMA RowsMarked ==
    ASSUME OtpInv, NEW T, MarkUsed(T)
    PROVE  /\ otps' \in Seq(OtpRows) /\ Len(otps') = Len(otps) /\ DOMAIN otps' = DOMAIN otps
           /\ (otps' = << >> <=> otps = << >>)
           /\ \A i \in DOMAIN otps :
                 /\ otps'[i].code = otps[i].code
                 /\ otps[i].used => otps'[i].used
                 /\ otps[i].school \in T => otps'[i].used
<1> DEFINE row(i) == IF otps[i].school \in T THEN [otps[i] EXCEPT !.used = TRUE] ELSE otps[i]
<1>1. /\ Len(otps) \in Nat /\ DOMAIN otps = 1 .. Len(otps)
      /\ \A i \in DOMAIN otps : otps[i] \in OtpRows
  BY OtpTypes
<1>2. otps' = [i \in 1 .. Len(otps) |-> row(i)]
  BY <1>1 DEF MarkUsed
<1>3. ASSUME NEW i \in 1 .. Len(otps)
      PROVE  /\ row(i) \in OtpRows /\ row(i).code = otps[i].code
             /\ otps[i].used => row(i).used
             /\ otps[i].school \in T => row(i).used
  BY <1>1 DEF OtpRows
<1> HIDE DEF row
<1>4. otps' \in [1 .. Len(otps) -> OtpRows]
  BY <1>2, <1>3
<1>5. otps' \in Seq(OtpRows) /\ Len(otps') = Len(otps)
  BY <1>1, <1>4, SeqDef
<1>6. otps' = << >> <=> otps = << >>
  BY <1>1, <1>5, OtpTypes, EmptySeq
<1> QED
  BY <1>1, <1>2, <1>3, <1>5, <1>6

LEMMA SendOtpStep ==
    ASSUME OtpInv, NEW c \in Codes, NEW S \in SUBSET ParentSchools, SendOtp(c, S) PROVE OtpInv'
<1>0. /\ sending \in [Codes -> CodeStages] /\ OtpTypeOK
      /\ todo \in [Codes -> SUBSET ParentSchools] /\ sending[c] = "new" /\ otpRaced \in BOOLEAN
  BY OtpTypes DEF OtpInv, SendOtp
<1>1. /\ sending' = [sending EXCEPT ![c] = "marking"] /\ todo' = [todo EXCEPT ![c] = S] /\ S # {}
      /\ otpRaced' = (otpRaced \/ Sending # {} \/ Verifying # {})
      /\ UNCHANGED <<otps, activeSchools, expired, verifying, entered, candidates, spent, changes>>
  BY DEF SendOtp, verifyVars
<1>2. /\ sending'[c] = "marking" /\ todo'[c] = S
      /\ \A d \in Codes : d # c => sending'[d] = sending[d] /\ todo'[d] = todo[d]
      /\ sending' \in [Codes -> CodeStages]
      /\ todo' \in [Codes -> SUBSET ParentSchools]
  BY <1>0, <1>1 DEF CodeStages
<1>3. \A d \in Codes : /\ sending'[d] = "mailed" <=> sending[d] = "mailed"
                       /\ sending'[d] \in Issued <=> sending[d] \in Issued
  BY <1>0, <1>2 DEF Issued
<1>4. Verifying' = Verifying /\ c \in Sending'
  BY <1>1, <1>2 DEF Verifying, Sending
<1>5. otpRaced' \in BOOLEAN /\ (~otpRaced' => Verifying = {})
  <2>1. otpRaced' \in BOOLEAN
    BY <1>1
  <2>2. ~otpRaced' => Verifying = {}
    BY <1>1, Zenon
  <2> QED
    BY <2>1, <2>2
<1>6. OtpTypeOK'
  <2>1. \A d \in Codes : todo'[d] = {} <=> sending'[d] \in {"new"} \cup Issued
    BY <1>0, <1>1, <1>2 DEF OtpTypeOK, Issued
  <2> QED
    BY <1>0, <1>1, <1>2, <1>5, <2>1 DEF OtpTypeOK
<1>7. MailedHasRow' /\ SpentIsUsed' /\ VerifiesCode'
  BY <1>1, <1>3, <1>4, OtpTypes DEF OtpInv, MailedHasRow, SpentIsUsed, VerifiesCode
<1>8. NewestIsLast'
  BY <1>4, <1>5 DEF NewestIsLast
<1> QED
  BY <1>6, <1>7, <1>8 DEF OtpInv

LEMMA MarkOldUsedStep ==
    ASSUME OtpInv, NEW c \in Codes, NEW s \in ParentSchools, MarkOldUsed(c, s) PROVE OtpInv'
<1>0. /\ sending \in [Codes -> CodeStages] /\ OtpTypeOK
      /\ sending[c] = "marking"
  BY OtpTypes DEF OtpInv, MarkOldUsed
<1>1. /\ sending' = [sending EXCEPT ![c] = "inserting"] /\ MarkUsed({s})
      /\ UNCHANGED <<activeSchools, todo, expired, verifying, entered, candidates, spent,
                     otpRaced, changes>>
  BY DEF MarkOldUsed, verifyVars
<1>2. /\ otps' \in Seq(OtpRows) /\ DOMAIN otps' = DOMAIN otps /\ (otps' = << >> <=> otps = << >>)
      /\ \A i \in DOMAIN otps : otps'[i].code = otps[i].code /\ (otps[i].used => otps'[i].used)
  BY <1>1, RowsMarked
<1>3. /\ sending'[c] = "inserting" /\ \A d \in Codes : d # c => sending'[d] = sending[d]
      /\ sending' \in [Codes -> CodeStages]
  BY <1>0, <1>1 DEF CodeStages
<1>4. \A d \in Codes : /\ sending'[d] = "mailed" <=> sending[d] = "mailed"
                       /\ sending'[d] \in Issued <=> sending[d] \in Issued
  BY <1>0, <1>3 DEF Issued
<1>5. Verifying' = Verifying /\ c \in Sending' /\ c \in Sending
  BY <1>0, <1>1, <1>3 DEF Verifying, Sending
<1>6. OtpTypeOK'
  <2>1. \A d \in Codes : todo'[d] = {} <=> sending'[d] \in {"new"} \cup Issued
    BY <1>0, <1>1, <1>3 DEF OtpTypeOK, Issued
  <2> QED
    BY <1>0, <1>1, <1>2, <1>3, <2>1 DEF OtpTypeOK
<1>7. MailedHasRow' /\ VerifiesCode'
  BY <1>1, <1>2, <1>4, <1>5 DEF OtpInv, MailedHasRow, VerifiesCode
<1>8. SpentIsUsed'
  <2> SUFFICES ASSUME changes = 0 PROVE SpentIsUsed'
    BY <1>1 DEF SpentIsUsed
  <2>1. /\ activeSchools = ParentSchools /\ spent \subseteq Codes
        /\ \A v \in Verifying :
              /\ candidates[v] = ParentSchools /\ entered[v] \in Codes
              /\ verifying[v] = "burning" => sending[entered[v]] = "mailed"
        /\ \A d \in spent :
              sending[d] = "mailed" /\ \A i \in DOMAIN otps : otps[i].code = d => otps[i].used
    BY OtpTypes DEF OtpInv, SpentIsUsed, VerifiesCode
  <2>2. ASSUME NEW d \in spent
        PROVE  sending'[d] = "mailed" /\ \A i \in DOMAIN otps' : otps'[i].code = d => otps'[i].used
    BY <1>2, <1>4, <2>1
  <2> QED
    BY <1>1, <1>4, <1>5, <2>1, <2>2 DEF SpentIsUsed
<1>9. NewestIsLast'
  BY <1>1, <1>2, <1>5 DEF OtpInv, NewestIsLast
<1> QED
  BY <1>6, <1>7, <1>8, <1>9 DEF OtpInv

LEMMA InsertOtpStep ==
    ASSUME OtpInv, NEW c \in Codes, NEW s \in ParentSchools, InsertOtp(c, s) PROVE OtpInv'
<1>0. /\ sending \in [Codes -> CodeStages] /\ OtpTypeOK
      /\ todo \in [Codes -> SUBSET ParentSchools] /\ sending[c] = "inserting"
      /\ otps \in Seq(OtpRows) /\ Len(otps) \in Nat /\ DOMAIN otps = 1 .. Len(otps)
      /\ spent \subseteq Codes
  BY OtpTypes DEF OtpInv, InsertOtp
<1> DEFINE new == [school |-> s, code |-> c, used |-> FALSE]
<1>1. /\ otps' = Append(otps, new) /\ todo' = [todo EXCEPT ![c] = todo[c] \ {s}]
      /\ sending' = [sending EXCEPT ![c] = IF todo[c] = {s} THEN "mailing" ELSE "marking"]
      /\ UNCHANGED <<activeSchools, expired, verifying, entered, candidates, spent,
                     otpRaced, changes>>
  BY DEF InsertOtp, verifyVars
<1>2. s \in todo[c]
  <2>1. todo[c] # {}
    BY <1>0 DEF OtpTypeOK, Issued
  <2> QED
    BY <2>1 DEF InsertOtp
<1>3. new \in OtpRows /\ new.code = c /\ ~new.used
  BY DEF OtpRows
<1> HIDE DEF new
<1>4. /\ otps' \in Seq(OtpRows) /\ otps' # << >> /\ Len(otps') = Len(otps) + 1
      /\ otps'[Len(otps) + 1] = new /\ \A i \in DOMAIN otps : otps'[i] = otps[i]
  BY <1>0, <1>1, <1>3, AppendProperties
<1>5. DOMAIN otps' = DOMAIN otps \cup {Len(otps) + 1} /\ Len(otps') \in DOMAIN otps'
  <2>1. DOMAIN otps' = 1 .. Len(otps')
    BY <1>4
  <2> QED
    BY <1>0, <1>4, <2>1
<1>6. /\ sending'[c] = IF todo[c] = {s} THEN "mailing" ELSE "marking"
      /\ todo'[c] = todo[c] \ {s}
      /\ \A d \in Codes : d # c => sending'[d] = sending[d] /\ todo'[d] = todo[d]
      /\ sending' \in [Codes -> CodeStages]
      /\ todo' \in [Codes -> SUBSET ParentSchools]
  BY <1>0, <1>1 DEF CodeStages
<1>7. Verifying' = Verifying /\ c \in Sending
  BY <1>0, <1>1 DEF Verifying, Sending
<1>8. OtpTypeOK'
  <2>1. \A d \in Codes : todo'[d] = {} <=> sending'[d] \in {"new"} \cup Issued
    BY <1>0, <1>2, <1>6 DEF OtpTypeOK, Issued
  <2> QED
    BY <1>0, <1>1, <1>4, <1>6, <2>1 DEF OtpTypeOK
<1>9. MailedHasRow'
  <2> SUFFICES ASSUME NEW d \in Codes, sending'[d] \in Issued
               PROVE  \E i \in DOMAIN otps' : otps'[i].code = d
    BY DEF MailedHasRow
  <2>1. CASE d = c
    BY <1>3, <1>4, <1>5, <2>1
  <2>2. CASE d # c
    <3>1. PICK i \in DOMAIN otps : otps[i].code = d
      BY <1>6, <2>2 DEF OtpInv, MailedHasRow
    <3> QED
      BY <1>4, <1>5, <3>1
  <2> QED
    BY <2>1, <2>2
<1>10. SpentIsUsed'
  <2> SUFFICES ASSUME changes = 0 PROVE SpentIsUsed'
    BY <1>1 DEF SpentIsUsed
  <2>1. /\ activeSchools = ParentSchools
        /\ \A v \in Verifying :
              /\ candidates[v] = ParentSchools /\ entered[v] \in Codes
              /\ verifying[v] = "burning" => sending[entered[v]] = "mailed"
        /\ \A d \in spent :
              sending[d] = "mailed" /\ \A i \in DOMAIN otps : otps[i].code = d => otps[i].used
    BY DEF OtpInv, SpentIsUsed, VerifiesCode
  <2>2. ASSUME NEW d \in spent
        PROVE  sending'[d] = "mailed" /\ \A i \in DOMAIN otps' : otps'[i].code = d => otps'[i].used
    <3>1. d # c /\ d \in Codes
      BY <1>0, <2>1
    <3> QED
      BY <1>3, <1>4, <1>5, <1>6, <2>1, <3>1
  <2>3. \A v \in Verifying : verifying[v] = "burning" => entered[v] # c
    BY <1>0, <2>1
  <2> QED
    BY <1>1, <1>6, <1>7, <2>1, <2>2, <2>3 DEF SpentIsUsed
<1>11. NewestIsLast'
  <2> SUFFICES ASSUME ~otpRaced, changes = 0 PROVE NewestIsLast'
    BY <1>1 DEF NewestIsLast
  <2>1. Verifying = {}
    BY <1>7 DEF OtpInv, NewestIsLast
  <2>2. LastRow' = new
    BY <1>4 DEF LastRow
  <2>3. \A v \in Verifications : verifying'[v] \notin {"burning", "expiring"}
    BY <1>1, <2>1 DEF Verifying
  <2> QED
    BY <1>3, <1>4, <1>7, <2>1, <2>2, <2>3 DEF NewestIsLast
<1> QED
  BY <1>1, <1>7, <1>8, <1>9, <1>10, <1>11 DEF OtpInv, VerifiesCode

LEMMA MailOtpStep ==
    ASSUME OtpInv, NEW c \in Codes, NEW delivered \in BOOLEAN, MailOtp(c, delivered)
    PROVE  OtpInv'
<1>0. sending \in [Codes -> CodeStages] /\ OtpTypeOK /\ sending[c] = "mailing" /\ spent \subseteq Codes
  BY OtpTypes DEF OtpInv, MailOtp
<1>1. /\ sending' = [sending EXCEPT ![c] = IF delivered THEN "mailed" ELSE "unsent"]
      /\ UNCHANGED <<otps, activeSchools, todo, expired, verifying, entered, candidates, spent,
                     otpRaced, changes>>
  BY DEF MailOtp, verifyVars
<1>2. /\ sending'[c] \in Issued /\ sending'[c] \in CodeStages
      /\ \A d \in Codes : d # c => sending'[d] = sending[d]
      /\ sending' \in [Codes -> CodeStages]
  BY <1>0, <1>1 DEF Issued, CodeStages
<1>3. /\ \A d \in Codes : sending'[d] \in Issued <=> sending[d] \in Issued
      /\ \A d \in Codes : sending'[d] = "new" <=> sending[d] = "new"
      /\ \A d \in Codes : sending[d] = "mailed" => sending'[d] = "mailed"
  BY <1>0, <1>1, <1>2 DEF Issued
<1>4. UNCHANGED <<Sending, Verifying, LastRow, AllUsed>>
  BY <1>0, <1>1, <1>2 DEF Sending, Verifying, LastRow, AllUsed, Issued
<1>5. OtpTypeOK'
  <2>1. \A d \in Codes : todo'[d] = {} <=> sending'[d] \in {"new"} \cup Issued
    BY <1>0, <1>1, <1>3 DEF OtpTypeOK
  <2> QED
    BY <1>0, <1>1, <1>2, <2>1 DEF OtpTypeOK
<1>6. VerifiesCode' /\ MailedHasRow' /\ NewestIsLast'
  BY <1>1, <1>3, <1>4 DEF OtpInv, VerifiesCode, MailedHasRow, NewestIsLast
<1>7. SpentIsUsed'
  BY <1>0, <1>1, <1>3, <1>4 DEF OtpInv, SpentIsUsed, VerifiesCode
<1> QED
  BY <1>5, <1>6, <1>7 DEF OtpInv

LEMMA OtpExpiresStep == ASSUME OtpInv, NEW c \in Codes, OtpExpires(c) PROVE OtpInv'
<1>1. /\ expired' = expired \cup {c}
      /\ UNCHANGED <<otps, activeSchools, sending, todo, verifying, entered, candidates, spent,
                     otpRaced, changes>>
  BY DEF OtpExpires, verifyVars
<1>2. OtpTypeOK'
  BY <1>1 DEF OtpInv, OtpTypeOK
<1>3. UNCHANGED <<Sending, Verifying, LastRow, AllUsed>>
  BY <1>1 DEF Sending, Verifying, LastRow, AllUsed
<1>4. MailedHasRow' /\ SpentIsUsed' /\ VerifiesCode'
  BY <1>1, <1>3 DEF OtpInv, MailedHasRow, SpentIsUsed, VerifiesCode
<1>5. NewestIsLast'
  BY <1>1, <1>3 DEF OtpInv, NewestIsLast
<1> QED
  BY <1>2, <1>4, <1>5 DEF OtpInv

LEMMA ReadOtpStep ==
    ASSUME OtpInv, NEW v \in Verifications, NEW c \in Codes, NEW w \in Spellings, ReadOtp(v, c, w)
    PROVE  OtpInv' /\ \A u \in Verifications : AcceptsUnspent(u)
<1> DEFINE n == NewestCode(activeSchools, w)
<1>0. /\ verifying \in [Verifications -> {"idle", "expiring", "burning", "burnt", "choosing"}]
      /\ entered \in [Verifications -> Codes \cup {NoCode}] /\ OtpTypeOK
      /\ candidates \in [Verifications -> SUBSET ParentSchools] /\ activeSchools \subseteq ParentSchools
      /\ verifying[v] = "idle" /\ otpRaced \in BOOLEAN
  BY OtpTypes DEF OtpInv, ReadOtp
<1>1. /\ entered' = [entered EXCEPT ![v] = c] /\ candidates' = [candidates EXCEPT ![v] = activeSchools]
      /\ otpRaced' = (otpRaced \/ Sending # {})
      /\ UNCHANGED <<otps, activeSchools, sending, todo, expired, spent, changes>>
  BY DEF ReadOtp, sendVars
<1>2. /\ n # NoCode
      /\ \/ n \in expired /\ verifying' = [verifying EXCEPT ![v] = "expiring"]
         \/ /\ n = c /\ sending[c] = "mailed"
            /\ verifying' = [verifying EXCEPT ![v] = "burning"]
  BY DEF ReadOtp
<1>3. /\ Unused(activeSchools) # {} /\ n = otps[Max(Unused(activeSchools))].code
  BY <1>2 DEF NewestCode
<1>4. /\ Max(Unused(activeSchools)) \in Unused(activeSchools)
      /\ \A i \in Unused(activeSchools) : i <= Max(Unused(activeSchools))
  <2>1. /\ Len(otps) \in Nat /\ DOMAIN otps = 1 .. Len(otps)
        /\ Unused(activeSchools) \subseteq DOMAIN otps
    BY OtpTypes DEF Unused
  <2>2. Unused(activeSchools) \subseteq Nat /\ \A i \in Unused(activeSchools) : i <= Len(otps)
    BY <2>1
  <2> QED
    BY <1>3, <2>1, <2>2, MaxOfBounded
<1> HIDE DEF n
<1>5. /\ entered'[v] = c /\ candidates'[v] = activeSchools
      /\ \/ verifying'[v] = "expiring" /\ n \in expired
         \/ verifying'[v] = "burning" /\ n = c /\ sending[c] = "mailed"
      /\ \A u \in Verifications : u # v =>
            entered'[u] = entered[u] /\ candidates'[u] = candidates[u] /\ verifying'[u] = verifying[u]
      /\ entered' \in [Verifications -> Codes \cup {NoCode}]
      /\ candidates' \in [Verifications -> SUBSET ParentSchools]
      /\ verifying' \in [Verifications -> {"idle", "expiring", "burning", "burnt", "choosing"}]
  BY <1>0, <1>1, <1>2
<1>6. otpRaced' \in BOOLEAN /\ (~otpRaced' => ~otpRaced /\ Sending = {})
  <2>1. otpRaced' \in BOOLEAN
    BY <1>1
  <2>2. ~otpRaced' => ~otpRaced /\ Sending = {}
    BY <1>1, Zenon
  <2> QED
    BY <2>1, <2>2
<1>7. Sending' = Sending /\ v \in Verifying' /\ \A u \in Verifying' : u = v \/ u \in Verifying
  BY <1>1, <1>5 DEF Sending, Verifying
<1>8. OtpTypeOK'
  BY <1>0, <1>1, <1>5, <1>6 DEF OtpTypeOK
<1>9. MailedHasRow' /\ VerifiesCode'
  BY <1>1, <1>5, <1>7 DEF OtpInv, MailedHasRow, VerifiesCode
<1>10. SpentIsUsed'
  <2> SUFFICES ASSUME changes = 0 PROVE SpentIsUsed'
    BY <1>1 DEF SpentIsUsed
  <2>1. /\ activeSchools = ParentSchools
        /\ \A u \in Verifying :
              /\ entered[u] \in Codes /\ candidates[u] = ParentSchools
              /\ verifying[u] = "burning" => sending[entered[u]] = "mailed"
        /\ \A d \in spent :
              sending[d] = "mailed" /\ \A i \in DOMAIN otps : otps[i].code = d => otps[i].used
    BY DEF OtpInv, SpentIsUsed, VerifiesCode
  <2>2. ASSUME NEW u \in Verifying'
        PROVE  /\ candidates'[u] = ParentSchools /\ entered'[u] \in Codes
               /\ verifying'[u] = "burning" => sending[entered'[u]] = "mailed"
    <3>1. CASE u = v
      BY <1>0, <1>5, <2>1, <3>1
    <3>2. CASE u # v
      <4>1. u \in Verifying /\ u \in Verifications
        BY <1>7, <3>2 DEF Verifying
      <4> QED
        BY <1>5, <2>1, <3>2, <4>1
    <3> QED
      BY <3>1, <3>2
  <2> QED
    BY <1>1, <2>1, <2>2 DEF SpentIsUsed
<1>11. ASSUME ~otpRaced', changes = 0
       PROVE  otps # << >> /\ n = LastRow.code /\ Sending = {}
  <2>1. activeSchools = ParentSchools /\ Sending = {} /\ ~otpRaced
    BY <1>6, <1>11 DEF OtpInv, SpentIsUsed
  <2>2. PICK i \in DOMAIN otps : ~otps[i].used
    BY <1>3 DEF Unused
  <2>3. otps # << >> /\ Len(otps) \in DOMAIN otps /\ LastRow \in OtpRows
    BY <2>2, OtpTypes DEF LastRow
  <2>4. ~LastRow.used
    BY <1>11, <2>1, <2>2, <2>3 DEF OtpInv, NewestIsLast, AllUsed
  <2>5. Len(otps) \in Unused(activeSchools)
    BY <2>1, <2>3, <2>4 DEF Unused, LastRow, OtpRows
  <2>6. Max(Unused(activeSchools)) = Len(otps)
    <3>1. Max(Unused(activeSchools)) \in 1 .. Len(otps) /\ Len(otps) \in Nat
      BY <1>4, OtpTypes DEF Unused
    <3> QED
      BY <1>4, <2>5, <3>1
  <2> QED
    BY <1>3, <2>1, <2>3, <2>6 DEF LastRow
<1>12. NewestIsLast'
  <2> SUFFICES ASSUME ~otpRaced', changes = 0 PROVE NewestIsLast'
    BY <1>1 DEF NewestIsLast
  <2>1. otps # << >> /\ n = LastRow.code /\ Sending = {} /\ ~otpRaced
    BY <1>6, <1>11
  <2>2. /\ LastRow.used => AllUsed /\ LastRow.code \in expired \cup spent
        /\ \A u \in Verifications : /\ verifying[u] = "burning" => entered[u] = LastRow.code
                                    /\ verifying[u] = "expiring" => LastRow.code \in expired
    BY <2>1 DEF OtpInv, NewestIsLast
  <2>3. UNCHANGED <<LastRow, AllUsed>>
    BY <1>1 DEF LastRow, AllUsed
  <2>4. \A u \in Verifications : /\ verifying'[u] = "burning" => entered'[u] = LastRow.code
                                 /\ verifying'[u] = "expiring" => LastRow.code \in expired
    BY <1>5, <2>1, <2>2
  <2> QED
    BY <1>1, <1>7, <2>1, <2>2, <2>3, <2>4 DEF NewestIsLast
<1>13. ASSUME NEW u \in Verifications PROVE AcceptsUnspent(u)
  <2> SUFFICES ASSUME verifying[u] = "idle", verifying'[u] = "burning", changes = 0
               PROVE  entered'[u] \notin spent
    BY DEF AcceptsUnspent
  <2>1. u = v /\ entered'[u] = c /\ n = c
    BY <1>5
  <2>2. \E i \in DOMAIN otps : otps[i].code = c /\ ~otps[i].used
    BY <1>3, <1>4, <2>1 DEF Unused
  <2> QED
    BY <2>1, <2>2 DEF OtpInv, SpentIsUsed
<1> QED
  BY <1>8, <1>9, <1>10, <1>12, <1>13 DEF OtpInv

LEMMA MarkingStep ==
    ASSUME OtpInv, NEW v \in Verifications, MarkExpired(v) \/ BurnOtp(v) PROVE OtpInv'
<1>0. /\ verifying \in [Verifications -> {"idle", "expiring", "burning", "burnt", "choosing"}]
      /\ entered \in [Verifications -> Codes \cup {NoCode}] /\ OtpTypeOK
      /\ candidates \in [Verifications -> SUBSET ParentSchools] /\ spent \subseteq Codes
      /\ v \in Verifying
  BY OtpTypes DEF OtpInv, MarkExpired, BurnOtp, Verifying
<1>1. MarkUsed(candidates[v]) /\ UNCHANGED <<activeSchools, sending, todo, expired, otpRaced, changes>>
  BY DEF MarkExpired, BurnOtp, sendVars
<1>2. /\ otps' \in Seq(OtpRows) /\ Len(otps') = Len(otps) /\ DOMAIN otps' = DOMAIN otps
      /\ (otps' = << >> <=> otps = << >>)
      /\ \A i \in DOMAIN otps :
            /\ otps'[i].code = otps[i].code
            /\ otps[i].used => otps'[i].used
            /\ otps[i].school \in candidates[v] => otps'[i].used
  BY <1>1, RowsMarked
<1>3. /\ verifying'[v] \in {"idle", "burnt"}
      /\ \A u \in Verifications : u # v =>
            entered'[u] = entered[u] /\ candidates'[u] = candidates[u] /\ verifying'[u] = verifying[u]
      /\ entered' \in [Verifications -> Codes \cup {NoCode}]
      /\ candidates' \in [Verifications -> SUBSET ParentSchools]
      /\ verifying' \in [Verifications -> {"idle", "expiring", "burning", "burnt", "choosing"}]
  <2>1. CASE MarkExpired(v)
    BY <1>0, <2>1 DEF MarkExpired, EndVerification
  <2>2. CASE BurnOtp(v)
    BY <1>0, <2>2 DEF BurnOtp
  <2> QED
    BY <2>1, <2>2
<1>4. \/ verifying[v] = "burning" /\ spent' = spent \cup {entered[v]}
      \/ verifying[v] = "expiring" /\ spent' = spent
  BY DEF MarkExpired, BurnOtp
<1>5. Sending' = Sending /\ \A u \in Verifying' : u \in Verifying /\ u # v
  BY <1>1, <1>3 DEF Sending, Verifying
<1>6. OtpTypeOK'
  <2>1. spent' \subseteq Codes
    BY <1>0, <1>4 DEF OtpInv, VerifiesCode
  <2> QED
    BY <1>0, <1>1, <1>2, <1>3, <2>1 DEF OtpTypeOK
<1>7. VerifiesCode' /\ MailedHasRow'
  BY <1>1, <1>2, <1>3, <1>5 DEF OtpInv, VerifiesCode, MailedHasRow
<1>8. ASSUME changes = 0 PROVE AllUsed' /\ candidates[v] = ParentSchools
  <2>1. candidates[v] = ParentSchools
    BY <1>0, <1>8 DEF OtpInv, SpentIsUsed
  <2>2. \A i \in DOMAIN otps : otps[i].school \in ParentSchools
    BY OtpTypes DEF OtpRows
  <2> QED
    BY <1>2, <2>1, <2>2 DEF AllUsed
<1>9. SpentIsUsed'
  <2> SUFFICES ASSUME changes = 0 PROVE SpentIsUsed'
    BY <1>1 DEF SpentIsUsed
  <2>1. /\ activeSchools = ParentSchools
        /\ \A u \in Verifying : /\ candidates[u] = ParentSchools
                                /\ verifying[u] = "burning" => sending[entered[u]] = "mailed"
        /\ \A d \in spent : sending[d] = "mailed"
    BY DEF OtpInv, SpentIsUsed
  <2>2. \A d \in spent' : sending[d] = "mailed"
    BY <1>0, <1>4, <2>1
  <2>3. \A u \in Verifying' : /\ candidates'[u] = candidates[u] /\ entered'[u] = entered[u]
                             /\ verifying'[u] = verifying[u]
    BY <1>3, <1>5 DEF Verifying
  <2>4. \A i \in DOMAIN otps' : otps'[i].used
    BY <1>8 DEF AllUsed
  <2> QED
    BY <1>1, <1>5, <2>1, <2>2, <2>3, <2>4 DEF SpentIsUsed
<1>10. NewestIsLast'
  <2> SUFFICES ASSUME ~otpRaced, changes = 0 PROVE NewestIsLast'
    BY <1>1 DEF NewestIsLast
  <2>1. /\ Sending = {} /\ otps # << >>
        /\ LastRow.used => AllUsed /\ LastRow.code \in expired \cup spent
        /\ \A u \in Verifications : /\ verifying[u] = "burning" => entered[u] = LastRow.code
                                    /\ verifying[u] = "expiring" => LastRow.code \in expired
    BY <1>0 DEF OtpInv, NewestIsLast
  <2>2. LastRow'.code = LastRow.code
    BY <1>2, <2>1, OtpTypes DEF LastRow
  <2>3. LastRow'.code \in expired' \cup spent'
    BY <1>1, <1>4, <2>1, <2>2
  <2>4. \A u \in Verifications : /\ verifying'[u] = "burning" => entered'[u] = LastRow'.code
                                 /\ verifying'[u] = "expiring" => LastRow'.code \in expired'
    BY <1>1, <1>3, <2>1, <2>2
  <2> QED
    BY <1>2, <1>5, <1>8, <2>1, <2>3, <2>4 DEF NewestIsLast
<1> QED
  BY <1>6, <1>7, <1>9, <1>10 DEF OtpInv

\* Steps that leave codes and rows alone, and no more verifications at work.
LEMMA ChoosingStep ==
    ASSUME OtpInv, NEW v \in Verifications,
           \/ OfferSchools(v) \/ AbandonChoice(v)
           \/ \E s \in ParentSchools :
                 SelectTenant(v, s) \/ \E named \in BOOLEAN : OpenSession(v, s, named)
    PROVE  OtpInv'
<1>0. /\ verifying \in [Verifications -> {"idle", "expiring", "burning", "burnt", "choosing"}]
      /\ entered \in [Verifications -> Codes \cup {NoCode}] /\ OtpTypeOK
      /\ candidates \in [Verifications -> SUBSET ParentSchools]
  BY OtpTypes DEF OtpInv
<1>1. /\ \/ /\ verifying' = [verifying EXCEPT ![v] = "idle"]
            /\ entered' = [entered EXCEPT ![v] = NoCode] /\ candidates' = [candidates EXCEPT ![v] = {}]
         \/ /\ verifying' = [verifying EXCEPT ![v] = "choosing"]
            /\ entered' = entered /\ candidates' = candidates
      /\ UNCHANGED <<otps, activeSchools, sending, todo, expired, spent, otpRaced, changes>>
  BY DEF OfferSchools, AbandonChoice, SelectTenant, OpenSession, EndVerification, sendVars
<1>2. /\ verifying'[v] \in {"idle", "choosing"}
      /\ \A u \in Verifications : u # v =>
            entered'[u] = entered[u] /\ candidates'[u] = candidates[u] /\ verifying'[u] = verifying[u]
      /\ entered' \in [Verifications -> Codes \cup {NoCode}]
      /\ candidates' \in [Verifications -> SUBSET ParentSchools]
      /\ verifying' \in [Verifications -> {"idle", "expiring", "burning", "burnt", "choosing"}]
  BY <1>0, <1>1
<1>3. /\ UNCHANGED <<Sending, LastRow, AllUsed>>
      /\ \A u \in Verifying' : /\ u \in Verifying /\ u \in Verifications /\ u # v
                               /\ entered'[u] = entered[u] /\ candidates'[u] = candidates[u]
                               /\ verifying'[u] = verifying[u]
  BY <1>1, <1>2 DEF Sending, Verifying, LastRow, AllUsed
<1>4. OtpTypeOK'
  BY <1>0, <1>1, <1>2 DEF OtpTypeOK
<1>5. VerifiesCode' /\ MailedHasRow' /\ SpentIsUsed'
  BY <1>1, <1>3 DEF OtpInv, VerifiesCode, MailedHasRow, SpentIsUsed
<1>6. NewestIsLast'
  BY <1>1, <1>2, <1>3 DEF OtpInv, NewestIsLast
<1> QED
  BY <1>4, <1>5, <1>6 DEF OtpInv

LEMMA SwitchParentStep ==
    ASSUME OtpInv, NEW s \in ParentSchools, SwitchParent(s) PROVE OtpInv'
<1>0. changes \in Nat /\ activeSchools \subseteq ParentSchools /\ OtpTypeOK
  BY OtpTypes DEF OtpInv
<1>1. /\ changes < MaxSwitchings /\ changes' = changes + 1
      /\ activeSchools' \in {activeSchools \ {s}, activeSchools \cup {s}}
      /\ UNCHANGED <<otps, sending, todo, expired, verifying, entered, candidates, spent, otpRaced>>
  BY DEF SwitchParent, sendVars, verifyVars
<1>2. changes' # 0 /\ changes' \in 0 .. MaxSwitchings
  BY <1>0, <1>1, ParentOtpAssumption
<1>3. OtpTypeOK'
  BY <1>0, <1>1, <1>2 DEF OtpTypeOK
<1>4. VerifiesCode' /\ MailedHasRow'
  BY <1>1 DEF OtpInv, VerifiesCode, MailedHasRow, Verifying
<1> QED
  BY <1>2, <1>3, <1>4 DEF OtpInv, SpentIsUsed, NewestIsLast

LEMMA OtpInit == InitOtp => OtpInv
<1> SUFFICES ASSUME InitOtp PROVE OtpInv
  OBVIOUS
<1>1. Verifying = {} /\ \A c \in Codes : sending[c] = "new"
  BY DEF InitOtp, Verifying
<1>2. OtpTypeOK
  <2>1. otps \in Seq(OtpRows)
    BY EmptySeq DEF InitOtp
  <2>2. 0 \in 0 .. MaxSwitchings
    BY ParentOtpAssumption
  <2> QED
    BY <2>1, <2>2 DEF InitOtp, OtpTypeOK, CodeStages
<1>3. VerifiesCode /\ MailedHasRow /\ NewestIsLast
  BY <1>1 DEF InitOtp, VerifiesCode, MailedHasRow, NewestIsLast, Issued
<1>4. SpentIsUsed
  BY <1>1 DEF InitOtp, SpentIsUsed
<1> QED
  BY <1>2, <1>3, <1>4 DEF OtpInv

LEMMA OtpStep ==
    OtpInv /\ [NextOtp]_otpVars =>
        OtpInv' /\ [\A v \in Verifications : AcceptsUnspent(v)]_otpVars
<1> SUFFICES ASSUME OtpInv, [NextOtp]_otpVars
             PROVE  OtpInv' /\ [\A v \in Verifications : AcceptsUnspent(v)]_otpVars
  OBVIOUS
<1>1. ASSUME \A v \in Verifications : verifying'[v] = "burning" => verifying[v] = "burning"
      PROVE  \A v \in Verifications : AcceptsUnspent(v)
  BY <1>1 DEF AcceptsUnspent
<1>2. ASSUME NEW c \in Codes, \/ \E S \in SUBSET ParentSchools : SendOtp(c, S)
                              \/ \E s \in ParentSchools : MarkOldUsed(c, s) \/ InsertOtp(c, s)
                              \/ OtpExpires(c) \/ \E delivered \in BOOLEAN : MailOtp(c, delivered)
      PROVE  OtpInv' /\ UNCHANGED verifying
  <2>1. OtpInv'
    BY <1>2, SendOtpStep, MarkOldUsedStep, InsertOtpStep, MailOtpStep, OtpExpiresStep
  <2>2. UNCHANGED verifying
    BY <1>2 DEF SendOtp, MarkOldUsed, InsertOtp, MailOtp, OtpExpires, verifyVars
  <2> QED
    BY <2>1, <2>2
<1>3. ASSUME NEW v \in Verifications, NEW c \in Codes, NEW w \in Spellings, ReadOtp(v, c, w)
      PROVE  OtpInv' /\ \A u \in Verifications : AcceptsUnspent(u)
  BY <1>3, ReadOtpStep
<1>4. ASSUME NEW v \in Verifications,
             \/ MarkExpired(v) \/ BurnOtp(v) \/ OfferSchools(v) \/ AbandonChoice(v)
             \/ \E s \in ParentSchools :
                   SelectTenant(v, s) \/ \E named \in BOOLEAN : OpenSession(v, s, named)
      PROVE  OtpInv' /\ \A u \in Verifications : verifying'[u] = "burning" => verifying[u] = "burning"
  <2>1. OtpInv'
    BY <1>4, MarkingStep, ChoosingStep
  <2>2. verifying \in [Verifications -> {"idle", "expiring", "burning", "burnt", "choosing"}]
    BY OtpTypes
  <2>3. \E x \in {"idle", "burnt", "choosing"} : verifying' = [verifying EXCEPT ![v] = x]
    BY <1>4 DEF MarkExpired, BurnOtp, OfferSchools, AbandonChoice, SelectTenant, OpenSession,
                EndVerification
  <2> QED
    BY <2>1, <2>2, <2>3
<1>5. ASSUME NEW s \in ParentSchools, SwitchParent(s) PROVE OtpInv' /\ UNCHANGED verifying
  BY <1>5, SwitchParentStep DEF SwitchParent, verifyVars
<1>6. CASE UNCHANGED otpVars
  <2>1. UNCHANGED <<otps, activeSchools, sending, todo, expired, verifying, entered, candidates,
                    spent, otpRaced, changes>>
    BY <1>6 DEF otpVars, sendVars, verifyVars
  <2>2. UNCHANGED <<Sending, Verifying, LastRow, AllUsed>>
    BY <2>1 DEF Sending, Verifying, LastRow, AllUsed
  <2>3. OtpTypeOK'
    BY <2>1 DEF OtpInv, OtpTypeOK
  <2>4. VerifiesCode' /\ MailedHasRow' /\ SpentIsUsed' /\ NewestIsLast'
    BY <2>1, <2>2 DEF OtpInv, VerifiesCode, MailedHasRow, SpentIsUsed, NewestIsLast
  <2> QED
    BY <1>6, <2>3, <2>4 DEF OtpInv
<1> QED
  BY <1>1, <1>2, <1>3, <1>4, <1>5, <1>6 DEF NextOtp

LEMMA OtpAlways ==
    SpecOtp => []OtpInv /\ [][\A v \in Verifications : AcceptsUnspent(v)]_otpVars
BY OtpInit, OtpStep, PTL DEF SpecOtp

\* The rows and what the requests hold in memory keep their types; a code is
\* being sent as long as there are schools it is yet to be written for.
THEOREM OtpTypeCorrect == SpecOtp => []OtpTypeOK
BY OtpAlways, PTL DEF OtpInv

\* The code mailed last is accepted until it is used or expires.
THEOREM LatestAccepted == SpecOtp => []LatestCodeWorks
<1>1. OtpInv => LatestCodeWorks
  <2> SUFFICES ASSUME OtpInv, ~otpRaced, changes = 0, Sending = {}, Verifying = {},
                      NEW c \in Codes, LastMailed(c), c \notin expired \cup spent
               PROVE  NewestCode(activeSchools, Stored) = c
    BY DEF LatestCodeWorks
  <2>1. PICK i \in DOMAIN otps : otps[i].code = c
    BY DEF LastMailed, OtpInv, MailedHasRow, Issued
  <2>2. /\ otps # << >> /\ Len(otps) \in DOMAIN otps /\ Len(otps) \in Nat
        /\ DOMAIN otps = 1 .. Len(otps) /\ \A j \in DOMAIN otps : otps[j] \in OtpRows
    BY <2>1, OtpTypes
  <2>3. LastRow.code = c
    <3> SUFFICES ASSUME LastRow.code # c PROVE FALSE
      OBVIOUS
    <3>1. PICK j \in DOMAIN otps : j > Len(otps)
      BY <2>2 DEF LastMailed, LastRow
    <3> QED
      BY <2>2, <3>1
  <2>4. ~LastRow.used
    BY <2>2, <2>3 DEF OtpInv, NewestIsLast
  <2>5. Len(otps) \in Unused(activeSchools)
    BY <2>2, <2>4 DEF OtpInv, SpentIsUsed, Unused, LastRow, OtpRows
  <2>6. Max(Unused(activeSchools)) = Len(otps)
    <3>1. Unused(activeSchools) \subseteq 1 .. Len(otps)
      BY <2>2 DEF Unused
    <3>2. Unused(activeSchools) \subseteq Nat /\ \A j \in Unused(activeSchools) : j <= Len(otps)
      BY <2>2, <3>1
    <3>3. /\ Max(Unused(activeSchools)) \in Unused(activeSchools)
          /\ \A j \in Unused(activeSchools) : j <= Max(Unused(activeSchools))
      BY <2>2, <2>5, <3>2, MaxOfBounded
    <3> QED
      BY <2>2, <2>5, <3>1, <3>3
  <2> QED
    BY <2>3, <2>5, <2>6 DEF NewestCode, LastRow
<1> QED
  BY <1>1, OtpAlways, PTL

\* "Burn the OTP for every tenant it was issued to".
THEOREM UsedCodesAreDead == SpecOtp => CodeDiesWithItsUse
BY OtpAlways, PTL DEF CodeDiesWithItsUse
=============================================================================
