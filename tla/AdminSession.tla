---------------------------- MODULE AdminSession ----------------------------
(***************************************************************************)
(* The session of one administrator: the tabs of a browser, which share    *)
(* the tokens in localStorage (web/admin/src/lib/api-client.ts and         *)
(* features/auth/services/auth.service.ts), and refreshTokens of the API   *)
(* (auth.service.ts).  A request that is answered 401 makes its tab renew  *)
(* the tokens, once: the requests that fail meanwhile wait in a queue.     *)
(*                                                                         *)
(* Tokens are numbered.  The API stores a bcrypt hash of the refresh       *)
(* token; bcrypt reads 72 bytes, which the tokens of one row share, so     *)
(* every token of the row matches until the hash is cleared.               *)
(***************************************************************************)
EXTENDS Naturals

CONSTANTS
    Tabs,
    Requests,      \* the requests the pages send
    TabOf,         \* the tab each of them is sent from
    MaxTokens      \* bound: pairs of tokens that may be issued

ASSUME SessionAssumption == TabOf \in [Requests -> Tabs] /\ MaxTokens \in Nat

NoToken == 0
Tokens == 1 .. MaxTokens

VARIABLES
    stored,            \* localStorage: authToken and refreshToken, of one pair
    issued,            \* pairs of tokens issued so far
    stale,             \* the access tokens that have expired
    hash,              \* admins.refresh_token_hash: the token it was made from
    progress,          \* how far each request is
    carried,           \* the access token, or the refresh token, it sent
    retried,           \* _retry
    isRefreshing,      \* per tab
    signedOut,         \* did the last logout, and no sign-in, follow? (history)
    logoutCrossed,     \* was a renewal in progress at that logout? (history)
    revoked,           \* was the hash cleared, or an answer lost? (history)
    thrownOut          \* did a failed renewal clear the tokens? (history)

browserVars == <<progress, carried, retried, isRefreshing>>
sessionHistory == <<signedOut, logoutCrossed, revoked, thrownOut>>
adminSessionVars == <<stored, issued, stale, hash, browserVars, sessionHistory>>

Renewing == {"asking", "checked", "stored"}

SessionTypeOK ==
    /\ stored \in Tokens \cup {NoToken}
    /\ issued \in 0 .. MaxTokens
    /\ stale \subseteq 1 .. issued
    /\ hash \in Tokens \cup {NoToken}
    /\ progress \in [Requests -> {"idle", "sent", "unauthorized", "queued"} \cup Renewing]
    /\ carried \in [Requests -> Tokens \cup {NoToken}]
    /\ \A q \in Requests : carried[q] # NoToken <=> progress[q] \in {"sent"} \cup Renewing
    /\ retried \in [Requests -> BOOLEAN]
    /\ isRefreshing \in [Tabs -> BOOLEAN]
    /\ signedOut \in BOOLEAN /\ logoutCrossed \in BOOLEAN
    /\ revoked \in BOOLEAN /\ thrownOut \in BOOLEAN

InitSession ==
    /\ stored = NoToken
    /\ issued = 0
    /\ stale = {}
    /\ hash = NoToken
    /\ progress = [q \in Requests |-> "idle"]
    /\ carried = [q \in Requests |-> NoToken]
    /\ retried = [q \in Requests |-> FALSE]
    /\ isRefreshing = [t \in Tabs |-> FALSE]
    /\ signedOut = FALSE /\ logoutCrossed = FALSE
    /\ revoked = FALSE /\ thrownOut = FALSE

InTab(t) == {q \in Requests : TabOf[q] = t}

-----------------------------------------------------------------------------
(* Signing in and out.                                                     *)
\* persistTokens, after issueTokens stored the hash.
SignIn ==
    /\ stored = NoToken
    /\ issued < MaxTokens
    /\ issued' = issued + 1
    /\ stored' = issued' /\ hash' = issued'
    /\ signedOut' = FALSE /\ logoutCrossed' = FALSE /\ revoked' = FALSE /\ thrownOut' = FALSE
    /\ UNCHANGED <<stale, browserVars>>

\* Mutant of Logout: the page stays, and so do its requests.
LogoutInPlace(t) ==
    /\ stored # NoToken
    /\ stored' = NoToken
    /\ signedOut' = TRUE
    /\ logoutCrossed' = \E q \in Requests \ InTab(t) : progress[q] \in Renewing
    /\ UNCHANGED <<issued, stale, hash, browserVars, revoked, thrownOut>>

\* logout of AuthContext: the storage is cleared and the tab loads anew, so
\* its requests are dropped.  The API is not told.
Logout(t) ==
    /\ stored # NoToken
    /\ stored' = NoToken
    /\ progress' = [q \in Requests |-> IF TabOf[q] = t THEN "idle" ELSE progress[q]]
    /\ carried' = [q \in Requests |-> IF TabOf[q] = t THEN NoToken ELSE carried[q]]
    /\ retried' = [q \in Requests |-> TabOf[q] # t /\ retried[q]]
    /\ isRefreshing' = [isRefreshing EXCEPT ![t] = FALSE]
    /\ signedOut' = TRUE
    /\ logoutCrossed' = \E q \in Requests \ InTab(t) : progress[q] \in Renewing
    /\ UNCHANGED <<issued, stale, hash, revoked, thrownOut>>

\* completePasswordReset, or an administrator is removed.
ClearHash ==
    /\ hash # NoToken
    /\ hash' = NoToken
    /\ revoked' = TRUE
    /\ UNCHANGED <<stored, issued, stale, browserVars, signedOut, logoutCrossed, thrownOut>>

AccessExpires(n) ==
    /\ n <= issued /\ n \notin stale
    /\ stale' = stale \cup {n}
    /\ UNCHANGED <<stored, issued, hash, browserVars, sessionHistory>>

-----------------------------------------------------------------------------
(* One request.                                                            *)

Send(q) ==
    /\ progress[q] = "idle"
    /\ stored # NoToken
    /\ progress' = [progress EXCEPT ![q] = "sent"]
    /\ carried' = [carried EXCEPT ![q] = stored]
    /\ UNCHANGED <<stored, issued, stale, hash, retried, isRefreshing, sessionHistory>>

\* The request ends, and the page may send another.
Settle(q) ==
    /\ progress' = [progress EXCEPT ![q] = "idle"]
    /\ carried' = [carried EXCEPT ![q] = NoToken]
    /\ retried' = [retried EXCEPT ![q] = FALSE]

\* Success, or a 401 that was met before: the interceptor lets it through.
Answer(q) ==
    /\ progress[q] = "sent"
    /\ carried[q] \notin stale \/ retried[q]
    /\ Settle(q)
    /\ UNCHANGED <<stored, issued, stale, hash, isRefreshing, sessionHistory>>

\* The first 401 of this request.
Unauthorized(q) ==
    /\ progress[q] = "sent"
    /\ carried[q] \in stale
    /\ ~retried[q]
    /\ progress' = [progress EXCEPT ![q] = "unauthorized"]
    /\ carried' = [carried EXCEPT ![q] = NoToken]
    /\ UNCHANGED <<stored, issued, stale, hash, retried, isRefreshing, sessionHistory>>

\* The interceptor meets a 401: the tab is renewing the tokens already.
Queue(q) ==
    /\ progress[q] = "unauthorized"
    /\ isRefreshing[TabOf[q]]
    /\ progress' = [progress EXCEPT ![q] = "queued"]
    /\ UNCHANGED <<stored, issued, stale, hash, carried, retried, isRefreshing, sessionHistory>>

\* The requests that a renewal by q ends: its own and the queue of its tab.
Waiting(q) == {p \in InTab(TabOf[q]) : p = q \/ progress[p] = "queued"}

\* All are sent again with the new token.
ResendAll(q, token) ==
    /\ progress' = [p \in Requests |-> IF p \in Waiting(q) THEN "sent" ELSE progress[p]]
    /\ carried' = [p \in Requests |-> IF p \in Waiting(q) THEN token ELSE carried[p]]
    /\ isRefreshing' = [isRefreshing EXCEPT ![TabOf[q]] = FALSE]
    /\ UNCHANGED retried

\* All are rejected.
RejectAll(q) ==
    /\ progress' = [p \in Requests |-> IF p \in Waiting(q) THEN "idle" ELSE progress[p]]
    /\ carried' = [p \in Requests |-> IF p \in Waiting(q) THEN NoToken ELSE carried[p]]
    /\ retried' = [p \in Requests |-> p \notin Waiting(q) /\ retried[p]]
    /\ isRefreshing' = [isRefreshing EXCEPT ![TabOf[q]] = FALSE]

\* Mutant of BeginRefresh: isRefreshing is not set.
BeginRefreshUnmarked(q) ==
    /\ progress[q] = "unauthorized"
    /\ ~isRefreshing[TabOf[q]]
    /\ stored # NoToken
    /\ retried' = [retried EXCEPT ![q] = TRUE]
    /\ progress' = [progress EXCEPT ![q] = "asking"]
    /\ carried' = [carried EXCEPT ![q] = stored]
    /\ UNCHANGED <<stored, issued, stale, hash, isRefreshing, sessionHistory>>

\* Mutant of BeginRefresh: it asks even with nothing stored.
BeginRefreshBlindly(q) ==
    /\ progress[q] = "unauthorized"
    /\ ~isRefreshing[TabOf[q]]
    /\ retried' = [retried EXCEPT ![q] = TRUE]
    /\ progress' = [progress EXCEPT ![q] = "asking"]
    /\ carried' = [carried EXCEPT ![q] = stored]
    /\ isRefreshing' = [isRefreshing EXCEPT ![TabOf[q]] = TRUE]
    /\ UNCHANGED <<stored, issued, stale, hash, sessionHistory>>

\* The first 401 of the tab: refreshAccessToken reads the stored token.
BeginRefresh(q) ==
    /\ progress[q] = "unauthorized"
    /\ ~isRefreshing[TabOf[q]]
    /\ stored # NoToken
    /\ retried' = [retried EXCEPT ![q] = TRUE]
    /\ progress' = [progress EXCEPT ![q] = "asking"]
    /\ carried' = [carried EXCEPT ![q] = stored]
    /\ isRefreshing' = [isRefreshing EXCEPT ![TabOf[q]] = TRUE]
    /\ UNCHANGED <<stored, issued, stale, hash, sessionHistory>>

\* Nothing is stored: the request is rejected.
NothingToRefresh(q) ==
    /\ progress[q] = "unauthorized"
    /\ ~isRefreshing[TabOf[q]]
    /\ stored = NoToken
    /\ RejectAll(q)
    /\ UNCHANGED <<stored, issued, stale, hash, sessionHistory>>

\* Mutant of TokenMatches: the hash tells one token from another.
TokenMatchesExactly(q) == hash = carried[q]

TokenMatches(q) == hash # NoToken

\* refreshTokens: the row is read and the token compared with its hash.
CheckRefresh(q) ==
    /\ progress[q] = "asking"
    /\ TokenMatches(q)
    /\ progress' = [progress EXCEPT ![q] = "checked"]
    /\ UNCHANGED <<stored, issued, stale, hash, carried, retried, isRefreshing, sessionHistory>>

\* issueNewTokenPair: the new hash is stored over whatever is there by now.
RotateToken(q) ==
    /\ progress[q] = "checked"
    /\ issued < MaxTokens
    /\ issued' = issued + 1
    /\ hash' = issued'
    /\ progress' = [progress EXCEPT ![q] = "stored"]
    /\ carried' = [carried EXCEPT ![q] = issued']
    /\ UNCHANGED <<stored, stale, retried, isRefreshing, sessionHistory>>

\* The new pair is written to the storage, and the queue is sent again.
Refreshed(q) ==
    /\ progress[q] = "stored"
    /\ stored' = carried[q]
    /\ ResendAll(q, carried[q])
    /\ UNCHANGED <<issued, stale, hash, sessionHistory>>

\* refreshAccessToken fails: the tokens of all tabs are removed.
GiveUp(q) ==
    /\ stored' = NoToken
    /\ RejectAll(q)
    /\ thrownOut' = (thrownOut \/ (stored # NoToken /\ ~signedOut))
    /\ UNCHANGED <<issued, stale, hash, signedOut, logoutCrossed>>

\* The API answers 401.
RefreshRefused(q) ==
    /\ progress[q] = "asking"
    /\ ~TokenMatches(q)
    /\ GiveUp(q)
    /\ UNCHANGED revoked

\* No answer within the timeout, whatever the API did.
RefreshLost(q) ==
    /\ progress[q] \in Renewing
    /\ revoked' = TRUE
    /\ GiveUp(q)

\* What the browser and the API do by themselves.
Progress(q) ==
    \/ Answer(q) \/ Unauthorized(q) \/ Queue(q) \/ BeginRefresh(q) \/ NothingToRefresh(q)
    \/ CheckRefresh(q) \/ RotateToken(q) \/ Refreshed(q) \/ RefreshRefused(q)
    \/ RefreshLost(q)

NextSession ==
    \/ SignIn \/ ClearHash
    \/ \E t \in Tabs : Logout(t)
    \/ \E n \in Tokens : AccessExpires(n)
    \/ \E q \in Requests : Send(q) \/ Progress(q)

SpecSession == InitSession /\ [][NextSession]_adminSessionVars

-----------------------------------------------------------------------------
(* Properties.                                                             *)

\* A tab whose requests wait in the queue is renewing the tokens, and no tab
\* renews twice at a time: the queue is never stranded.
QueueIsServed ==
    \A t \in Tabs :
        LET renewals == {q \in InTab(t) : progress[q] \in Renewing} IN
          /\ \A p, q \in renewals : p = q
          /\ renewals = {} => \A q \in InTab(t) : progress[q] # "queued"

\* A logout lasts until the next sign-in, unless another tab was renewing
\* the tokens when it happened.
LogoutLasts == signedOut /\ ~logoutCrossed => stored = NoToken

\* Tabs that renew their tokens at the same time do not sign each other out:
\* only a cleared hash, or an answer that never came, does.
OnlyRevocationThrowsOut == thrownOut => revoked
=============================================================================
