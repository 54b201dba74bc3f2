----------------------------- MODULE WebSession -----------------------------
(***************************************************************************)
(* The session of one browser page: the cookies, the router's session and  *)
(* the calls of web/src/lib/api.ts that refresh the access token when the  *)
(* server answers 403 (web/src/lib/auth-service.ts).                       *)
(*                                                                         *)
(* The page runs on one thread: what a callback does up to its next await  *)
(* is one step, and when a promise settles everything that awaited it runs *)
(* before the next event.  The provider cookie is set and cleared with the *)
(* refresh token, so that the latter stands for both.  A server answers    *)
(* 403 to an expired token, and to a valid one that lacks a right.         *)
(***************************************************************************)
EXTENDS Naturals

CONSTANTS
    Call,       \* calls of fetchApi that may run at the same time
    Page,       \* the caller that is initializeApp
    User,       \* users who sign in at this browser
    Nobody,     \* the user of a session that is not signed in
    NoToken,    \* an absent cookie
    MaxVisits   \* bound: times a user signs in or loads the page again

VARIABLES
    access,     \* cookie of the access token
    refresh,    \* cookie of the refresh token
    session,    \* the user in the router's context
    promise,    \* refreshPromise: null, pending, or settled to false
    call,       \* what each call of fetchApi awaits
    posted,     \* the token of the refresh request under way, by its caller
    loading,    \* initializeApp awaits its refresh
    accepted,   \* an accepted invite or reset has yet to set the session
    visits      \* visits so far

vars == <<access, refresh, session, promise, call, posted, loading, accepted, visits>>

(* "expiring" is the last half minute of a token: the server still takes   *)
(* it, TOKEN_EXPIRY_BUFFER_MS makes the page call it expired.              *)
Token == [user : User, age : {"fresh", "expiring", "expired"}]
Fresh(u) == [user |-> u, age |-> "fresh"]

ASSUME WebSessionAssumption ==
    /\ Page \notin Call
    /\ Nobody \notin User
    /\ NoToken \notin Token
    /\ MaxVisits \in Nat

Caller == Call \cup {Page}

TypeOK ==
    /\ access \in Token \cup {NoToken}
    /\ refresh \in Token \cup {NoToken}
    /\ session \in User \cup {Nobody}
    /\ promise \in {"null", "pending", "false"}
    /\ call \in [Call -> {"idle", "sent", "waiting", "resent"}]
    /\ posted \in [Caller -> Token \cup {NoToken}]
    /\ loading \in BOOLEAN
    /\ accepted \in BOOLEAN
    /\ visits \in 0 .. MaxVisits

Init ==
    /\ access = NoToken
    /\ refresh = NoToken
    /\ session = Nobody
    /\ promise = "null"
    /\ call = [c \in Call |-> "idle"]
    /\ posted = [c \in Caller |-> NoToken]
    /\ loading = FALSE
    /\ accepted = FALSE
    /\ visits = 0

-----------------------------------------------------------------------------
SetAll(u) == access' = Fresh(u) /\ refresh' = Fresh(u)
ClearAll == access' = NoToken /\ refresh' = NoToken

CurrentSession ==
    IF access # NoToken /\ refresh # NoToken /\ access.age = "fresh" THEN access.user ELSE Nobody

Visit ==
    /\ visits < MaxVisits
    /\ visits' = visits + 1

(* loginWithCredentials has its answer.                                    *)
Login(u) ==
    /\ ~loading
    /\ Visit
    /\ SetAll(u)
    /\ session' = u
    /\ UNCHANGED <<promise, call, posted, loading, accepted>>

(* An accepted invite or a password reset sets the cookies, and the        *)
(* session two seconds later.                                              *)
Accept(u) ==
    /\ ~loading
    /\ Visit
    /\ SetAll(u)
    /\ accepted' = TRUE
    /\ UNCHANGED <<session, promise, call, posted, loading>>

RefreshSession ==
    /\ accepted
    /\ accepted' = FALSE
    /\ session' = CurrentSession
    /\ UNCHANGED <<access, refresh, promise, call, posted, loading, visits>>

Logout ==
    /\ session # Nobody
    /\ ClearAll
    /\ session' = Nobody
    /\ UNCHANGED <<promise, call, posted, loading, accepted, visits>>

(* The page is loaded anew: its promise, its calls and its timers are gone *)
(* and the answer to a refresh under way no longer reaches the cookies.    *)
NewPage ==
    /\ call' = [c \in Call |-> "idle"]
    /\ accepted' = FALSE

(* An OpenID provider sends the browser back with all the cookies set.     *)
Return(u) ==
    /\ Visit
    /\ NewPage
    /\ SetAll(u)
    /\ session' = u
    /\ promise' = "null"
    /\ posted' = [c \in Caller |-> NoToken]
    /\ loading' = FALSE

LoadRefreshes ==
    /\ access # NoToken
    /\ refresh # NoToken
    /\ access.age # "fresh"

Load ==
    /\ Visit
    /\ NewPage
    /\ loading' = LoadRefreshes
    /\ promise' = IF LoadRefreshes THEN "pending" ELSE "null"
    /\ posted' = [c \in Caller |-> IF c = Page /\ LoadRefreshes THEN refresh ELSE NoToken]
    /\ session' = CurrentSession
    /\ UNCHANGED <<access, refresh>>

AccessAges ==
    /\ access # NoToken
    /\ \/ access.age = "fresh" /\ access' = [access EXCEPT !.age = "expiring"]
       \/ access.age = "expiring" /\ access' = [access EXCEPT !.age = "expired"]
    /\ UNCHANGED <<refresh, session, promise, call, posted, loading, accepted, visits>>

RefreshExpires ==
    /\ refresh # NoToken
    /\ refresh.age # "expired"
    /\ refresh' = [refresh EXCEPT !.age = "expired"]
    /\ UNCHANGED <<access, session, promise, call, posted, loading, accepted, visits>>

-----------------------------------------------------------------------------
(* Any page that is rendered, those of the sign-in too.                    *)
Send(c) ==
    /\ ~loading
    /\ call[c] = "idle"
    /\ call' = [call EXCEPT ![c] = "sent"]
    /\ UNCHANGED <<access, refresh, session, promise, posted, loading, accepted, visits>>

(* Any answer but a first 403 ends the call.                               *)
Answer(c) ==
    /\ call[c] \in {"sent", "resent"}
    /\ call' = [call EXCEPT ![c] = "idle"]
    /\ UNCHANGED <<access, refresh, session, promise, posted, loading, accepted, visits>>

(* Mutant: a refresh under way counts as refused.                          *)
RefusedNoWait(c) ==
    /\ call[c] = "sent"
    /\ promise = "pending"
    /\ ClearAll
    /\ call' = [call EXCEPT ![c] = "idle"]
    /\ UNCHANGED <<session, promise, posted, loading, accepted, visits>>

(* A 403: the call joins the refresh under way, or starts one, or, with no *)
(* refresh token, settles the promise to false and logs out.  The finally  *)
(* of refreshAccessToken runs before its promise is assigned when nothing  *)
(* is awaited in between, so the settled promise stays assigned.           *)
RefusedWaits(c) ==
    /\ call[c] = "sent"
    /\ promise = "pending"
    /\ call' = [call EXCEPT ![c] = "waiting"]
    /\ UNCHANGED <<access, refresh, session, promise, posted, loading, accepted, visits>>

(* Mutant: no look at the promise.                                         *)
MayAlwaysRefresh == promise \in {"null", "pending"}

MayRefresh == promise = "null"

RefusedRefreshes(c) ==
    /\ call[c] = "sent"
    /\ MayRefresh
    /\ refresh # NoToken
    /\ promise' = "pending"
    /\ posted' = [posted EXCEPT ![c] = refresh]
    /\ call' = [call EXCEPT ![c] = "waiting"]
    /\ UNCHANGED <<access, refresh, session, loading, accepted, visits>>

RefusedEnds(c) ==
    /\ call[c] = "sent"
    /\ \/ promise = "false"
       \/ promise = "null" /\ refresh = NoToken
    /\ promise' = "false"
    /\ ClearAll
    /\ call' = [call EXCEPT ![c] = "idle"]
    /\ UNCHANGED <<session, posted, loading, accepted, visits>>

(* Mutant: what is sent again is retried like the first time.              *)
ResendWithRetry == [c \in Call |-> IF call[c] = "waiting" THEN "sent" ELSE call[c]]

Resend == [c \in Call |-> IF call[c] = "waiting" THEN "resent" ELSE call[c]]

(* Mutant: the promise is not cleared after a success.                     *)
RefreshedKeepsPromise(c) ==
    /\ posted[c] # NoToken
    /\ posted[c].age # "expired"
    /\ access' = Fresh(posted[c].user)
    /\ promise' = "true"
    /\ posted' = [posted EXCEPT ![c] = NoToken]
    /\ call' = Resend
    /\ session' = IF c = Page THEN posted[c].user ELSE session
    /\ loading' = (loading /\ c # Page)
    /\ UNCHANGED <<refresh, accepted, visits>>

(* The refresh succeeds: every call that waited is sent again.             *)
Refreshed(c) ==
    /\ posted[c] # NoToken
    /\ posted[c].age # "expired"
    /\ access' = Fresh(posted[c].user)
    /\ promise' = "null"
    /\ posted' = [posted EXCEPT ![c] = NoToken]
    /\ call' = Resend
    /\ session' = IF c = Page THEN posted[c].user ELSE session
    /\ loading' = (loading /\ c # Page)
    /\ UNCHANGED <<refresh, accepted, visits>>

(* It fails: every call that waited logs out, the loading page does not.   *)
RefreshFails(c) ==
    /\ posted[c] # NoToken
    /\ promise' = "null"
    /\ posted' = [posted EXCEPT ![c] = NoToken]
    /\ call' = [d \in Call |-> IF call[d] = "waiting" THEN "idle" ELSE call[d]]
    /\ IF c = Page THEN UNCHANGED <<access, refresh>> ELSE ClearAll
    /\ loading' = (loading /\ c # Page)
    /\ UNCHANGED <<session, accepted, visits>>

-----------------------------------------------------------------------------
Proceed(c) ==
    \/ Answer(c)
    \/ RefusedWaits(c) \/ RefusedRefreshes(c) \/ RefusedEnds(c)

Settle(c) == Refreshed(c) \/ RefreshFails(c)

Next ==
    \/ \E u \in User : Login(u) \/ Accept(u) \/ Return(u)
    \/ RefreshSession \/ Logout \/ Load
    \/ AccessAges \/ RefreshExpires
    \/ \E c \in Call : Send(c) \/ Proceed(c)
    \/ \E c \in Caller : Settle(c)

Spec == Init /\ [][Next]_vars

(* The browser ends every request, with an answer or an error.             *)
Fairness ==
    /\ \A c \in Call : WF_vars(Proceed(c))
    /\ \A c \in Caller : WF_vars(Settle(c))

FairSpec == Spec /\ Fairness

-----------------------------------------------------------------------------
(* Properties.                                                             *)

(* One refresh at a time, and a call waits for a refresh only while there  *)
(* is one: the single flight of refreshAccessToken loses no caller.        *)
SingleFlight ==
    /\ \A c, d \in Caller : posted[c] # NoToken /\ posted[d] # NoToken => c = d
    /\ (promise = "pending") <=> (\E c \in Caller : posted[c] # NoToken)
    /\ (\E c \in Call : call[c] = "waiting") => promise = "pending"

(* A call of fetchApi comes to an end: it is retried once and no more, and *)
(* no awaited promise stays unsettled.                                     *)
CallEnds == \A c \in Call : call[c] # "idle" ~> call[c] = "idle"

(* A call whose refresh the server refused, or never answered.             *)
RefreshLost(c) ==
    /\ posted[c] # NoToken /\ posted'[c] = NoToken
    /\ call[c] = "waiting" /\ call'[c] = "idle"

(* A call answered 403 that finds the promise settled: an earlier call had *)
(* no refresh token to post.                                               *)
FoundSettled(c) == promise = "false" /\ call[c] = "sent" /\ call'[c] = "idle"

(* The refresh token is dropped in three ways only: the user logs out; the *)
(* refresh of a call fails, be it one posted for an earlier user; or a     *)
(* call is answered 403 while the promise is left settled, whether its     *)
(* token was good or not (RefreshIsTried).  No age, no page that loads, no *)
(* refresh of a page that loads, no sign-in, no answer to a call that was  *)
(* sent again and no call that meets a refresh under way takes it away.    *)
DroppedForCause ==
    [][ refresh # NoToken /\ refresh' = NoToken
        => \/ session # Nobody /\ session' = Nobody
           \/ \E c \in Call : RefreshLost(c) \/ FoundSettled(c) ]_vars

(* The promise is cleared after completion (auth-service.ts:208): a valid  *)
(* refresh token is not dropped by a call that never posted it.            *)
RefreshIsTried ==
    [][ \A c \in Call :
          call[c] = "sent" /\ call'[c] = "idle" /\ refresh # NoToken
          => refresh' # NoToken ]_vars
=============================================================================
