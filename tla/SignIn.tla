------------------------------- MODULE SignIn --------------------------------
(***************************************************************************)
(* The pages of one browser tab that sign a user in: login, password       *)
(* reset, accepted invites, and the guard of every other page (routes/,    *)
(* reset-password, invites, route-guards.ts).  Tokens do not age here, and *)
(* what the session is made of is module WebSession.                       *)
(*                                                                         *)
(* A form that is left forgets its fields; the handler that awaits its     *)
(* answer, and the two seconds before an accepted code brings the user     *)
(* home, go on.  A page load, as to a provider and back, ends them.        *)
(***************************************************************************)
EXTENDS Naturals, FiniteSets

CONSTANTS
    Target,     \* pages behind the guard
    Home,       \* "/"
    NoTarget,   \* an undefined redirect
    MaxSent     \* bound on the requests under way

ASSUME SignInAssumption == Home \in Target /\ NoTarget \notin Target /\ MaxSent \in Nat

VARIABLES
    place,      \* the route, with its redirect or, at "home", the page shown
    form,       \* of the route
    cookies,    \* a session is in the cookies
    context,    \* and in the router's context
    posts,      \* requests of the forms under way
    timer,      \* an accepted code will bring the user home
    wanted      \* the page the guard refused, while the user does nothing else

signInVars == <<place, form, cookies, context, posts, timer, wanted>>

(* "local" has a domain no provider lists (checkEmailDomain).              *)
Email == {"empty", "local", "provider"}

Route == {"home", "login", "reset", "code", "invite", "accept", "provider"}
Post == [n : 1 .. MaxSent, at : Route, target : Target \cup {NoTarget},
         email : Email, edited : BOOLEAN, mounted : BOOLEAN]

SignInTypeOK ==
    /\ place \in [at : Route, target : Target \cup {NoTarget}]
    /\ form \in [step : {"first", "password", "success"}, email : Email,
                 edited : BOOLEAN, busy : BOOLEAN]
    /\ cookies \in BOOLEAN /\ context \in BOOLEAN /\ timer \in BOOLEAN
    /\ posts \subseteq Post
    /\ wanted \in Target \cup {NoTarget}

Blank == [step |-> "first", email |-> "empty", edited |-> FALSE, busy |-> FALSE]

SignInInit ==
    /\ place = [at |-> "login", target |-> NoTarget] /\ form = Blank
    /\ cookies = FALSE /\ context = FALSE
    /\ posts = {} /\ timer = FALSE /\ wanted = NoTarget

-----------------------------------------------------------------------------
Enter(route, t) == place' = [at |-> route, target |-> t] /\ form' = Blank

Unmounted(P) == posts' = {[p EXCEPT !.mounted = FALSE] : p \in P}

(* Mutant: the login page is not told where the user comes from.           *)
GuardForgets(t) ==
    IF context' THEN Enter("home", t) /\ wanted' = NoTarget
                ELSE Enter("login", NoTarget) /\ wanted' = t

(* requireAuth.                                                            *)
Guard(t) ==
    IF context' THEN Enter("home", t) /\ wanted' = NoTarget
                ELSE Enter("login", t) /\ wanted' = t

(* Back, forward, or a link to another page behind the guard.              *)
Open(t) ==
    /\ place.at # "provider"
    /\ UNCHANGED <<cookies, context, timer>>
    /\ Guard(t) /\ Unmounted(posts)

(* An address, or a link of a mail.                                        *)
LoadPage ==
    /\ context' = cookies /\ posts' = {} /\ timer' = FALSE
    /\ \/ \E t \in Target : Guard(t)
       \/ \E route \in {"login", "code", "invite", "accept"} :
             Enter(route, NoTarget) /\ wanted' = NoTarget
    /\ UNCHANGED cookies

(* The links between login and password reset: no redirect.                *)
FollowLink ==
    /\ \/ place.at = "login" /\ form.step = "password" /\ Enter("reset", NoTarget)
       \/ place.at = "reset" /\ Enter("login", NoTarget)
    /\ wanted' = NoTarget /\ Unmounted(posts)
    /\ UNCHANGED <<cookies, context, timer>>

LeaveHome ==
    /\ place.at = "home"
    /\ cookies' = FALSE /\ context' = FALSE
    /\ Enter("login", NoTarget) /\ wanted' = NoTarget
    /\ UNCHANGED <<posts, timer>>

-----------------------------------------------------------------------------
ToProvider ==
    /\ Enter("provider", NoTarget) /\ wanted' = NoTarget
    /\ posts' = {} /\ timer' = FALSE
    /\ UNCHANGED <<cookies, context>>

ProviderButton == place.at \in {"login", "invite"} /\ form.step # "success" /\ ToProvider

(* The page /auth/complete, which goes home at once.                       *)
CompleteAuth ==
    /\ place.at = "provider"
    /\ cookies' = TRUE /\ context' = TRUE
    /\ Enter("home", Home)
    /\ UNCHANGED <<posts, timer, wanted>>

TypeEmail(e) ==
    /\ place.at \in {"login", "invite"} /\ ~form.busy /\ form.step # "success"
    /\ form' = [form EXCEPT !.email = e, !.edited = (form.step = "password")]
    /\ UNCHANGED <<place, cookies, context, posts, timer, wanted>>

(* handleContinue.                                                         *)
ContinueLogin ==
    /\ place.at = "login" /\ form.step = "first" /\ form.email # "empty"
    /\ IF form.email = "provider" THEN ToProvider
       ELSE /\ form' = [form EXCEPT !.step = "password"]
            /\ UNCHANGED <<place, cookies, context, posts, timer, wanted>>

Submits(n, busy) ==
    /\ n \notin {p.n : p \in posts} /\ ~form.busy
    /\ posts' = posts \cup {[n |-> n, at |-> place.at, target |-> place.target,
                             email |-> form.email, edited |-> form.edited, mounted |-> TRUE]}
    /\ form' = [form EXCEPT !.busy = busy]
    /\ UNCHANGED <<place, cookies, context, timer, wanted>>

SubmitLogin(n) ==
    /\ place.at = "login" /\ form.step = "password" /\ form.email # "empty"
    /\ Submits(n, TRUE)

SubmitReset(n) == place.at = "reset" /\ form.step = "first" /\ Submits(n, TRUE)

(* A code of six digits and a new password, twice the same.                *)
SubmitCode(n) == place.at = "code" /\ form.step = "first" /\ Submits(n, TRUE)

(* The same for an invite: the code of its mail and the first password.    *)
SubmitAccept(n) == place.at = "accept" /\ form.step = "first" /\ Submits(n, TRUE)

(* Nothing is awaited: the button stays enabled.                           *)
SubmitInvite(n) ==
    /\ place.at = "invite" /\ form.step = "first" /\ form.email # "empty"
    /\ IF form.email = "provider" THEN ToProvider ELSE Submits(n, FALSE)

(* loginLocal: the tokens are stored and the router told of the session.   *)
SignedIn == cookies' = TRUE /\ context' = TRUE

LoginAnswered(p) ==
    /\ p.at = "login"
    /\ SignedIn
    /\ Enter("home", IF p.target = NoTarget THEN Home ELSE p.target)
    /\ wanted' = IF p.mounted THEN wanted ELSE NoTarget
    /\ Unmounted(posts \ {p})
    /\ UNCHANGED timer

ByCode == {"code", "accept"}

(* The success card of the other forms.                                    *)
FormAnswered(p) ==
    /\ p.at # "login"
    /\ form' = IF p.mounted THEN [form EXCEPT !.step = "success", !.busy = FALSE] ELSE form
    /\ posts' = posts \ {p}
    /\ cookies' = (cookies \/ p.at \in ByCode) /\ timer' = (timer \/ p.at \in ByCode)
    /\ UNCHANGED <<place, context, wanted>>

FormFails(p) ==
    /\ form' = IF p.mounted THEN [form EXCEPT !.busy = FALSE] ELSE form
    /\ posts' = posts \ {p}
    /\ UNCHANGED <<place, cookies, context, timer, wanted>>

(* Two seconds after the code was accepted, wherever the user is by then.  *)
TimerFires ==
    /\ timer /\ timer' = FALSE
    /\ context' = cookies
    /\ Guard(Home) /\ Unmounted(posts)
    /\ UNCHANGED cookies

SignInNext ==
    \/ \E t \in Target : Open(t)
    \/ LoadPage \/ FollowLink \/ LeaveHome
    \/ ProviderButton \/ CompleteAuth
    \/ \E e \in Email : TypeEmail(e)
    \/ ContinueLogin
    \/ \E n \in 1 .. MaxSent :
          \/ SubmitLogin(n) \/ SubmitReset(n) \/ SubmitCode(n)
          \/ SubmitInvite(n) \/ SubmitAccept(n)
    \/ \E p \in posts : LoginAnswered(p) \/ FormAnswered(p) \/ FormFails(p)
    \/ TimerFires

-----------------------------------------------------------------------------
(* A page behind the guard is only shown with a session, and after a login *)
(* it is the page that was wanted; no mounted form but the invite's posts  *)
(* twice at once; and a password is never posted for an address that       *)
(* belongs to a provider, unless it was changed next to the password.      *)
(* A late answer or timer moves the user from any page: the first two say  *)
(* where to, not that it may not.                                          *)
SignInHolds ==
    /\ place.at = "home" => context
    /\ place.at = "home" /\ wanted # NoTarget => place.target = wanted
    /\ \A p, q \in posts : p.mounted /\ q.mounted /\ p.at # "invite" => p = q
    /\ \A p \in posts : p.at = "login" /\ p.email = "provider" => p.edited
=============================================================================
