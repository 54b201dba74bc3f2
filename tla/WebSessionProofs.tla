-------------------------- MODULE WebSessionProofs --------------------------
(***************************************************************************)
(* The single flight of refreshAccessToken, for any number of concurrent   *)
(* calls.  TypeOK and SingleFlight together are inductive.                 *)
(***************************************************************************)
EXTENDS WebSession, TLAPS

USE WebSessionAssumption DEF WebSessionAssumption

LEMMA FreshIsToken == \A u \in User : Fresh(u) \in Token /\ Fresh(u) # NoToken
BY DEF Fresh, Token

LEMMA SessionIsUser == TypeOK => CurrentSession \in User \cup {Nobody}
BY DEF TypeOK, CurrentSession, Token

LEMMA TypeInit == Init => TypeOK
<1> SUFFICES ASSUME Init PROVE TypeOK
    OBVIOUS
<1>1. visits \in 0 .. MaxVisits
    BY DEF Init
<1> QED
    BY <1>1 DEF Init, TypeOK

(* Every step keeps the types.                                             *)
LEMMA TypeStep == TypeOK /\ [Next]_vars => TypeOK'
<1> SUFFICES ASSUME TypeOK, [Next]_vars PROVE TypeOK'
    OBVIOUS
<1> USE DEF TypeOK
<1>1. ASSUME NEW u \in User, Login(u) \/ Accept(u) \/ Return(u) PROVE TypeOK'
  <2>1. visits' \in 0 .. MaxVisits
      BY <1>1 DEF Login, Accept, Return, Visit
  <2>2. /\ access' \in Token \cup {NoToken}
        /\ refresh' \in Token \cup {NoToken}
      BY <1>1, FreshIsToken DEF Login, Accept, Return, SetAll
  <2>3. session' \in User \cup {Nobody} /\ promise' \in {"null", "pending", "false"}
      BY <1>1 DEF Login, Accept, Return
  <2>4. /\ call' \in [Call -> {"idle", "sent", "waiting", "resent"}]
        /\ posted' \in [Caller -> Token \cup {NoToken}]
      BY <1>1 DEF Login, Accept, Return, NewPage
  <2>5. loading' \in BOOLEAN /\ accepted' \in BOOLEAN
      BY <1>1 DEF Login, Accept, Return, NewPage
  <2> QED
      BY <2>1, <2>2, <2>3, <2>4, <2>5
<1>2. ASSUME RefreshSession \/ Logout PROVE TypeOK'
    BY <1>2, SessionIsUser DEF RefreshSession, Logout, ClearAll
<1>3. ASSUME Load PROVE TypeOK'
  <2>1. visits' \in 0 .. MaxVisits
      BY <1>3 DEF Load, Visit
  <2>2. /\ access' \in Token \cup {NoToken}
        /\ refresh' \in Token \cup {NoToken}
        /\ promise' \in {"null", "pending", "false"}
      BY <1>3 DEF Load
  <2>3. session' \in User \cup {Nobody}
      BY <1>3, SessionIsUser DEF Load
  <2>4. /\ call' \in [Call -> {"idle", "sent", "waiting", "resent"}]
        /\ posted' \in [Caller -> Token \cup {NoToken}]
      BY <1>3 DEF Load, NewPage
  <2>5. loading' \in BOOLEAN /\ accepted' \in BOOLEAN
      BY <1>3 DEF Load, NewPage, LoadRefreshes
  <2> QED
      BY <2>1, <2>2, <2>3, <2>4, <2>5
<1>4. ASSUME AccessAges \/ RefreshExpires PROVE TypeOK'
    BY <1>4 DEF AccessAges, RefreshExpires, Token
<1>5. ASSUME NEW c \in Call, Send(c) \/ Proceed(c) PROVE TypeOK'
    BY <1>5 DEF Send, Proceed, Answer, RefusedWaits, RefusedRefreshes, RefusedEnds,
                MayRefresh, ClearAll, Caller
<1>6. ASSUME NEW c \in Caller, Settle(c) PROVE TypeOK'
  <2>1. posted[c] # NoToken => /\ posted[c].user \in User
                               /\ Fresh(posted[c].user) \in Token
      BY FreshIsToken DEF Token
  <2>2. CASE Refreshed(c)
      BY <2>1, <2>2 DEF Refreshed, Resend
  <2>3. CASE RefreshFails(c)
      BY <2>3 DEF RefreshFails, ClearAll
  <2> QED
      BY <1>6, <2>2, <2>3 DEF Settle
<1>7. CASE UNCHANGED vars
    BY <1>7 DEF vars
<1> QED
    BY <1>1, <1>2, <1>3, <1>4, <1>5, <1>6, <1>7 DEF Next

(* Every step keeps the single flight: a request is only posted when none  *)
(* is, and its end wakes everyone who waits for it.                        *)
LEMMA FlightStep == TypeOK /\ SingleFlight /\ [Next]_vars => SingleFlight'
<1> SUFFICES ASSUME TypeOK, SingleFlight, [Next]_vars PROVE SingleFlight'
    OBVIOUS
<1> USE DEF TypeOK, SingleFlight
<1>1. ASSUME NEW u \in User, Login(u) \/ Accept(u) PROVE SingleFlight'
    BY <1>1 DEF Login, Accept
<1>2. ASSUME NEW u \in User, Return(u) PROVE SingleFlight'
    BY <1>2 DEF Return, NewPage
<1>3. ASSUME RefreshSession \/ Logout \/ AccessAges \/ RefreshExpires PROVE SingleFlight'
    BY <1>3 DEF RefreshSession, Logout, AccessAges, RefreshExpires
<1>4. ASSUME Load PROVE SingleFlight'
  <2>1. LoadRefreshes => refresh # NoToken
      BY DEF LoadRefreshes
  <2>2. (promise' = "pending") <=> (\E c \in Caller : posted'[c] # NoToken)
      BY <1>4, <2>1 DEF Load, Caller
  <2> QED
      BY <1>4, <2>2 DEF Load, NewPage
<1>5. ASSUME NEW c \in Call, Send(c) \/ Answer(c) \/ RefusedWaits(c) PROVE SingleFlight'
    BY <1>5 DEF Send, Answer, RefusedWaits
<1>6. ASSUME NEW c \in Call, RefusedRefreshes(c) PROVE SingleFlight'
  <2>1. \A d \in Caller : posted[d] = NoToken
      BY <1>6 DEF RefusedRefreshes, MayRefresh
  <2>2. posted'[c] # NoToken /\ \A d \in Caller \ {c} : posted'[d] = NoToken
      BY <1>6, <2>1 DEF RefusedRefreshes, Caller
  <2> QED
      BY <1>6, <2>2 DEF RefusedRefreshes, Caller
<1>7. ASSUME NEW c \in Call, RefusedEnds(c) PROVE SingleFlight'
    BY <1>7 DEF RefusedEnds
<1>8. ASSUME NEW c \in Caller, Settle(c) PROVE SingleFlight'
  <2>1. /\ posted[c] # NoToken
        /\ posted' = [posted EXCEPT ![c] = NoToken]
        /\ promise' = "null"
      BY <1>8 DEF Settle, Refreshed, RefreshFails
  <2>2. \A d \in Caller : posted'[d] = NoToken
      BY <2>1
  <2>3. \A d \in Call : call'[d] # "waiting"
      BY <1>8 DEF Settle, Refreshed, RefreshFails, Resend
  <2> QED
      BY <2>1, <2>2, <2>3
<1>9. CASE UNCHANGED vars
    BY <1>9 DEF vars
<1> QED
    BY <1>1, <1>2, <1>3, <1>4, <1>5, <1>6, <1>7, <1>8, <1>9 DEF Next, Proceed

(* The variables keep their types.                                         *)
THEOREM TypeCorrect == Spec => []TypeOK
<1> QED
    BY TypeInit, TypeStep, PTL DEF Spec

(* However many calls meet a 403 at once, one refresh runs at a time and   *)
(* every call that waits, waits for that one.                              *)
THEOREM FlightIsSingle == Spec => []SingleFlight
<1>1. Init => SingleFlight
    BY DEF Init, SingleFlight
<1> QED
    BY <1>1, TypeInit, TypeStep, FlightStep, PTL DEF Spec

(* Whoever posted a refresh waits for it, unless it is the loading page.   *)
PosterWaits == \A c \in Call : posted[c] # NoToken => call[c] = "waiting"

LEMMA PosterStep == TypeOK /\ SingleFlight /\ PosterWaits /\ [Next]_vars => PosterWaits'
<1> SUFFICES ASSUME TypeOK, SingleFlight, PosterWaits, [Next]_vars PROVE PosterWaits'
    OBVIOUS
<1> USE DEF TypeOK, PosterWaits
<1>1. ASSUME NEW u \in User, Login(u) \/ Accept(u) \/ Return(u) PROVE PosterWaits'
    BY <1>1 DEF Login, Accept, Return, Caller
<1>2. CASE Load
    BY <1>2 DEF Load, Caller
<1>3. CASE RefreshSession \/ Logout \/ AccessAges \/ RefreshExpires
    BY <1>3 DEF RefreshSession, Logout, AccessAges, RefreshExpires
<1>4. ASSUME NEW c \in Call, Send(c) \/ Answer(c) \/ RefusedWaits(c) \/ RefusedEnds(c)
      PROVE  PosterWaits'
    BY <1>4 DEF Send, Answer, RefusedWaits, RefusedEnds
<1>5. ASSUME NEW c \in Call, RefusedRefreshes(c) PROVE PosterWaits'
    BY <1>5 DEF RefusedRefreshes, Caller
<1>6. ASSUME NEW c \in Caller, Settle(c) PROVE PosterWaits'
  <2>1. posted[c] # NoToken /\ posted' = [posted EXCEPT ![c] = NoToken]
      BY <1>6 DEF Settle, Refreshed, RefreshFails
  <2>2. \A d \in Caller : posted'[d] = NoToken
      BY <2>1 DEF SingleFlight
  <2> QED
      BY <2>2 DEF Caller
<1>7. CASE UNCHANGED vars
    BY <1>7 DEF vars
<1> QED
    BY <1>1, <1>2, <1>3, <1>4, <1>5, <1>6, <1>7 DEF Next, Proceed

(* A step that drops the refresh token has one of the causes: of the       *)
(* refreshes that fail, only that of a call clears the cookies.            *)
LEMMA DropStep ==
    ASSUME TypeOK, PosterWaits, [Next]_vars, refresh # NoToken, refresh' = NoToken
    PROVE  \/ session # Nobody /\ session' = Nobody
           \/ \E c \in Call : RefreshLost(c) \/ FoundSettled(c)
<1>1. ASSUME NEW u \in User, Login(u) \/ Accept(u) \/ Return(u) PROVE FALSE
    BY <1>1, FreshIsToken DEF Login, Accept, Return, SetAll
<1>2. ASSUME RefreshSession \/ Load \/ AccessAges PROVE FALSE
    BY <1>2 DEF RefreshSession, Load, AccessAges
<1>3. ASSUME RefreshExpires PROVE FALSE
  <2>1. [refresh EXCEPT !.age = "expired"] \in Token
      BY DEF TypeOK, Token
  <2> QED
      BY <1>3, <2>1 DEF RefreshExpires
<1>4. ASSUME NEW c \in Call, Send(c) \/ Answer(c) \/ RefusedWaits(c) \/ RefusedRefreshes(c)
      PROVE  FALSE
    BY <1>4 DEF Send, Answer, RefusedWaits, RefusedRefreshes
<1>5. ASSUME NEW c \in Call, RefusedEnds(c) PROVE FoundSettled(c)
    BY <1>5 DEF RefusedEnds, FoundSettled, TypeOK
<1>6. ASSUME NEW c \in Caller, Settle(c) PROVE c \in Call /\ RefreshLost(c)
  <2>1. RefreshFails(c) /\ c # Page
      BY <1>6 DEF Settle, Refreshed, RefreshFails
  <2> QED
      BY <2>1 DEF RefreshFails, RefreshLost, PosterWaits, TypeOK, Caller
<1>7. CASE Logout
    BY <1>7 DEF Logout
<1>8. CASE UNCHANGED vars
    BY <1>8 DEF vars
<1> QED
    BY <1>1, <1>2, <1>3, <1>4, <1>5, <1>6, <1>7, <1>8 DEF Next, Proceed

(* The refresh token goes when its user logs out, when the refresh of a    *)
(* call failed (refreshAccessToken and authLogout of api.ts), which may be *)
(* one of an earlier user, or at a 403 after a call that found no token,   *)
(* which may be that of a good token: in no other way.                     *)
THEOREM DropHasCause == Spec => DroppedForCause
<1>1. TypeOK /\ PosterWaits /\ [Next]_vars =>
          [refresh # NoToken /\ refresh' = NoToken
             => \/ session # Nobody /\ session' = Nobody
                \/ \E c \in Call : RefreshLost(c) \/ FoundSettled(c)]_vars
    BY DropStep
<1>2. Init => PosterWaits
    BY DEF Init, PosterWaits, Caller
<1> QED
    BY <1>1, <1>2, PosterStep, TypeCorrect, FlightIsSingle, PTL DEF Spec, DroppedForCause
=============================================================================
