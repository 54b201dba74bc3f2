--------------------------- MODULE MembersProofs ---------------------------
(***************************************************************************)
(* Proofs about Members, for any number of users, buckets and requests:    *)
(* its type invariant, that every level anybody has was asked for by an    *)
(* owner, and that an update nobody interferes with leaves the list it was *)
(* given.                                                                  *)
(*                                                                         *)
(* LevelsAreAsked is not inductive: a level reaches a membership by way of *)
(* an invite, of the invites a sign-up has read, or of a difference that   *)
(* waits to be applied, which names an account looked up earlier.  AllAsked*)
(* says of each of these that its level was asked for, for that address.   *)
(***************************************************************************)
EXTENDS Members, TLAPS

(* An entry names the address of its account.                              *)
Addressed(M) == \A m \in M : m.user # Nobody => m.email = Address[m.user]

Asks(e, b, g) == [email |-> e, bucket |-> b, group |-> g] \in asked

InvitesAsked ==
    /\ \A i \in invites : Asks(i.email, i.bucket, i.group)
    /\ \A u \in User : \A i \in signUp[u] :
          i.email = Address[u] /\ Asks(i.email, i.bucket, i.group)

BodiesAsked ==
    \A c \in Caller : call[c] # Idle =>
        \A e \in Email : call[c].body[e] # "none" => Asks(e, call[c].bucket, call[c].body[e])

ChangesAsked ==
    \A c \in Caller : call[c] # Idle =>
        \A d \in call[c].todo \cup call[c].adding :
            /\ d.group # "none" => Asks(d.email, call[c].bucket, d.group)
            /\ d.user # Nobody => Address[d.user] = d.email

AllAsked == LevelsAreAsked /\ InvitesAsked /\ BodiesAsked /\ ChangesAsked

FoundAddressed == \A c \in Caller : call[c] # Idle => Addressed(call[c].found)

(* What GetBucketMembers lists.                                            *)
LEMMA ListingTyped ==
    ASSUME TypeOK, NEW b \in Bucket
    PROVE  /\ Active(b) \subseteq Entry /\ Addressed(Active(b))
           /\ \A F : InvitedBeside(F, b) \subseteq Entry /\ Addressed(InvitedBeside(F, b))
<1> USE MembersAssumption DEF TypeOK
<1>1. Active(b) \subseteq Entry /\ Addressed(Active(b))
    BY DEF Active, Entry, Addressed, Live, Level
<1>2. \A F : InvitedBeside(F, b) \subseteq Entry /\ Addressed(InvitedBeside(F, b))
    BY DEF InvitedBeside, Entry, Addressed, Invite
<1> QED
    BY <1>1, <1>2

(* A comparison yields differences, at the levels of the list, for the     *)
(* accounts and addresses that were read.                                  *)
LEMMA CompareTyped ==
    ASSUME NEW M \in SUBSET Entry, NEW body \in [Email -> Level],
           NEW own \in Email, NEW alone \in BOOLEAN
    PROVE  /\ Compare(M, body, own, alone) \subseteq Change
           /\ \A d \in Compare(M, body, own, alone) :
                 /\ d.group # "none" => d.group = body[d.email]
                 /\ Addressed(M) /\ d.user # Nobody => Address[d.user] = d.email
<1> USE MembersAssumption DEF Entry, Change, Level, Addressed
<1> SUFFICES ASSUME NEW d \in Compare(M, body, own, alone)
             PROVE  /\ d \in Change
                    /\ d.group # "none" => d.group = body[d.email]
                    /\ Addressed(M) /\ d.user # Nobody => Address[d.user] = d.email
    OBVIOUS
<1>1. \/ \E e \in Email : /\ body[e] # "none"
                          /\ d = [do |-> "add", email |-> e, user |-> Nobody, group |-> body[e]]
      \/ \E m \in M : /\ body[m.email] # "none"
                      /\ d = [do |-> "update", email |-> m.email, user |-> m.user,
                              group |-> body[m.email]]
      \/ \E m \in M : d = [do |-> "delete", email |-> m.email, user |-> m.user,
                           group |-> "none"]
    BY DEF Compare
<1>2. CASE \E e \in Email : /\ body[e] # "none"
                            /\ d = [do |-> "add", email |-> e, user |-> Nobody,
                                    group |-> body[e]]
    BY <1>2
<1>3. CASE \E m \in M : /\ body[m.email] # "none"
                        /\ d = [do |-> "update", email |-> m.email, user |-> m.user,
                                group |-> body[m.email]]
    BY <1>3
<1>4. CASE \E m \in M : d = [do |-> "delete", email |-> m.email, user |-> m.user,
                             group |-> "none"]
    BY <1>4
<1> QED
    BY <1>1, <1>2, <1>3, <1>4

(* Requests and their steps keep their types.                              *)
LEMMA CallTyped ==
    ASSUME TypeOK, NEW c \in Caller, call[c] # Idle
    PROVE  /\ call[c] \in Request
           /\ call[c].actor \in User /\ call[c].bucket \in Bucket
           /\ call[c].body \in [Email -> Level]
           /\ call[c].found \in SUBSET Entry /\ call[c].bare \in BOOLEAN
           /\ call[c].todo \in SUBSET Change /\ call[c].adding \in SUBSET Change
    BY DEF TypeOK, Request

(* So do those that are applied, and the request that is to apply them.    *)
LEMMA ToApplyTyped ==
    ASSUME TypeOK, NEW c \in Caller, call[c] # Idle,
           NEW M \in SUBSET Entry, NEW alone \in BOOLEAN
    PROVE  /\ ToApply(c, M, alone) \subseteq Change
           /\ \A d \in ToApply(c, M, alone) :
                 /\ d.group # "none" => d.group = call[c].body[d.email]
                 /\ Addressed(M) /\ d.user # Nobody => Address[d.user] = d.email
           /\ Compared(c, M, alone) \in Request
<1>1. /\ ToApply(c, M, alone) \subseteq Change
      /\ \A d \in ToApply(c, M, alone) :
            /\ d.group # "none" => d.group = call[c].body[d.email]
            /\ Addressed(M) /\ d.user # Nobody => Address[d.user] = d.email
  <2> DEFINE D == Compare(M, call[c].body, Address[call[c].actor], alone)
  <2>1. call[c].body \in [Email -> Level] /\ Address[call[c].actor] \in Email
      BY CallTyped, MembersAssumption
  <2>2. /\ D \subseteq Change
        /\ \A d \in D : /\ d.group # "none" => d.group = call[c].body[d.email]
                        /\ Addressed(M) /\ d.user # Nobody => Address[d.user] = d.email
      BY <2>1, CompareTyped
  <2>3. ToApply(c, M, alone) \subseteq D
      BY DEF ToApply
  <2> HIDE DEF D
  <2> QED
      BY <2>2, <2>3
<1>2. Compared(c, M, alone) \in Request
  <2> DEFINE T == ToApply(c, M, alone)
  <2>1. T \in SUBSET Change /\ call[c] \in Request
      BY <1>1, CallTyped
  <2> HIDE DEF T
  <2>2. [call[c] EXCEPT !.step = "apply", !.todo = T, !.found = {}, !.bare = TRUE] \in Request
      BY <2>1 DEF Request
  <2> QED
      BY <2>2 DEF Compared, T
<1> QED
    BY <1>1, <1>2

LEMMA TypeInit == Init => TypeOK
    BY MembersAssumption DEF Init, TypeOK, Level

LEMMA ApplyTyped ==
    ASSUME TypeOK, NEW c \in Caller, NEW d, call[c] # Idle, NEW m, NEW I, Apply(c, d, m, I),
           m \in [User -> [Bucket -> Level]], I \subseteq Invite
    PROVE  TypeOK'
<1>1. [call[c] EXCEPT !.todo = @ \ {d}, !.adding = {}] \in Request
    BY CallTyped DEF Request
<1>2. call' \in [Caller -> Request \cup {Idle}]
    BY <1>1 DEF Apply, TypeOK
<1> QED
    BY <1>2 DEF Apply, TypeOK

LEMMA SetLevelTyped ==
    ASSUME TypeOK, NEW u \in User, NEW b \in Bucket, NEW g \in Level
    PROVE  SetLevel(u, b, g) \in [User -> [Bucket -> Level]]
    BY DEF SetLevel, TypeOK

LEMMA TypeStep == TypeOK /\ [Next]_vars => TypeOK'
<1> SUFFICES ASSUME TypeOK, [Next]_vars PROVE TypeOK'
    OBVIOUS
<1> USE MembersAssumption
<1>1. ASSUME NEW u \in User, SignUpRead(u) \/ SignUpFails(u) \/ DeleteUser(u) PROVE TypeOK'
  <2>1. account' \in [User -> {"none", "signing", "live", "deleted"}]
      BY <1>1 DEF TypeOK, SignUpRead, SignUpFails, DeleteUser
  <2>2. /\ UNCHANGED <<bucket, member, call, requests, faults, asked>>
        /\ invites' \subseteq invites /\ quiet' \subseteq quiet
      BY <1>1 DEF SignUpRead, SignUpFails, DeleteUser
  <2>3. signUp' \in [User -> SUBSET Invite]
      BY <1>1 DEF TypeOK, SignUpRead, SignUpFails, DeleteUser
  <2> QED
      BY <2>1, <2>2, <2>3 DEF TypeOK
<1>2. ASSUME NEW u \in User, SignUpCommit(u) PROVE TypeOK'
  <2>1. \A b \in Bucket : LevelIn(signUp[u], b) \in Level
      BY DEF LevelIn, TypeOK, Level, Invite
  <2>2. member' \in [User -> [Bucket -> Level]]
      BY <1>2, <2>1 DEF SignUpCommit, TypeOK
  <2> QED
      BY <1>2, <2>2 DEF SignUpCommit, TypeOK
<1>3. ASSUME NEW u \in User, NEW b \in Bucket, CreateBucket(u, b) PROVE TypeOK'
    BY <1>3 DEF CreateBucket, TypeOK, Level
<1>4. ASSUME NEW c \in Caller, NEW u \in User, NEW b \in Bucket, NEW op \in {"update", "delete"},
             NEW body \in [Email -> Level], Authorize(c, u, b, op, body)
      PROVE  TypeOK'
  <2>1. [step |-> op, actor |-> u, bucket |-> b, body |-> body,
         found |-> {}, bare |-> TRUE, todo |-> {}, adding |-> {}] \in Request
      BY DEF Request
  <2>2. call' \in [Caller -> Request \cup {Idle}]
      BY <1>4, <2>1 DEF Authorize, TypeOK
  <2>3. asked' \subseteq [email : Email, bucket : Bucket, group : Group]
      BY <1>4 DEF Authorize, TypeOK, Level
  <2> QED
      BY <1>4, <2>2, <2>3 DEF Authorize, TypeOK
<1>5. ASSUME NEW c \in Caller, DeleteBucket(c) PROVE TypeOK'
  <2>1. call[c].bucket \in Bucket
      BY <1>5, CallTyped DEF DeleteBucket, Idle
  <2> QED
      BY <1>5, <2>1 DEF DeleteBucket, TypeOK
<1>6. ASSUME NEW c \in Caller, UpdateBucketMembers(c) PROVE TypeOK'
  <2>1. call[c] \in Request
      BY <1>6, CallTyped DEF UpdateBucketMembers, Idle
  <2>2. [call[c] EXCEPT !.step = "list"] \in Request
      BY <2>1 DEF Request
  <2>3. call' \in [Caller -> Request \cup {Idle}]
      BY <1>6, <2>2 DEF UpdateBucketMembers, TypeOK
  <2> QED
      BY <1>6, <2>3 DEF UpdateBucketMembers, TypeOK
<1>14. ASSUME NEW c \in Caller, BucketRead(c) PROVE TypeOK'
  <2>1. call[c] \in Request /\ call[c] # Idle
      BY <1>14, CallTyped DEF BucketRead, Idle
  <2>2. Compared(c, {}, TRUE) \in Request
      BY <2>1, ToApplyTyped
  <2>3. [call[c] EXCEPT !.step = "memberships"] \in Request
      BY <2>1 DEF Request
  <2>4. call' \in [Caller -> Request \cup {Idle}]
      BY <1>14, <2>2, <2>3 DEF BucketRead, TypeOK
  <2> QED
      BY <1>14, <2>4 DEF BucketRead, TypeOK
<1>15. ASSUME NEW c \in Caller, MembershipsRead(c) PROVE TypeOK'
  <2> DEFINE b == call[c].bucket
  <2>1. call[c] \in Request /\ b \in Bucket
      BY <1>15, CallTyped DEF MembershipsRead, Idle
  <2>2. Active(b) \subseteq Entry
      BY <2>1, ListingTyped
  <2>3. [call[c] EXCEPT !.step = "invites", !.found = Active(b),
                        !.bare = Active(b) = {} /\ Nameless(b) = {}] \in Request
      BY <2>1, <2>2 DEF Request
  <2>4. call' \in [Caller -> Request \cup {Idle}]
      BY <1>15, <2>3 DEF MembershipsRead, TypeOK
  <2> QED
      BY <1>15, <2>4 DEF MembershipsRead, TypeOK
<1>16. ASSUME NEW c \in Caller, InvitesRead(c) PROVE TypeOK'
  <2> DEFINE b == call[c].bucket
             beside == InvitedBeside(call[c].found, b)
  <2>1. call[c] \in Request /\ call[c] # Idle /\ b \in Bucket
      BY <1>16, CallTyped DEF InvitesRead, Idle
  <2>2. PICK M \in Maps(call[c].found \cup beside) :
            call' = [call EXCEPT ![c] = Compared(c, M, call[c].bare /\ beside = {})]
      BY <1>16, Zenon DEF InvitesRead
  <2>3. M \in SUBSET Entry
      BY <2>1, CallTyped, ListingTyped DEF Maps
  <2>4. Compared(c, M, call[c].bare /\ beside = {}) \in Request
      BY <2>1, <2>3, CallTyped, ToApplyTyped
  <2>5. call' \in [Caller -> Request \cup {Idle}]
      BY <2>2, <2>4 DEF TypeOK
  <2> QED
      BY <1>16, <2>5 DEF InvitesRead, TypeOK
<1>7. ASSUME NEW c \in Caller, NEW d \in Change, AddMemberRead(c, d) PROVE TypeOK'
  <2>1. call[c] # Idle
      BY <1>7 DEF AddMemberRead, Turn, Idle
  <2>2. PICK u \in User \cup {Nobody} :
            call' = [call EXCEPT ![c].adding = {[d EXCEPT !.user = u]}]
      BY <1>7 DEF AddMemberRead, Live
  <2>3. [d EXCEPT !.user = u] \in Change
      BY DEF Change
  <2>4. [call[c] EXCEPT !.adding = {[d EXCEPT !.user = u]}] \in Request
      BY <2>1, <2>3, CallTyped DEF Request
  <2>5. call' \in [Caller -> Request \cup {Idle}]
      BY <2>2, <2>4 DEF TypeOK
  <2> QED
      BY <1>7, <2>5 DEF AddMemberRead, TypeOK
<1>8. ASSUME NEW c \in Caller, NEW d \in Change, AddMember(c, d) PROVE TypeOK'
  <2> DEFINE b == call[c].bucket
             new == [id |-> CHOOSE k \in InviteId : k \notin UsedIds, email |-> d.email,
                     bucket |-> b, group |-> d.group, by |-> call[c].actor]
  <2>1. call[c] # Idle /\ d.do = "add"
      BY <1>8 DEF AddMember, Turn, Idle, Change
  <2>2. call[c].bucket \in Bucket /\ call[c].actor \in User /\ call[c].adding \subseteq Change
      BY <2>1, CallTyped
  <2>3. d.group \in Group /\ d.group \in Level /\ d.email \in Email
      BY <2>1 DEF Change, Level
  <2>4. ASSUME NEW a \in call[c].adding, a.user # Nobody
        PROVE  /\ a.user \in User
               /\ SetLevel(a.user, b, d.group) \in [User -> [Bucket -> Level]]
    <3>1. a.user \in User
        BY <2>2, <2>4 DEF Change
    <3> QED
        BY <2>2, <2>3, <3>1, SetLevelTyped
  <2>5. InviteId \ UsedIds # {} => new \in Invite
    <3>1. InviteId \ UsedIds # {} => (CHOOSE k \in InviteId : k \notin UsedIds) \in InviteId
        OBVIOUS
    <3> QED
        BY <2>2, <2>3, <3>1 DEF Invite
  <2>6. member \in [User -> [Bucket -> Level]] /\ invites \subseteq Invite
      BY DEF TypeOK
  <2>7. \E m, I : /\ Apply(c, d, m, I)
                  /\ m \in [User -> [Bucket -> Level]]
                  /\ I \subseteq Invite
    <3>1. PICK a \in call[c].adding :
            \/ /\ a.user # Nobody
               /\ Apply(c, d, IF member[a.user][b] = "none" THEN SetLevel(a.user, b, d.group)
                                                            ELSE member, invites)
            \/ Apply(c, d, member, invites)
            \/ InviteId \ UsedIds # {} /\ Apply(c, d, member, invites \cup {new})
        BY <1>8 DEF AddMember
    <3>2. CASE a.user # Nobody /\ Apply(c, d, IF member[a.user][b] = "none"
                                              THEN SetLevel(a.user, b, d.group)
                                              ELSE member, invites)
        BY <2>4, <2>6, <3>2
    <3>3. CASE Apply(c, d, member, invites)
        BY <2>6, <3>3
    <3>4. CASE InviteId \ UsedIds # {} /\ Apply(c, d, member, invites \cup {new})
      <4> HIDE DEF new
      <4>1. invites \cup {new} \subseteq Invite
          BY <2>5, <2>6, <3>4
      <4> QED
          BY <2>6, <3>4, <4>1
    <3> QED
        BY <3>1, <3>2, <3>3, <3>4
  <2> HIDE DEF b, new
  <2> QED
      BY <2>1, <2>7, ApplyTyped
<1>9. ASSUME NEW c \in Caller, NEW d \in Change, UpdateMember(c, d) PROVE TypeOK'
  <2> DEFINE b == call[c].bucket
             I == InvitesFor(d.email, b)
  <2>1. call[c] # Idle /\ d.do = "update"
      BY <1>9 DEF UpdateMember, Turn, Idle, Change
  <2>2. call[c].bucket \in Bucket
      BY <2>1, CallTyped
  <2>3. d.group \in Group /\ d.group \in Level /\ (d.user # Nobody => d.user \in User)
      BY <2>1 DEF Change, Level
  <2>4. member \in [User -> [Bucket -> Level]] /\ invites \subseteq Invite
      BY DEF TypeOK
  <2>5. (invites \ I) \cup {[i EXCEPT !.group = d.group] : i \in I} \subseteq Invite
    <3>1. \A i \in I : [i EXCEPT !.group = d.group] \in Invite
        BY <2>3, <2>4 DEF InvitesFor, Invite
    <3> QED
        BY <2>4, <3>1
  <2>6. CASE d.user # Nobody
    <3>1. Apply(c, d, IF member[d.user][b] # "none" THEN SetLevel(d.user, b, d.group)
                                                   ELSE member, invites)
        BY <1>9, <2>6 DEF UpdateMember
    <3>2. SetLevel(d.user, b, d.group) \in [User -> [Bucket -> Level]]
        BY <2>2, <2>3, <2>6, SetLevelTyped
    <3> QED
        BY <2>1, <2>4, <3>1, <3>2, ApplyTyped
  <2>7. CASE d.user = Nobody
    <3>1. Apply(c, d, member, IF Convertible(I)
                              THEN (invites \ I) \cup {[i EXCEPT !.group = d.group] : i \in I}
                              ELSE invites)
        BY <1>9, <2>7 DEF UpdateMember
    <3> HIDE DEF I
    <3> QED
        BY <2>1, <2>4, <2>5, <3>1, ApplyTyped
  <2> QED
      BY <2>6, <2>7
<1>10. ASSUME NEW c \in Caller, NEW d \in Change, DeleteMember(c, d) PROVE TypeOK'
  <2>1. call[c] # Idle
      BY <1>10 DEF DeleteMember, Turn, Idle
  <2>2. call[c].bucket \in Bucket /\ (d.user # Nobody => d.user \in User)
      BY <2>1, CallTyped DEF Change
  <2>3. member \in [User -> [Bucket -> Level]] /\ invites \subseteq Invite
      BY DEF TypeOK
  <2>4. CASE d.user # Nobody
    <3>1. SetLevel(d.user, call[c].bucket, "none") \in [User -> [Bucket -> Level]]
        BY <2>2, <2>4, SetLevelTyped DEF Level
    <3> QED
        BY <1>10, <2>1, <2>3, <2>4, <3>1, ApplyTyped DEF DeleteMember
  <2>5. CASE d.user = Nobody
    <3>1. Apply(c, d, member, invites \ InvitesFor(d.email, call[c].bucket))
        BY <1>10, <2>5 DEF DeleteMember
    <3> QED
        BY <2>1, <2>3, <3>1, ApplyTyped
  <2> QED
      BY <2>4, <2>5
<1>11. ASSUME NEW c \in Caller, NEW d \in Change, ChangeFails(c, d) PROVE TypeOK'
  <2>1. call[c] # Idle
      BY <1>11 DEF ChangeFails, Turn, Idle
  <2>2. [call[c] EXCEPT !.todo = @ \ {d}, !.adding = {}] \in Request
      BY <2>1, CallTyped DEF Request
  <2>3. call' \in [Caller -> Request \cup {Idle}]
      BY <1>11, <2>2 DEF ChangeFails, TypeOK
  <2>4. faults' \in 0 .. MaxFaults
      BY <1>11 DEF ChangeFails, TypeOK
  <2>5. UNCHANGED <<account, bucket, member, invites, signUp, requests, asked>>
        /\ quiet' \subseteq quiet
      BY <1>11 DEF ChangeFails
  <2> QED
      BY <2>3, <2>4, <2>5 DEF TypeOK
<1>12. ASSUME NEW c \in Caller, Reply(c) PROVE TypeOK'
    BY <1>12 DEF Reply, TypeOK
<1>13. CASE UNCHANGED vars
    BY <1>13 DEF vars, TypeOK
<1> QED
  <2>1. NoBody \in [Email -> Level]
      BY DEF NoBody, Level
  <2> QED
      BY <1>1, <1>2, <1>3, <1>4, <1>5, <1>6, <1>7, <1>8, <1>9, <1>10, <1>11, <1>12, <1>13,
         <1>14, <1>15, <1>16, <2>1
         DEF Next, Users, Begin, Continue

(* The variables keep their types.                                         *)
THEOREM TypeCorrect == Spec => []TypeOK
<1> QED
    BY TypeInit, TypeStep, PTL DEF Spec

-----------------------------------------------------------------------------
(* The memberships a request has read name the addresses of their accounts.*)
LEMMA FoundInit == Init => FoundAddressed
    BY DEF Init, FoundAddressed

LEMMA FoundStep == TypeOK /\ FoundAddressed /\ [Next]_vars => FoundAddressed'
<1> SUFFICES ASSUME TypeOK, FoundAddressed, [Next]_vars, NEW c \in Caller, call'[c] # Idle
             PROVE  Addressed(call'[c].found)
    BY DEF FoundAddressed, Addressed
<1>1. ASSUME call'[c].found = {} PROVE Addressed(call'[c].found)
    BY <1>1 DEF Addressed
<1>2. ASSUME call[c] # Idle, call'[c].found = call[c].found PROVE Addressed(call'[c].found)
    BY <1>2 DEF FoundAddressed
<1>3. CASE call'[c] = call[c]
    BY <1>2, <1>3
<1>4. ASSUME NEW x \in Caller, Begin(x) \/ Continue(x), x # c PROVE call'[c] = call[c]
  <2>1. \E v : call' = [call EXCEPT ![x] = v]
      BY <1>4 DEF Begin, Continue, Authorize, DeleteBucket, UpdateBucketMembers, BucketRead,
                  MembershipsRead, InvitesRead, Reply, AddMemberRead, AddMember, UpdateMember,
                  DeleteMember, ChangeFails, Apply
  <2> QED
      BY <1>4, <2>1 DEF TypeOK
<1>5. ASSUME Begin(c) PROVE call'[c].found = {}
  <2>1. PICK u \in User, b \in Bucket, op \in {"update", "delete"}, body \in [Email -> Level] :
            Authorize(c, u, b, op, body)
    <3>1. NoBody \in [Email -> Level]
        BY DEF NoBody, Level
    <3> QED
        BY <1>5, <3>1, Zenon DEF Begin
  <2>2. call'[c] = [step |-> op, actor |-> u, bucket |-> b, body |-> body,
                    found |-> {}, bare |-> TRUE, todo |-> {}, adding |-> {}]
      BY <2>1 DEF Authorize, TypeOK
  <2> QED
      BY <2>2
<1>6. CASE DeleteBucket(c) \/ Reply(c)
    BY <1>6 DEF DeleteBucket, Reply, TypeOK
<1>7. CASE UpdateBucketMembers(c)
    BY <1>2, <1>7, CallTyped DEF UpdateBucketMembers, TypeOK, Request, Idle
<1>8. ASSUME NEW M, NEW a PROVE Compared(c, M, a).found = {}
    BY DEF Compared
<1>9. CASE BucketRead(c)
  <2>1. \/ call' = [call EXCEPT ![c].step = "memberships"]
        \/ call' = [call EXCEPT ![c] = Compared(c, {}, TRUE)]
      BY <1>9, Zenon DEF BucketRead
  <2>2. call[c] # Idle
    <3>1. call[c].step = "list"
        BY <1>9, Zenon DEF BucketRead
    <3> QED
        BY <3>1 DEF Idle
  <2>3. CASE call' = [call EXCEPT ![c].step = "memberships"]
      BY <1>2, <2>2, <2>3, CallTyped DEF TypeOK, Request
  <2>4. CASE call' = [call EXCEPT ![c] = Compared(c, {}, TRUE)]
      BY <1>1, <1>8, <2>4 DEF TypeOK
  <2> QED
      BY <2>1, <2>3, <2>4
<1>10. CASE MembershipsRead(c)
  <2>1. call[c] \in Request /\ call[c].bucket \in Bucket
      BY <1>10, CallTyped DEF MembershipsRead, Idle
  <2>2. call'[c].found = Active(call[c].bucket)
      BY <1>10, <2>1 DEF MembershipsRead, TypeOK, Request
  <2> QED
      BY <2>1, <2>2, ListingTyped
<1>11. CASE InvitesRead(c)
  <2> DEFINE beside == InvitedBeside(call[c].found, call[c].bucket)
  <2>1. \E M : call' = [call EXCEPT ![c] = Compared(c, M, call[c].bare /\ beside = {})]
      BY <1>11, Zenon DEF InvitesRead
  <2> QED
      BY <1>1, <1>8, <2>1 DEF TypeOK
<1>12. ASSUME NEW d \in Change,
              AddMemberRead(c, d) \/ AddMember(c, d) \/ UpdateMember(c, d) \/ DeleteMember(c, d)
              \/ ChangeFails(c, d)
       PROVE  Addressed(call'[c].found)
  <2>1. call[c] # Idle
      BY <1>12 DEF AddMemberRead, AddMember, UpdateMember, DeleteMember, ChangeFails, Turn, Idle
  <2>2. \/ \E v : call' = [call EXCEPT ![c].adding = v]
        \/ \E v, w : call' = [call EXCEPT ![c].todo = v, ![c].adding = w]
      BY <1>12 DEF AddMemberRead, AddMember, UpdateMember, DeleteMember, ChangeFails, Apply
  <2>3. ASSUME NEW v, call' = [call EXCEPT ![c].adding = v]
        PROVE  call'[c].found = call[c].found
      BY <2>1, <2>3, CallTyped DEF TypeOK, Request
  <2>4. ASSUME NEW v, NEW w, call' = [call EXCEPT ![c].todo = v, ![c].adding = w]
        PROVE  call'[c].found = call[c].found
      BY <2>1, <2>4, CallTyped DEF TypeOK, Request
  <2> QED
      BY <1>2, <2>1, <2>2, <2>3, <2>4
<1>13. CASE Users \/ UNCHANGED vars
    BY <1>3, <1>13 DEF Users, SignUpRead, SignUpCommit, SignUpFails, DeleteUser, CreateBucket, vars
<1> QED
    BY <1>1, <1>3, <1>4, <1>5, <1>6, <1>7, <1>9, <1>10, <1>11, <1>12, <1>13 DEF Next, Continue

-----------------------------------------------------------------------------
(* A step that only adds to what was asked, and to nothing else that       *)
(* AllAsked speaks of.                                                     *)
LEMMA AsksGrow ==
    ASSUME asked \subseteq asked', NEW e, NEW b, NEW g, Asks(e, b, g)
    PROVE  Asks(e, b, g)'
    BY DEF Asks

(* The transaction of a difference: what it writes was asked for.          *)
LEMMA ApplyAsked ==
    ASSUME TypeOK, AllAsked, NEW c \in Caller, NEW d, call[c] # Idle, NEW m, NEW I,
           Apply(c, d, m, I),
           \A u \in User, b \in Bucket : m[u][b] # "none" => Asks(Address[u], b, m[u][b]),
           \A i \in I : Asks(i.email, i.bucket, i.group)
    PROVE  AllAsked'
<1>1. UNCHANGED <<asked, signUp>> /\ member' = m /\ invites' = I
    BY DEF Apply
<1>2. call' = [call EXCEPT ![c].todo = @ \ {d}, ![c].adding = {}]
    BY DEF Apply
<1>3. \A x \in Caller : x # c => call'[x] = call[x]
    BY <1>2 DEF TypeOK
<1>4. /\ call'[c].body = call[c].body /\ call'[c].bucket = call[c].bucket
      /\ call'[c].todo = call[c].todo \ {d} /\ call'[c].adding = {}
    BY <1>2, CallTyped DEF TypeOK, Request
<1>5. LevelsAreAsked'
    BY <1>1 DEF LevelsAreAsked, Asks
<1>6. InvitesAsked'
    BY <1>1 DEF AllAsked, InvitesAsked, Asks
<1>7. BodiesAsked'
  <2> SUFFICES ASSUME NEW x \in Caller, call'[x] # Idle, NEW e \in Email,
                      call'[x].body[e] # "none"
               PROVE  Asks(e, call[x].bucket, call[x].body[e])'
      BY DEF BodiesAsked
  <2> QED
      BY <1>1, <1>3, <1>4 DEF AllAsked, BodiesAsked, Asks
<1>8. ChangesAsked'
  <2> SUFFICES ASSUME NEW x \in Caller, call'[x] # Idle,
                      NEW y \in call'[x].todo \cup call'[x].adding
               PROVE  /\ y.group # "none" => Asks(y.email, call[x].bucket, y.group)'
                      /\ y.user # Nobody => Address[y.user] = y.email
      BY DEF ChangesAsked
  <2> QED
      BY <1>1, <1>3, <1>4 DEF AllAsked, ChangesAsked, Asks
<1> QED
    BY <1>5, <1>6, <1>7, <1>8 DEF AllAsked

(* A membership set to a level that was asked for its address.             *)
LEMMA SetLevelAsked ==
    ASSUME TypeOK, AllAsked, NEW v \in User, NEW c \in Bucket, NEW g,
           g # "none" => Asks(Address[v], c, g)
    PROVE  \A u \in User, b \in Bucket :
               SetLevel(v, c, g)[u][b] # "none" => Asks(Address[u], b, SetLevel(v, c, g)[u][b])
    BY DEF SetLevel, TypeOK, AllAsked, LevelsAreAsked, Asks

LEMMA AskedInit == Init => AllAsked
    BY DEF Init, AllAsked, LevelsAreAsked, InvitesAsked, BodiesAsked, ChangesAsked

LEMMA AskedStep == TypeOK /\ FoundAddressed /\ AllAsked /\ [Next]_vars => AllAsked'
<1> SUFFICES ASSUME TypeOK, FoundAddressed, AllAsked, [Next]_vars PROVE AllAsked'
    OBVIOUS
<1> USE MembersAssumption
<1>1. ASSUME NEW u \in User, SignUpRead(u) \/ SignUpFails(u) \/ DeleteUser(u) PROVE AllAsked'
  <2>1. UNCHANGED <<member, call, asked>> /\ invites' \subseteq invites
      BY <1>1 DEF SignUpRead, SignUpFails, DeleteUser
  <2>2. \A v \in User : \A i \in signUp'[v] :
            i \in signUp[v] \/ (i \in invites /\ i.email = Address[v])
      BY <1>1 DEF SignUpRead, SignUpFails, DeleteUser, TypeOK
  <2>3. InvitesAsked'
      BY <2>1, <2>2 DEF AllAsked, InvitesAsked, Asks
  <2> QED
      BY <2>1, <2>3 DEF AllAsked, LevelsAreAsked, BodiesAsked, ChangesAsked, Asks
<1>2. ASSUME NEW u \in User, SignUpCommit(u) PROVE AllAsked'
  <2>1. UNCHANGED <<call, asked>> /\ invites' \subseteq invites
      BY <1>2 DEF SignUpCommit
  <2>2. \A v \in User : signUp'[v] \subseteq signUp[v]
      BY <1>2 DEF SignUpCommit, TypeOK
  <2>3. \A b \in Bucket : LevelIn(signUp[u], b) # "none"
                          => Asks(Address[u], b, LevelIn(signUp[u], b))
      BY DEF LevelIn, AllAsked, InvitesAsked
  <2>4. \A v \in User, b \in Bucket :
            member'[v][b] = IF v = u THEN LevelIn(signUp[u], b) ELSE member[v][b]
      BY <1>2 DEF SignUpCommit, TypeOK
  <2>5. LevelsAreAsked'
      BY <2>1, <2>3, <2>4 DEF AllAsked, LevelsAreAsked, Asks
  <2>6. InvitesAsked'
      BY <2>1, <2>2 DEF AllAsked, InvitesAsked, Asks
  <2> QED
      BY <2>1, <2>5, <2>6 DEF AllAsked, BodiesAsked, ChangesAsked, Asks
<1>3. ASSUME NEW u \in User, NEW b \in Bucket, CreateBucket(u, b) PROVE AllAsked'
  <2>1. UNCHANGED <<call, invites, signUp>> /\ asked \subseteq asked'
        /\ Asks(Address[u], b, "owner")'
      BY <1>3 DEF CreateBucket, Asks
  <2>2. \A v \in User, x \in Bucket :
            member'[v][x] = IF v = u /\ x = b THEN "owner" ELSE member[v][x]
      BY <1>3 DEF CreateBucket, TypeOK
  <2>3. LevelsAreAsked'
      BY <2>1, <2>2 DEF AllAsked, LevelsAreAsked, Asks
  <2>4. InvitesAsked'
      BY <2>1 DEF AllAsked, InvitesAsked, Asks
  <2>5. BodiesAsked' /\ ChangesAsked'
      BY <2>1 DEF AllAsked, BodiesAsked, ChangesAsked, Asks
  <2> QED
      BY <2>3, <2>4, <2>5 DEF AllAsked
<1>4. ASSUME NEW c \in Caller, NEW u \in User, NEW b \in Bucket, NEW op \in {"update", "delete"},
             NEW body \in [Email -> Level], Authorize(c, u, b, op, body)
      PROVE  AllAsked'
  <2>1. UNCHANGED <<member, invites, signUp>> /\ asked \subseteq asked'
      BY <1>4 DEF Authorize
  <2>2. \A e \in Email : body[e] # "none" => Asks(e, b, body[e])'
      BY <1>4 DEF Authorize, Asks
  <2>3. \A x \in Caller : call'[x] = IF x = c THEN
                [step |-> op, actor |-> u, bucket |-> b, body |-> body,
                 found |-> {}, bare |-> TRUE, todo |-> {}, adding |-> {}]
                ELSE call[x]
      BY <1>4 DEF Authorize, TypeOK
  <2>4. LevelsAreAsked' /\ InvitesAsked'
      BY <2>1 DEF AllAsked, LevelsAreAsked, InvitesAsked, Asks
  <2>5. BodiesAsked'
    <3> SUFFICES ASSUME NEW x \in Caller, call'[x] # Idle, NEW e \in Email,
                        call'[x].body[e] # "none"
                 PROVE  Asks(e, call[x].bucket, call[x].body[e])'
        BY DEF BodiesAsked
    <3> QED
        BY <2>1, <2>2, <2>3 DEF AllAsked, BodiesAsked, Asks
  <2>6. ChangesAsked'
    <3> SUFFICES ASSUME NEW x \in Caller, call'[x] # Idle,
                        NEW y \in call'[x].todo \cup call'[x].adding
                 PROVE  /\ y.group # "none" => Asks(y.email, call[x].bucket, y.group)'
                        /\ y.user # Nobody => Address[y.user] = y.email
        BY DEF ChangesAsked
    <3> QED
        BY <2>1, <2>3 DEF AllAsked, ChangesAsked, Asks
  <2> QED
      BY <2>4, <2>5, <2>6 DEF AllAsked
<1>5. ASSUME NEW c \in Caller, DeleteBucket(c) \/ Reply(c) PROVE AllAsked'
  <2>1. UNCHANGED <<member, signUp, asked>> /\ invites' \subseteq invites
      BY <1>5 DEF DeleteBucket, Reply
  <2>2. \A x \in Caller : call'[x] = IF x = c THEN Idle ELSE call[x]
      BY <1>5 DEF DeleteBucket, Reply, TypeOK
  <2> QED
      BY <2>1, <2>2 DEF AllAsked, LevelsAreAsked, InvitesAsked, BodiesAsked, ChangesAsked, Asks
<1>6. ASSUME NEW c \in Caller, UpdateBucketMembers(c) \/ MembershipsRead(c) PROVE AllAsked'
  <2>1. call[c] # Idle
      BY <1>6 DEF UpdateBucketMembers, MembershipsRead, Idle
  <2>2. UNCHANGED <<member, invites, signUp, asked>>
      BY <1>6 DEF UpdateBucketMembers, MembershipsRead
  <2>3. \A x \in Caller : x # c => call'[x] = call[x]
      BY <1>6 DEF UpdateBucketMembers, MembershipsRead, TypeOK
  <2>4. \/ call'[c] = Idle
        \/ /\ call'[c].body = call[c].body /\ call'[c].bucket = call[c].bucket
           /\ call'[c].todo = call[c].todo /\ call'[c].adding = call[c].adding
      BY <1>6, <2>1, CallTyped DEF UpdateBucketMembers, MembershipsRead, TypeOK, Request
  <2>5. BodiesAsked'
    <3> SUFFICES ASSUME NEW x \in Caller, call'[x] # Idle, NEW e \in Email,
                        call'[x].body[e] # "none"
                 PROVE  Asks(e, call[x].bucket, call[x].body[e])'
        BY DEF BodiesAsked
    <3> QED
        BY <2>1, <2>2, <2>3, <2>4 DEF AllAsked, BodiesAsked, Asks
  <2>6. ChangesAsked'
    <3> SUFFICES ASSUME NEW x \in Caller, call'[x] # Idle,
                        NEW y \in call'[x].todo \cup call'[x].adding
                 PROVE  /\ y.group # "none" => Asks(y.email, call[x].bucket, y.group)'
                        /\ y.user # Nobody => Address[y.user] = y.email
        BY DEF ChangesAsked
    <3> QED
        BY <2>1, <2>2, <2>3, <2>4 DEF AllAsked, ChangesAsked, Asks
  <2> QED
      BY <2>2, <2>5, <2>6 DEF AllAsked, LevelsAreAsked, InvitesAsked, Asks
<1>13. ASSUME NEW c \in Caller, BucketRead(c) \/ InvitesRead(c) PROVE AllAsked'
  <2> DEFINE beside == InvitedBeside(call[c].found, call[c].bucket)
  <2>1. call[c] # Idle /\ call[c] \in Request /\ call[c].bucket \in Bucket
    <3>1. call[c].step = "list" \/ call[c].step = "invites"
        BY <1>13, Zenon DEF BucketRead, InvitesRead
    <3> QED
        BY <3>1, CallTyped DEF Idle
  <2>2. UNCHANGED <<member, invites, signUp, asked>>
      BY <1>13 DEF BucketRead, InvitesRead
  <2>3. \A x \in Caller : x # c => call'[x] = call[x]
      BY <1>13 DEF BucketRead, InvitesRead, TypeOK
  <2>4. ASSUME NEW M \in SUBSET Entry, Addressed(M), NEW alone \in BOOLEAN,
               call' = [call EXCEPT ![c] = Compared(c, M, alone)]
        PROVE  AllAsked'
    <3> DEFINE D == ToApply(c, M, alone)
    <3>1. \A d \in D : /\ d \in Change
                       /\ d.group # "none" => d.group = call[c].body[d.email]
                       /\ d.user # Nobody => Address[d.user] = d.email
        BY <2>1, <2>4, ToApplyTyped
    <3>2. call'[c] = Compared(c, M, alone)
        BY <2>4 DEF TypeOK
    <3> HIDE DEF D
    <3>3. /\ call'[c].body = call[c].body /\ call'[c].bucket = call[c].bucket
          /\ call'[c].todo = D /\ call'[c].adding = call[c].adding
        BY <2>1, <3>2 DEF Compared, Request, D
    <3>4. \A d \in D : d.group # "none" => Asks(d.email, call[c].bucket, d.group)
        BY <2>1, <3>1 DEF AllAsked, BodiesAsked, Change
    <3>5. BodiesAsked'
      <4> SUFFICES ASSUME NEW x \in Caller, call'[x] # Idle, NEW e \in Email,
                          call'[x].body[e] # "none"
                   PROVE  Asks(e, call[x].bucket, call[x].body[e])'
          BY DEF BodiesAsked
      <4> QED
          BY <2>1, <2>2, <2>3, <3>3 DEF AllAsked, BodiesAsked, Asks
    <3>6. ChangesAsked'
      <4> SUFFICES ASSUME NEW x \in Caller, call'[x] # Idle,
                          NEW y \in call'[x].todo \cup call'[x].adding
                   PROVE  /\ y.group # "none" => Asks(y.email, call[x].bucket, y.group)'
                          /\ y.user # Nobody => Address[y.user] = y.email
          BY DEF ChangesAsked
      <4> QED
          BY <2>1, <2>2, <2>3, <3>1, <3>3, <3>4 DEF AllAsked, ChangesAsked, Asks
    <3> QED
        BY <2>2, <3>5, <3>6 DEF AllAsked, LevelsAreAsked, InvitesAsked, Asks
  <2>5. CASE BucketRead(c)
    <3>1. CASE bucket[call[c].bucket] = "live"
      <4>1. /\ call'[c].body = call[c].body /\ call'[c].bucket = call[c].bucket
            /\ call'[c].todo = call[c].todo /\ call'[c].adding = call[c].adding
          BY <2>1, <2>5, <3>1 DEF BucketRead, TypeOK, Request
      <4>2. BodiesAsked' /\ ChangesAsked'
          BY <2>1, <2>2, <2>3, <4>1 DEF AllAsked, BodiesAsked, ChangesAsked, Asks
      <4> QED
          BY <2>2, <4>2 DEF AllAsked, LevelsAreAsked, InvitesAsked, Asks
    <3>2. CASE bucket[call[c].bucket] # "live"
      <4>1. call' = [call EXCEPT ![c] = Compared(c, {}, TRUE)]
          BY <2>5, <3>2, Zenon DEF BucketRead
      <4>2. Addressed({}) /\ {} \in SUBSET Entry
          BY DEF Addressed
      <4> QED
          BY <2>4, <4>1, <4>2
    <3> QED
        BY <3>1, <3>2
  <2>6. CASE InvitesRead(c)
    <3>1. PICK M \in Maps(call[c].found \cup beside) :
              call' = [call EXCEPT ![c] = Compared(c, M, call[c].bare /\ beside = {})]
        BY <2>6, Zenon DEF InvitesRead
    <3>2. M \in SUBSET Entry /\ Addressed(M)
      <4>1. Addressed(call[c].found) /\ Addressed(beside)
          BY <2>1, ListingTyped DEF FoundAddressed
      <4> QED
          BY <2>1, <4>1, CallTyped, ListingTyped DEF Maps, Addressed
    <3>3. (call[c].bare /\ beside = {}) \in BOOLEAN
        OBVIOUS
    <3> QED
        BY <2>4, <3>1, <3>2, <3>3
  <2> QED
      BY <1>13, <2>5, <2>6
<1>7. ASSUME NEW c \in Caller, NEW d \in Change, AddMemberRead(c, d) PROVE AllAsked'
  <2>1. call[c] # Idle /\ d \in call[c].todo
      BY <1>7 DEF AddMemberRead, Turn, Idle
  <2>2. UNCHANGED <<member, invites, signUp, asked>>
      BY <1>7 DEF AddMemberRead
  <2>3. PICK v \in User \cup {Nobody} :
            /\ v # Nobody => Address[v] = d.email
            /\ call' = [call EXCEPT ![c].adding = {[d EXCEPT !.user = v]}]
      BY <1>7 DEF AddMemberRead, Live
  <2> DEFINE a == [d EXCEPT !.user = v]
  <2>4. a.group = d.group /\ a.email = d.email /\ a.user = v
      BY DEF Change
  <2> HIDE DEF a
  <2>5. call' = [call EXCEPT ![c].adding = {a}]
      BY <2>3 DEF a
  <2>6. \A x \in Caller : x # c => call'[x] = call[x]
      BY <2>5 DEF TypeOK
  <2>7. /\ call'[c].body = call[c].body /\ call'[c].bucket = call[c].bucket
        /\ call'[c].todo = call[c].todo /\ call'[c].adding = {a}
      BY <2>1, <2>5, CallTyped DEF TypeOK, Request
  <2>8. BodiesAsked'
    <3> SUFFICES ASSUME NEW x \in Caller, call'[x] # Idle, NEW e \in Email,
                        call'[x].body[e] # "none"
                 PROVE  Asks(e, call[x].bucket, call[x].body[e])'
        BY DEF BodiesAsked
    <3> QED
        BY <2>1, <2>2, <2>6, <2>7 DEF AllAsked, BodiesAsked, Asks
  <2>9. ChangesAsked'
    <3> SUFFICES ASSUME NEW x \in Caller, call'[x] # Idle,
                        NEW y \in call'[x].todo \cup call'[x].adding
                 PROVE  /\ y.group # "none" => Asks(y.email, call[x].bucket, y.group)'
                        /\ y.user # Nobody => Address[y.user] = y.email
        BY DEF ChangesAsked
    <3> QED
        BY <2>1, <2>2, <2>3, <2>4, <2>6, <2>7 DEF AllAsked, ChangesAsked, Asks
  <2> QED
      BY <2>2, <2>8, <2>9 DEF AllAsked, LevelsAreAsked, InvitesAsked, Asks
<1>8. ASSUME NEW c \in Caller, NEW d \in Change, AddMember(c, d) PROVE AllAsked'
  <2> DEFINE b == call[c].bucket
             new == [id |-> CHOOSE k \in InviteId : k \notin UsedIds, email |-> d.email,
                     bucket |-> b, group |-> d.group, by |-> call[c].actor]
  <2>1. /\ call[c] # Idle /\ d \in call[c].todo /\ d.do = "add"
        /\ \A a \in call[c].adding : a.email = d.email
      BY <1>8 DEF AddMember, Turn, Idle
  <2>2. b \in Bucket /\ call[c].adding \subseteq Change
      BY <2>1, CallTyped
  <2>3. d.group # "none" /\ Asks(d.email, b, d.group)
      BY <2>1 DEF Change, AllAsked, ChangesAsked
  <2>4. \A u \in User, x \in Bucket : member[u][x] # "none" => Asks(Address[u], x, member[u][x])
      BY DEF AllAsked, LevelsAreAsked, Asks
  <2>5. \A i \in invites : Asks(i.email, i.bucket, i.group)
      BY DEF AllAsked, InvitesAsked
  <2>6. \A i \in invites \cup {new} : Asks(i.email, i.bucket, i.group)
      BY <2>3, <2>5
  <2>7. PICK a \in call[c].adding :
            \/ /\ a.user # Nobody
               /\ Apply(c, d, IF member[a.user][b] = "none" THEN SetLevel(a.user, b, d.group)
                                                            ELSE member, invites)
            \/ Apply(c, d, member, invites)
            \/ Apply(c, d, member, invites \cup {new})
      BY <1>8 DEF AddMember
  <2> HIDE DEF b, new
  <2>8. CASE a.user # Nobody /\ Apply(c, d, SetLevel(a.user, b, d.group), invites)
    <3>1. a.user \in User /\ Address[a.user] = d.email
        BY <2>1, <2>2, <2>8 DEF Change, AllAsked, ChangesAsked
    <3>2. \A u \in User, x \in Bucket :
              SetLevel(a.user, b, d.group)[u][x] # "none"
              => Asks(Address[u], x, SetLevel(a.user, b, d.group)[u][x])
        BY <2>2, <2>3, <3>1, SetLevelAsked
    <3> QED
        BY <2>1, <2>5, <2>8, <3>2, ApplyAsked
  <2>9. CASE Apply(c, d, member, invites)
      BY <2>1, <2>4, <2>5, <2>9, ApplyAsked
  <2>10. CASE Apply(c, d, member, invites \cup {new})
      BY <2>1, <2>4, <2>6, <2>10, ApplyAsked
  <2> QED
      BY <2>7, <2>8, <2>9, <2>10
<1>9. ASSUME NEW c \in Caller, NEW d \in Change, UpdateMember(c, d) PROVE AllAsked'
  <2> DEFINE b == call[c].bucket
             I == InvitesFor(d.email, b)
             AtLevel(i) == [i EXCEPT !.group = d.group]
             J == (invites \ I) \cup {AtLevel(i) : i \in I}
  <2>1. call[c] # Idle /\ d \in call[c].todo /\ d.do = "update"
      BY <1>9 DEF UpdateMember, Turn, Idle
  <2>2. b \in Bucket
      BY <2>1, CallTyped
  <2>3. /\ d.group # "none" /\ Asks(d.email, b, d.group)
        /\ d.user # Nobody => d.user \in User /\ Address[d.user] = d.email
      BY <2>1 DEF Change, AllAsked, ChangesAsked
  <2>4. \A u \in User, x \in Bucket : member[u][x] # "none" => Asks(Address[u], x, member[u][x])
      BY DEF AllAsked, LevelsAreAsked, Asks
  <2>5. \A i \in invites : Asks(i.email, i.bucket, i.group)
      BY DEF AllAsked, InvitesAsked
  <2>6. \A i \in J : Asks(i.email, i.bucket, i.group)
    <3>1. \A i \in I : /\ AtLevel(i).email = d.email
                      /\ AtLevel(i).bucket = b
                      /\ AtLevel(i).group = d.group
        BY DEF InvitesFor, TypeOK, Invite
    <3> HIDE DEF AtLevel
    <3>2. \A j \in {AtLevel(i) : i \in I} :
              j.email = d.email /\ j.bucket = b /\ j.group = d.group
        BY <3>1
    <3> QED
        BY <2>3, <2>5, <3>2
  <2>7. \/ d.user # Nobody /\ Apply(c, d, SetLevel(d.user, b, d.group), invites)
        \/ Apply(c, d, member, invites)
        \/ Apply(c, d, member, J)
      BY <1>9 DEF UpdateMember
  <2> HIDE DEF b, J
  <2>8. CASE d.user # Nobody /\ Apply(c, d, SetLevel(d.user, b, d.group), invites)
    <3>1. \A u \in User, x \in Bucket :
              SetLevel(d.user, b, d.group)[u][x] # "none"
              => Asks(Address[u], x, SetLevel(d.user, b, d.group)[u][x])
        BY <2>2, <2>3, <2>8, SetLevelAsked
    <3> QED
        BY <2>1, <2>5, <2>8, <3>1, ApplyAsked
  <2>9. CASE Apply(c, d, member, invites)
      BY <2>1, <2>4, <2>5, <2>9, ApplyAsked
  <2>10. CASE Apply(c, d, member, J)
      BY <2>1, <2>4, <2>6, <2>10, ApplyAsked
  <2> QED
      BY <2>7, <2>8, <2>9, <2>10
<1>10. ASSUME NEW c \in Caller, NEW d \in Change, DeleteMember(c, d) PROVE AllAsked'
  <2> DEFINE b == call[c].bucket
             J == invites \ InvitesFor(d.email, b)
  <2>1. call[c] # Idle /\ d \in call[c].todo
      BY <1>10 DEF DeleteMember, Turn, Idle
  <2>2. b \in Bucket /\ (d.user # Nobody => d.user \in User)
      BY <2>1, CallTyped DEF Change
  <2>3. \A u \in User, x \in Bucket : member[u][x] # "none" => Asks(Address[u], x, member[u][x])
      BY DEF AllAsked, LevelsAreAsked, Asks
  <2>4. \A i \in invites \cup J : Asks(i.email, i.bucket, i.group)
      BY DEF AllAsked, InvitesAsked
  <2>5. \/ d.user # Nobody /\ Apply(c, d, SetLevel(d.user, b, "none"), invites)
        \/ Apply(c, d, member, J)
      BY <1>10 DEF DeleteMember
  <2> HIDE DEF b, J
  <2>6. CASE d.user # Nobody /\ Apply(c, d, SetLevel(d.user, b, "none"), invites)
    <3>1. \A u \in User, x \in Bucket :
              SetLevel(d.user, b, "none")[u][x] # "none"
              => Asks(Address[u], x, SetLevel(d.user, b, "none")[u][x])
        BY <2>2, <2>6, SetLevelAsked
    <3> QED
        BY <2>1, <2>4, <2>6, <3>1, ApplyAsked
  <2>7. CASE Apply(c, d, member, J)
      BY <2>1, <2>3, <2>4, <2>7, ApplyAsked
  <2> QED
      BY <2>5, <2>6, <2>7
<1>11. ASSUME NEW c \in Caller, NEW d \in Change, ChangeFails(c, d) PROVE AllAsked'
  <2>1. call[c] # Idle
      BY <1>11 DEF ChangeFails, Turn, Idle
  <2>2. UNCHANGED <<member, invites, signUp, asked>>
      BY <1>11 DEF ChangeFails
  <2>3. \A x \in Caller : x # c => call'[x] = call[x]
      BY <1>11 DEF ChangeFails, TypeOK
  <2>4. /\ call'[c].body = call[c].body /\ call'[c].bucket = call[c].bucket
        /\ call'[c].todo = call[c].todo \ {d} /\ call'[c].adding = {}
      BY <2>1, <1>11, CallTyped DEF ChangeFails, TypeOK, Request
  <2>5. BodiesAsked'
    <3> SUFFICES ASSUME NEW x \in Caller, call'[x] # Idle, NEW e \in Email,
                        call'[x].body[e] # "none"
                 PROVE  Asks(e, call[x].bucket, call[x].body[e])'
        BY DEF BodiesAsked
    <3> QED
        BY <2>1, <2>2, <2>3, <2>4 DEF AllAsked, BodiesAsked, Asks
  <2>6. ChangesAsked'
    <3> SUFFICES ASSUME NEW x \in Caller, call'[x] # Idle,
                        NEW y \in call'[x].todo \cup call'[x].adding
                 PROVE  /\ y.group # "none" => Asks(y.email, call[x].bucket, y.group)'
                        /\ y.user # Nobody => Address[y.user] = y.email
        BY DEF ChangesAsked
    <3> QED
        BY <2>1, <2>2, <2>3, <2>4 DEF AllAsked, ChangesAsked, Asks
  <2> QED
      BY <2>2, <2>5, <2>6 DEF AllAsked, LevelsAreAsked, InvitesAsked, Asks
<1>12. CASE UNCHANGED vars
    BY <1>12 DEF vars, AllAsked, LevelsAreAsked, InvitesAsked, BodiesAsked, ChangesAsked, Asks
<1> QED
  <2>1. NoBody \in [Email -> Level]
      BY DEF NoBody, Level
  <2> QED
      BY <1>1, <1>2, <1>3, <1>4, <1>5, <1>6, <1>7, <1>8, <1>9, <1>10, <1>11, <1>12, <1>13, <2>1
         DEF Next, Users, Begin, Continue

(* Nobody gets into a bucket at a level that no owner asked for: not by a  *)
(* sign-up, not by an update that overlaps with one or with another.       *)
THEOREM LevelsWereAsked == Spec => []LevelsAreAsked
<1>1. AllAsked => LevelsAreAsked
    BY DEF AllAsked
<1> QED
    BY <1>1, TypeInit, TypeStep, FoundInit, FoundStep, AskedInit, AskedStep, PTL DEF Spec

-----------------------------------------------------------------------------
(* UpdateAchieves is about the end of an update; what holds on the way is  *)
(* that each difference still to be applied fits what its address has, and *)
(* that the addresses without one have what the list says (Steady).  That a*)
(* difference is the only one of its address rests on two facts: of the    *)
(* accounts that are live or being created, one at most has an address     *)
(* (OneAccount), and the bucket keeps one row at most for each (OneRow).   *)
Holders(e, b) == {u \in Live : Address[u] = e /\ member[u][b] # "none"}

OneAccount ==
    \A u, v \in User : /\ Address[u] = Address[v]
                       /\ account[u] \in {"signing", "live"}
                       /\ account[v] \in {"signing", "live"}
                       => u = v

OneRow(b) ==
    \A e \in Email : /\ \A i, j \in InvitesFor(e, b) : i = j
                     /\ Holders(e, b) = {} \/ InvitesFor(e, b) = {}

Fits(c, d) ==
    LET b == call[c].bucket IN
    /\ d.group = call[c].body[d.email]
    /\ d.do = "add" => /\ d.user = Nobody
                       /\ Holders(d.email, b) = {} /\ InvitesFor(d.email, b) = {}
    /\ d.do # "add" => /\ d.email # Address[call[c].actor]
                       /\ d.user = Nobody => InvitesFor(d.email, b) # {}
                       /\ d.user # Nobody => d.user \in Holders(d.email, b)

Achieved(c, e) ==
    LET b == call[c].bucket
        g == call[c].body[e]
    IN  /\ \A u \in Holders(e, b) : member[u][b] = g
        /\ \A i \in InvitesFor(e, b) : i.group = g
        /\ g # "none" => Holders(e, b) # {} \/ InvitesFor(e, b) # {}

LookedUp(a) ==
    /\ a.user = Nobody => ~\E v \in Live : Address[v] = a.email
    /\ a.user # Nobody => a.user \in Live /\ Address[a.user] = a.email

Steady(c) ==
    /\ call[c].step = "apply"
    /\ bucket[call[c].bucket] = "live"
    /\ OneRow(call[c].bucket)
    /\ \A d \in call[c].todo : Fits(c, d)
    /\ \A a \in call[c].adding : LookedUp(a)
    /\ \A e \in Shareable[call[c].actor] \ {Address[call[c].actor]} :
          (\E d \in call[c].todo : d.email = e) \/ Achieved(c, e)

(* Between the two reads: what was read of the memberships is still so.    *)
HasRead(c) ==
    LET b == call[c].bucket IN
    /\ call[c].step = "invites"
    /\ bucket[b] = "live"
    /\ call[c].found = Active(b)
    /\ call[c].bare => call[c].found = {}

Undisturbed(c) == Steady(c) \/ HasRead(c)

NothingLookedUp ==
    \A c \in Caller : call[c] # Idle /\ call[c].step # "apply" => call[c].adding = {}

QuietInv == OneAccount /\ NothingLookedUp /\ \A c \in quiet : Undisturbed(c)

(* The listing of an address, by the rows it comes from.                   *)
LEMMA ListedRows ==
    ASSUME TypeOK, NEW b \in Bucket, OneRow(b), NEW e \in Email
    PROVE  ListedAt(e, b) = {member[u][b] : u \in Holders(e, b)}
                            \cup {i.group : i \in InvitesFor(e, b)}
<1> USE DEF TypeOK
<1>1. \A g : (\E m \in Active(b) : m.email = e /\ m.group = g)
             <=> (\E u \in Holders(e, b) : g = member[u][b])
  <2>1. ASSUME NEW u \in Holders(e, b)
        PROVE  \E m \in Active(b) : m.email = e /\ m.group = member[u][b]
    <3>1. u \in Live /\ Address[u] = e /\ member[u][b] # "none"
        BY DEF Holders
    <3>2. [email |-> Address[u], user |-> u, group |-> member[u][b]] \in Active(b)
        BY <3>1 DEF Active
    <3> QED
        BY <3>1, <3>2
  <2>2. ASSUME NEW m \in Active(b), m.email = e
        PROVE  \E u \in Holders(e, b) : m.group = member[u][b]
      BY <2>2 DEF Active, Holders
  <2> QED
      BY <2>1, <2>2
<1>2. \A g : (\E m \in Invited(b) : m.email = e /\ m.group = g)
             <=> (\E i \in InvitesFor(e, b) : g = i.group)
  <2>1. ASSUME NEW i \in InvitesFor(e, b)
        PROVE  ~\E m \in Active(b) : m.email = i.email
    <3>1. Holders(e, b) = {} /\ i.email = e
        BY <2>1 DEF OneRow, InvitesFor
    <3> QED
        BY <3>1 DEF Active, Holders
  <2>2. ASSUME NEW g, NEW i \in InvitesFor(e, b), g = i.group
        PROVE  \E m \in Invited(b) : m.email = e /\ m.group = g
    <3>1. i \in invites /\ i.email = e /\ i.bucket = b
        BY DEF InvitesFor
    <3>2. [email |-> i.email, user |-> Nobody, group |-> i.group] \in Invited(b)
        BY <2>1, <3>1 DEF Invited, InvitedBeside
    <3> QED
        BY <2>2, <3>1, <3>2
  <2>3. ASSUME NEW g, NEW m \in Invited(b), m.email = e, m.group = g
        PROVE  \E i \in InvitesFor(e, b) : g = i.group
      BY <2>3 DEF Invited, InvitedBeside, InvitesFor
  <2> QED
      BY <2>2, <2>3
<1>3. \A g : g \in ListedAt(e, b)
             <=> \/ \E m \in Active(b) : m.email = e /\ m.group = g
                 \/ \E m \in Invited(b) : m.email = e /\ m.group = g
    BY DEF ListedAt
<1> QED
    BY <1>1, <1>2, <1>3

(* An update with nothing left to apply has achieved what it was to.       *)
LEMMA SteadyAchieves ==
    ASSUME TypeOK, QuietInv
    PROVE  UpdateAchieves
<1> SUFFICES ASSUME NEW c \in Caller, c \in quiet, Updated(c),
                    NEW e \in Shareable[call[c].actor] \ {Address[call[c].actor]}
             PROVE  ListedAt(e, call[c].bucket) = {call[c].body[e]} \ {"none"}
    BY DEF UpdateAchieves
<1> DEFINE b == call[c].bucket
           g == call[c].body[e]
<1>1. call[c] # Idle /\ call[c].todo = {} /\ Steady(c)
    BY DEF Updated, Idle, QuietInv, Undisturbed, HasRead
<1>2. b \in Bucket /\ e \in Email /\ g \in Level
    BY <1>1, CallTyped, MembersAssumption
<1>3. ListedAt(e, b) = {member[u][b] : u \in Holders(e, b)}
                       \cup {i.group : i \in InvitesFor(e, b)}
    BY <1>1, <1>2, ListedRows DEF Steady
<1>4. /\ \A u \in Holders(e, b) : member[u][b] = g /\ g # "none"
      /\ \A i \in InvitesFor(e, b) : i.group = g /\ g # "none"
      /\ g # "none" => Holders(e, b) # {} \/ InvitesFor(e, b) # {}
  <2>1. Achieved(c, e)
      BY <1>1 DEF Steady
  <2>2. \A u \in Holders(e, b) : member[u][b] # "none"
      BY DEF Holders
  <2>3. \A i \in InvitesFor(e, b) : i.group # "none"
      BY MembersAssumption DEF InvitesFor, TypeOK, Invite
  <2> QED
      BY <2>1, <2>2, <2>3 DEF Achieved
<1> HIDE DEF b, g
<1>5. ListedAt(e, b) = {g} \ {"none"}
    BY <1>3, <1>4
<1> QED
    BY <1>5 DEF b, g

(* What a step leaves alone: the accounts and rows of the bucket, and the  *)
(* request of the caller.                                                  *)
LEMMA SteadyStays ==
    ASSUME NEW c \in Caller, Steady(c), call'[c] = call[c], Live' = Live,
           invites' = invites, bucket'[call[c].bucket] = "live",
           \A u \in User : member'[u][call[c].bucket] = member[u][call[c].bucket]
    PROVE  Steady(c)'
<1> DEFINE b == call[c].bucket
<1>1. \A e : Holders(e, b)' = Holders(e, b) /\ InvitesFor(e, b)' = InvitesFor(e, b)
    BY DEF Holders, InvitesFor, Live
<1>2. OneRow(call[c].bucket)'
    BY <1>1 DEF Steady, OneRow
<1>3. \A d \in call[c].todo : Fits(c, d)'
    BY <1>1 DEF Steady, Fits
<1>4. \A a \in call[c].adding : LookedUp(a)'
    BY DEF Steady, LookedUp
<1>5. \A e : Achieved(c, e) => Achieved(c, e)'
    BY <1>1 DEF Achieved, Holders, Live
<1> QED
    BY <1>2, <1>3, <1>4, <1>5 DEF Steady

LEMMA ReadStays ==
    ASSUME NEW c \in Caller, HasRead(c), call'[c] = call[c], Live' = Live,
           bucket'[call[c].bucket] = "live",
           \A u \in User : member'[u][call[c].bucket] = member[u][call[c].bucket]
    PROVE  HasRead(c)'
<1>1. Active(call[c].bucket)' = Active(call[c].bucket)
    BY DEF Active, Live
<1> QED
    BY <1>1 DEF HasRead

LEMMA UndisturbedStays ==
    ASSUME NEW c \in Caller, Undisturbed(c), call'[c] = call[c], Live' = Live,
           invites' = invites, bucket'[call[c].bucket] = "live",
           \A u \in User : member'[u][call[c].bucket] = member[u][call[c].bucket]
    PROVE  Undisturbed(c)'
    BY SteadyStays, ReadStays DEF Undisturbed

(* One difference for each address.                                        *)
LEMMA OneChange ==
    ASSUME TypeOK, OneAccount, NEW c \in Caller, Steady(c),
           NEW d \in call[c].todo, NEW x \in call[c].todo, d.email = x.email
    PROVE  d = x
<1> DEFINE b == call[c].bucket
<1>1. call[c] # Idle
    BY DEF Steady, Idle
<1>2. d \in Change /\ x \in Change
    BY <1>1, CallTyped
<1>3. Fits(c, d) /\ Fits(c, x) /\ OneRow(b)
    BY DEF Steady
<1>4. d.group = x.group
    BY <1>3 DEF Fits
<1>5. d.do = x.do
  <2>1. d.do = "add" <=> x.do = "add"
    <3>1. ASSUME NEW y \in Change, Fits(c, y), y.do # "add"
          PROVE  ~(Holders(y.email, b) = {} /\ InvitesFor(y.email, b) = {})
        BY <3>1 DEF Fits
    <3> QED
        BY <1>2, <1>3, <3>1 DEF Fits
  <2>2. d.do = "delete" <=> d.group = "none"
      BY <1>2, MembersAssumption DEF Change
  <2>3. x.do = "delete" <=> x.group = "none"
      BY <1>2, MembersAssumption DEF Change
  <2> QED
      BY <1>2, <1>4, <2>1, <2>2, <2>3 DEF Change
<1>6. d.user = x.user
  <2>1. CASE d.do = "add"
      BY <1>3, <1>5, <2>1 DEF Fits
  <2>2. CASE d.do # "add"
    <3>1. \A u, v \in Holders(d.email, b) : u = v
        BY DEF Holders, OneAccount, Live
    <3>2. Holders(d.email, b) = {} \/ InvitesFor(d.email, b) = {}
        BY <1>2, <1>3 DEF OneRow, Change
    <3> QED
        BY <1>3, <1>5, <2>2, <3>1, <3>2 DEF Fits
  <2> QED
      BY <2>1, <2>2
<1>7. /\ d = [do |-> d.do, email |-> d.email, user |-> d.user, group |-> d.group]
      /\ x = [do |-> x.do, email |-> x.email, user |-> x.user, group |-> x.group]
    BY <1>2 DEF Change
<1> QED
    BY <1>4, <1>5, <1>6, <1>7

(* The transaction of a difference that gives its address what the list    *)
(* says, and touches no other address of the bucket.                       *)
LEMMA SteadyApplied ==
    ASSUME TypeOK, OneAccount, NEW c \in Caller, Steady(c), NEW d \in call[c].todo,
           NEW m, NEW I, Apply(c, d, m, I),
           \A v \in User : Address[v] # d.email
                           => m[v][call[c].bucket] = member[v][call[c].bucket],
           \A e \in Email \ {d.email} : InvitesFor(e, call[c].bucket)'
                                        = InvitesFor(e, call[c].bucket),
           \A i, j \in InvitesFor(d.email, call[c].bucket)' : i = j,
           \/ Holders(d.email, call[c].bucket)' = {}
           \/ InvitesFor(d.email, call[c].bucket)' = {},
           Achieved(c, d.email)'
    PROVE  Steady(c)'
<1> DEFINE b == call[c].bucket
<1>1. call[c] # Idle
    BY DEF Steady, Idle
<1>2. /\ call'[c].step = "apply" /\ call'[c].actor = call[c].actor
      /\ call'[c].body = call[c].body /\ call'[c].bucket = b
      /\ call'[c].todo = call[c].todo \ {d} /\ call'[c].adding = {}
    BY <1>1, CallTyped DEF Apply, TypeOK, Request, Steady
<1>3. Live' = Live /\ bucket' = bucket /\ member' = m
    BY DEF Apply, Live
<1>4. \A e \in Email \ {d.email} : /\ Holders(e, b)' = Holders(e, b)
                                   /\ \A u \in Holders(e, b) : member'[u][b] = member[u][b]
    BY <1>2, <1>3 DEF Holders, Live
<1>5. \A e \in Email \ {d.email} : InvitesFor(e, b)' = InvitesFor(e, b)
    BY <1>2
<1>6. d.email \in Email /\ \A x \in call[c].todo : x.email \in Email
    BY <1>1, CallTyped DEF Change
<1>7. OneRow(call[c].bucket)'
  <2> SUFFICES ASSUME NEW e \in Email
               PROVE  /\ \A i, j \in InvitesFor(e, b)' : i = j
                      /\ Holders(e, b)' = {} \/ InvitesFor(e, b)' = {}
      BY <1>2 DEF OneRow
  <2> HIDE DEF b
  <2>1. CASE e = d.email
      BY <1>2, <2>1 DEF b
  <2>2. CASE e # d.email
      BY <1>4, <1>5, <2>2 DEF Steady, OneRow, b
  <2> QED
      BY <2>1, <2>2
<1>8. \A x \in call'[c].todo : Fits(c, x)'
  <2> SUFFICES ASSUME NEW x \in call[c].todo, x # d PROVE Fits(c, x)'
      BY <1>2
  <2>1. x.email # d.email /\ x.email \in Email
      BY <1>6, OneChange
  <2>2. Fits(c, x)
      BY DEF Steady
  <2>3. Holders(x.email, b)' = Holders(x.email, b)
        /\ InvitesFor(x.email, b)' = InvitesFor(x.email, b)
      BY <1>4, <1>5, <2>1
  <2> QED
      BY <1>2, <2>2, <2>3 DEF Fits
<1>9. ASSUME NEW e \in Shareable[call[c].actor] \ {Address[call[c].actor]},
             ~\E x \in call'[c].todo : x.email = e
      PROVE  Achieved(c, e)'
  <2>3. e \in Email
      BY <1>1, CallTyped, MembersAssumption
  <2>1. CASE e = d.email
      BY <2>1
  <2>2. CASE e # d.email
    <3>1. ~\E x \in call[c].todo : x.email = e
        BY <1>2, <1>9, <2>2
    <3>2. Achieved(c, e)
        BY <3>1 DEF Steady
    <3>3. /\ Holders(e, b)' = Holders(e, b) /\ InvitesFor(e, b)' = InvitesFor(e, b)
          /\ \A u \in Holders(e, b) : member'[u][b] = member[u][b]
        BY <1>4, <1>5, <2>2, <2>3
    <3> QED
        BY <1>2, <3>2, <3>3 DEF Achieved
  <2> QED
      BY <2>1, <2>2
<1> QED
    BY <1>2, <1>3, <1>7, <1>8, <1>9 DEF Steady

(* A difference that sets the level of the account that has the address.   *)
LEMMA SteadyMember ==
    ASSUME TypeOK, OneAccount, NEW c \in Caller, Steady(c), NEW d \in call[c].todo,
           NEW u \in Live, Address[u] = d.email, InvitesFor(d.email, call[c].bucket) = {},
           Apply(c, d, SetLevel(u, call[c].bucket, d.group), invites)
    PROVE  Steady(c)'
<1> DEFINE b == call[c].bucket
<1>1. call[c] # Idle
    BY DEF Steady, Idle
<1>2. b \in Bucket /\ u \in User /\ d \in Change
    BY <1>1, CallTyped DEF Live
<1>3. call'[c].bucket = b /\ call'[c].body = call[c].body /\ invites' = invites /\ Live' = Live
    BY <1>1, CallTyped DEF Apply, TypeOK, Request, Live
<1>4. \A v \in User : SetLevel(u, b, d.group)[v][b] = IF v = u THEN d.group ELSE member[v][b]
    BY <1>2 DEF SetLevel, TypeOK
<1>5. \A v \in User : member'[v][b] = IF v = u THEN d.group ELSE member[v][b]
    BY <1>4 DEF Apply
<1>6. \A e : InvitesFor(e, b)' = InvitesFor(e, b)
    BY <1>3 DEF InvitesFor
<1>7. d.group = call[c].body[d.email]
    BY DEF Steady, Fits
<1>8. \A v \in Live : Address[v] = d.email => v = u
    BY DEF OneAccount, Live
<1>9. Holders(d.email, b)' = IF d.group = "none" THEN {} ELSE {u}
  <2> HIDE DEF b
  <2>1. \A v : v \in Holders(d.email, b)' <=> v = u /\ d.group # "none"
    <3>1. \A v : v \in Holders(d.email, b)'
                 <=> /\ v \in Live /\ Address[v] = d.email
                     /\ member'[v][call'[c].bucket] # "none"
        BY <1>3 DEF Holders, b
    <3> QED
        BY <1>2, <1>3, <1>5, <1>8, <3>1 DEF Live, b
  <2> QED
      BY <2>1
<1>10. Achieved(c, d.email)'
    BY <1>2, <1>3, <1>5, <1>6, <1>7, <1>9 DEF Achieved
<1> QED
    BY <1>2, <1>4, <1>6, <1>10, SteadyApplied

(* A difference that writes the invites of the address, which no account   *)
(* that is a member has.                                                   *)
LEMMA SteadyInvite ==
    ASSUME TypeOK, OneAccount, NEW c \in Caller, Steady(c), NEW d \in call[c].todo, NEW I,
           Holders(d.email, call[c].bucket) = {}, Apply(c, d, member, I),
           \A i \in (I \ invites) \cup (invites \ I) :
               i.bucket = call[c].bucket /\ i.email = d.email,
           \A i, j \in I : /\ i.bucket = call[c].bucket /\ i.email = d.email
                           /\ j.bucket = call[c].bucket /\ j.email = d.email
                           => i = j /\ i.group = d.group,
           (\E i \in I : i.bucket = call[c].bucket /\ i.email = d.email) <=> d.group # "none"
    PROVE  Steady(c)'
<1> DEFINE b == call[c].bucket
<1>1. call[c] # Idle
    BY DEF Steady, Idle
<1>2. /\ call'[c].bucket = b /\ call'[c].body = call[c].body
      /\ invites' = I /\ Live' = Live /\ member' = member
    BY <1>1, CallTyped DEF Apply, TypeOK, Request, Live
<1>3. Holders(d.email, b)' = {}
    BY <1>2 DEF Holders, Live
<1>4. \A e : e # d.email => InvitesFor(e, b)' = InvitesFor(e, b)
    BY <1>2 DEF InvitesFor
<1>5. \A i, j \in InvitesFor(d.email, b)' : i = j /\ i.group = d.group
    BY <1>2 DEF InvitesFor
<1>6. InvitesFor(d.email, b)' # {} <=> d.group # "none"
    BY <1>2 DEF InvitesFor
<1>7. d.group = call[c].body[d.email]
    BY DEF Steady, Fits
<1>8. Achieved(c, d.email)'
    BY <1>2, <1>3, <1>5, <1>6, <1>7 DEF Achieved
<1> QED
    BY <1>3, <1>4, <1>5, <1>8, SteadyApplied

(* Each transaction keeps the update steady.                               *)
LEMMA SteadyAdd ==
    ASSUME TypeOK, OneAccount, NEW c \in Caller, Steady(c), NEW d \in Change, AddMember(c, d)
    PROVE  Steady(c)'
<1> DEFINE b == call[c].bucket
           new == [id |-> CHOOSE k \in InviteId : k \notin UsedIds, email |-> d.email,
                   bucket |-> b, group |-> d.group, by |-> call[c].actor]
<1>1. d \in call[c].todo /\ d.do = "add"
    BY DEF AddMember, Turn
<1>2. Holders(d.email, b) = {} /\ InvitesFor(d.email, b) = {} /\ d.group # "none"
    BY <1>1, MembersAssumption DEF Steady, Fits, Change
<1>3. PICK a \in call[c].adding :
          /\ a.email = d.email
          /\ \/ /\ a.user # Nobody
                /\ Apply(c, d, IF member[a.user][b] = "none" THEN SetLevel(a.user, b, d.group)
                                                             ELSE member, invites)
             \/ /\ \E i \in InvitesFor(d.email, b) : i.group = d.group
                /\ Apply(c, d, member, invites)
             \/ a.user = Nobody /\ Apply(c, d, member, invites \cup {new})
    BY DEF AddMember, Turn
<1>4. LookedUp(a)
    BY DEF Steady
<1> HIDE DEF new
<1>5. CASE a.user # Nobody /\ Apply(c, d, IF member[a.user][b] = "none"
                                          THEN SetLevel(a.user, b, d.group)
                                          ELSE member, invites)
  <2>1. a.user \in Live /\ Address[a.user] = d.email
      BY <1>3, <1>4, <1>5 DEF LookedUp
  <2>2. member[a.user][b] = "none"
      BY <1>2, <2>1 DEF Holders
  <2> QED
      BY <1>1, <1>2, <1>5, <2>1, <2>2, SteadyMember
<1>6. CASE \E i \in InvitesFor(d.email, b) : i.group = d.group
    BY <1>2, <1>6
<1>7. CASE a.user = Nobody /\ Apply(c, d, member, invites \cup {new})
  <2>1. new.email = d.email /\ new.bucket = b /\ new.group = d.group
      BY DEF new
  <2>2. \A i \in invites \cup {new} : i.bucket = b /\ i.email = d.email => i = new
      BY <1>2 DEF InvitesFor
  <2> QED
      BY <1>1, <1>2, <1>7, <2>1, <2>2, SteadyInvite
<1> QED
    BY <1>3, <1>5, <1>6, <1>7

LEMMA SteadyUpdate ==
    ASSUME TypeOK, OneAccount, NEW c \in Caller, Steady(c), NEW d \in Change, UpdateMember(c, d)
    PROVE  Steady(c)'
<1> DEFINE b == call[c].bucket
           I == InvitesFor(d.email, b)
           AtLevel(i) == [i EXCEPT !.group = d.group]
           J == (invites \ I) \cup {AtLevel(i) : i \in I}
<1>1. d \in call[c].todo /\ d.do = "update" /\ d.group # "none" /\ d.email \in Email
    BY MembersAssumption DEF UpdateMember, Turn, Change
<1>2. /\ d.user = Nobody => I # {}
      /\ d.user # Nobody => d.user \in Holders(d.email, b)
      /\ \A i, j \in I : i = j
      /\ Holders(d.email, b) = {} \/ I = {}
    BY <1>1 DEF Steady, Fits, OneRow
<1>3. CASE d.user # Nobody
  <2>1. /\ d.user \in Live /\ Address[d.user] = d.email /\ I = {}
        /\ member[d.user][b] # "none"
      BY <1>2, <1>3 DEF Holders
  <2>2. Apply(c, d, SetLevel(d.user, b, d.group), invites)
      BY <1>3, <2>1 DEF UpdateMember
  <2> QED
      BY <1>1, <2>1, <2>2, SteadyMember
<1>4. CASE d.user = Nobody
  <2>1. Holders(d.email, b) = {}
      BY <1>2, <1>4
  <2>2. Apply(c, d, member, J)
      BY <1>2, <1>4 DEF UpdateMember, Convertible
  <2>3. \A i \in I : AtLevel(i).email = d.email /\ AtLevel(i).bucket = b
                     /\ AtLevel(i).group = d.group
      BY DEF InvitesFor, TypeOK, Invite
  <2>4. PICK i \in I : I = {i}
      BY <1>2, <1>4
  <2>5. J = (invites \ I) \cup {AtLevel(i)}
      BY <2>4
  <2>6. \A x \in invites : x \in I <=> x.email = d.email /\ x.bucket = b
      BY DEF InvitesFor
  <2> HIDE DEF J, AtLevel, I
  <2>7. \A x \in (J \ invites) \cup (invites \ J) : x.bucket = b /\ x.email = d.email
      BY <2>3, <2>5, <2>6
  <2>8. \A x \in J : x.bucket = b /\ x.email = d.email => x = AtLevel(i)
      BY <2>5, <2>6
  <2> HIDE DEF b
  <2>9. \E x \in J : x.bucket = b /\ x.email = d.email
      BY <2>3, <2>5
  <2> QED
      BY <1>1, <2>1, <2>2, <2>3, <2>7, <2>8, <2>9, SteadyInvite DEF b
<1> QED
    BY <1>3, <1>4

LEMMA SteadyDelete ==
    ASSUME TypeOK, OneAccount, NEW c \in Caller, Steady(c), NEW d \in Change, DeleteMember(c, d)
    PROVE  Steady(c)'
<1> DEFINE b == call[c].bucket
           I == InvitesFor(d.email, b)
<1>1. d \in call[c].todo /\ d.do = "delete" /\ d.group = "none" /\ d.email \in Email
    BY DEF DeleteMember, Turn, Change
<1>2. /\ d.user = Nobody => I # {}
      /\ d.user # Nobody => d.user \in Holders(d.email, b)
      /\ Holders(d.email, b) = {} \/ I = {}
    BY <1>1 DEF Steady, Fits, OneRow
<1>3. CASE d.user # Nobody
  <2>1. d.user \in Live /\ Address[d.user] = d.email /\ I = {}
      BY <1>2, <1>3 DEF Holders
  <2>2. Apply(c, d, SetLevel(d.user, b, d.group), invites)
      BY <1>1, <1>3 DEF DeleteMember
  <2> QED
      BY <1>1, <2>1, <2>2, SteadyMember
<1>4. CASE d.user = Nobody
  <2>1. Holders(d.email, b) = {}
      BY <1>2, <1>4
  <2>2. Apply(c, d, member, invites \ I)
      BY <1>4 DEF DeleteMember
  <2>3. \A x \in invites : x \in I <=> x.email = d.email /\ x.bucket = b
      BY DEF InvitesFor
  <2> HIDE DEF I
  <2> QED
      BY <1>1, <2>1, <2>2, <2>3, SteadyInvite
<1> QED
    BY <1>3, <1>4

(* What GetBucketMembers lists of a bucket with one row for each address:  *)
(* one entry for each, of its account or its invite.                       *)
Listed(b) == Active(b) \cup Invited(b)

OneEntry(b) ==
    /\ \A m \in Listed(b) :
          /\ m.user = Nobody => \E i \in InvitesFor(m.email, b) : i.group = m.group
          /\ m.user # Nobody => m.user \in Holders(m.email, b) /\ m.group = member[m.user][b]
    /\ \A m, n \in Listed(b) : m.email = n.email => m = n
    /\ \A e \in Email : \A u \in Holders(e, b) :
          \E m \in Listed(b) : m.email = e /\ m.group = member[u][b]
    /\ \A e \in Email : \A i \in InvitesFor(e, b) :
          \E m \in Listed(b) : m.email = e /\ m.group = i.group

LEMMA OneListed ==
    ASSUME TypeOK, OneAccount, NEW b \in Bucket, OneRowEach(b)
    PROVE  OneRow(b) /\ OneEntry(b)
<1> USE MembersAssumption
<1>1. \A e : \A u \in Holders(e, b) :
          [email |-> e, user |-> u, group |-> member[u][b]] \in Active(b)
  <2> SUFFICES ASSUME NEW e, NEW u \in Holders(e, b)
               PROVE  [email |-> e, user |-> u, group |-> member[u][b]] \in Active(b)
      OBVIOUS
  <2>1. u \in Live /\ Address[u] = e /\ member[u][b] # "none"
      BY DEF Holders
  <2> QED
      BY <2>1 DEF Active
<1>2. \A m \in Active(b) : /\ m.user # Nobody /\ m.user \in Holders(m.email, b)
                           /\ m.group = member[m.user][b] /\ m.email = Address[m.user]
    BY DEF Active, Holders, Live
<1>3. \A m \in Invited(b) : /\ m.user = Nobody
                            /\ \E i \in InvitesFor(m.email, b) : i.group = m.group
    BY DEF Invited, InvitedBeside, InvitesFor
<1>4. \A e : \A i, j \in InvitesFor(e, b) : i = j
    BY DEF OneRowEach, InvitesFor
<1>5. \A e : \A i \in InvitesFor(e, b) : /\ i \in invites /\ i.bucket = b /\ i.email = e
                                         /\ ~\E m \in Active(b) : m.email = e
    BY DEF OneRowEach, InvitesFor
<1>6. OneRow(b)
    BY <1>1, <1>4, <1>5 DEF OneRow
<1>7. \A e : \A i \in InvitesFor(e, b) :
          [email |-> e, user |-> Nobody, group |-> i.group] \in Invited(b)
  <2> SUFFICES ASSUME NEW e, NEW i \in InvitesFor(e, b)
               PROVE  [email |-> e, user |-> Nobody, group |-> i.group] \in Invited(b)
      OBVIOUS
  <2> QED
      BY <1>5 DEF Invited, InvitedBeside
<1>8. \A m, n \in Active(b) : m.email = n.email => m = n
  <2> SUFFICES ASSUME NEW m \in Active(b), NEW n \in Active(b), m.email = n.email PROVE m = n
      OBVIOUS
  <2>1. m.user = n.user
      BY <1>2 DEF Holders, OneAccount, Live
  <2>2. /\ m = [email |-> m.email, user |-> m.user, group |-> m.group]
        /\ n = [email |-> n.email, user |-> n.user, group |-> n.group]
      BY DEF Active
  <2> QED
      BY <1>2, <2>1, <2>2
<1>9. \A m, n \in Invited(b) : m.email = n.email => m = n
  <2> SUFFICES ASSUME NEW m \in Invited(b), NEW n \in Invited(b), m.email = n.email PROVE m = n
      OBVIOUS
  <2>1. m.group = n.group
      BY <1>3, <1>4
  <2>2. /\ m = [email |-> m.email, user |-> m.user, group |-> m.group]
        /\ n = [email |-> n.email, user |-> n.user, group |-> n.group]
      BY DEF Invited, InvitedBeside
  <2> QED
      BY <1>3, <2>1, <2>2
<1>10. \A m \in Active(b), n \in Invited(b) : m.email # n.email
    BY DEF Invited, InvitedBeside
<1> QED
  <2>1. \A m, n \in Listed(b) : m.email = n.email => m = n
      BY <1>8, <1>9, <1>10 DEF Listed
  <2>2. \A m \in Listed(b) :
            /\ m.user = Nobody => \E i \in InvitesFor(m.email, b) : i.group = m.group
            /\ m.user # Nobody => m.user \in Holders(m.email, b) /\ m.group = member[m.user][b]
      BY <1>2, <1>3 DEF Listed
  <2>3. \A e \in Email : \A u \in Holders(e, b) :
            \E m \in Listed(b) : m.email = e /\ m.group = member[u][b]
    <3> SUFFICES ASSUME NEW e \in Email, NEW u \in Holders(e, b)
                 PROVE  \E m \in Listed(b) : m.email = e /\ m.group = member[u][b]
        OBVIOUS
    <3>1. [email |-> e, user |-> u, group |-> member[u][b]] \in Listed(b)
        BY <1>1 DEF Listed
    <3> QED
        BY <3>1
  <2>4. \A e \in Email : \A i \in InvitesFor(e, b) :
            \E m \in Listed(b) : m.email = e /\ m.group = i.group
    <3> SUFFICES ASSUME NEW e \in Email, NEW i \in InvitesFor(e, b)
                 PROVE  \E m \in Listed(b) : m.email = e /\ m.group = i.group
        OBVIOUS
    <3>1. [email |-> e, user |-> Nobody, group |-> i.group] \in Listed(b)
        BY <1>7 DEF Listed
    <3> QED
        BY <3>1
  <2> QED
      BY <1>6, <2>1, <2>2, <2>3, <2>4, Zenon DEF OneEntry

(* An update that read one row for each address starts steady.             *)
LEMMA SteadyRead ==
    ASSUME TypeOK, OneAccount, NothingLookedUp, NEW c \in Caller, InvitesRead(c),
           HasRead(c), OneRowEach(call[c].bucket)
    PROVE  Steady(c)'
<1> DEFINE b == call[c].bucket
           L == Listed(b)
           own == Address[call[c].actor]
           body == call[c].body
           may == Shareable[call[c].actor]
           alone == call[c].bare /\ Invited(b) = {}
<1> USE MembersAssumption
<1>1. call[c] # Idle /\ call[c].step = "invites"
    BY DEF InvitesRead, Idle
<1>2. /\ b \in Bucket /\ own \in Email /\ body \in [Email -> Level] /\ call[c].adding = {}
      /\ may \subseteq Email /\ (alone => L = {})
    BY <1>1, CallTyped DEF NothingLookedUp, HasRead, Listed
<1>3. /\ OneRow(b)
      /\ \A m \in L : /\ m.user = Nobody => \E i \in InvitesFor(m.email, b) : i.group = m.group
                      /\ m.user # Nobody => /\ m.user \in Holders(m.email, b)
                                            /\ m.group = member[m.user][b]
      /\ \A m, n \in L : m.email = n.email => m = n
      /\ \A e \in Email : \A u \in Holders(e, b) :
            \E m \in L : m.email = e /\ m.group = member[u][b]
      /\ \A e \in Email : \A i \in InvitesFor(e, b) :
            \E m \in L : m.email = e /\ m.group = i.group
  <2>1. OneRow(b) /\ OneEntry(b)
      BY <1>2, OneListed
  <2> QED
      BY <2>1 DEF OneEntry
<1>4. PICK M \in Maps(L) : call' = [call EXCEPT ![c] = Compared(c, M, alone)]
  <2>1. \E M \in Maps(call[c].found \cup InvitedBeside(call[c].found, b)) :
            call' = [call EXCEPT ![c] = Compared(c, M, call[c].bare
                                                       /\ InvitedBeside(call[c].found, b) = {})]
      BY Zenon DEF InvitesRead
  <2>2. call[c].found = Active(b) /\ InvitedBeside(call[c].found, b) = Invited(b)
      BY DEF HasRead, Invited
  <2> QED
      BY <2>1, <2>2, Zenon DEF Listed
<1>5. L \in SUBSET Entry
    BY <1>2, ListingTyped DEF Listed, Invited
<1>6. M = L
  <2> HIDE DEF L
  <2>1. M \subseteq L /\ \A s \in L : \E m \in M : m.email = s.email
      BY DEF Maps
  <2>2. ASSUME NEW s \in L PROVE s \in M
      BY <1>3, <2>1
  <2> QED
      BY <2>1, <2>2
<1> DEFINE C == Compare(L, body, own, alone)
           D == {d \in C : d.email \in may}
<1>7. /\ call'[c].step = "apply" /\ call'[c].bucket = b /\ call'[c].actor = call[c].actor
      /\ call'[c].body = body /\ call'[c].todo = D /\ call'[c].adding = {}
  <2>1. call'[c] = Compared(c, M, alone)
      BY <1>4 DEF TypeOK
  <2>2. ToApply(c, M, alone) = D
      BY <1>6 DEF ToApply
  <2> HIDE DEF D, alone
  <2> QED
      BY <1>1, <1>2, <2>1, <2>2, CallTyped DEF Compared, Request
<1>8. UNCHANGED <<account, bucket, member, invites>>
    BY DEF InvitesRead
<1>9. \A e : Holders(e, b)' = Holders(e, b) /\ InvitesFor(e, b)' = InvitesFor(e, b)
    BY <1>7, <1>8 DEF Holders, InvitesFor, Live
<1>10. OneRow(call[c].bucket)'
    BY <1>3, <1>7, <1>9 DEF OneRow
<1>11. ASSUME NEW d \in D PROVE Fits(c, d)'
  <2>1. \/ \E e \in Email :
              /\ body[e] # "none" /\ (e # own \/ alone)
              /\ ~\E m \in {n \in L : n.email # own} : m.email = e
              /\ d = [do |-> "add", email |-> e, user |-> Nobody, group |-> body[e]]
        \/ \E m \in L : /\ m.email # own
                        /\ d = [do |-> "update", email |-> m.email, user |-> m.user,
                                group |-> body[m.email]]
        \/ \E m \in L : /\ m.email # own /\ body[m.email] = "none"
                        /\ d = [do |-> "delete", email |-> m.email, user |-> m.user,
                                group |-> "none"]
      BY DEF Compare
  <2> SUFFICES /\ d.group = body[d.email]
               /\ d.do = "add" => /\ d.user = Nobody
                                  /\ Holders(d.email, b) = {} /\ InvitesFor(d.email, b) = {}
               /\ d.do # "add" => /\ d.email # own
                                  /\ d.user = Nobody => InvitesFor(d.email, b) # {}
                                  /\ d.user # Nobody => d.user \in Holders(d.email, b)
    <3> QED
        BY <1>7, <1>9 DEF Fits, own
  <2> HIDE DEF b, own, body, alone
  <2>2. CASE \E e \in Email :
                /\ body[e] # "none" /\ (e # own \/ alone)
                /\ ~\E m \in {n \in L : n.email # own} : m.email = e
                /\ d = [do |-> "add", email |-> e, user |-> Nobody, group |-> body[e]]
      BY <1>2, <1>3, <2>2
  <2>3. CASE \E m \in L : /\ m.email # own
                          /\ d = [do |-> "update", email |-> m.email, user |-> m.user,
                                  group |-> body[m.email]]
      BY <1>3, <2>3
  <2>4. CASE \E m \in L : /\ m.email # own /\ body[m.email] = "none"
                          /\ d = [do |-> "delete", email |-> m.email, user |-> m.user,
                                  group |-> "none"]
      BY <1>3, <2>4
  <2> QED
      BY <2>1, <2>2, <2>3, <2>4
<1>12. ASSUME NEW e \in may \ {own}, ~\E d \in D : d.email = e PROVE Achieved(c, e)'
  <2>1. \A m \in L : m.email = e => body[e] # "none" /\ body[e] = m.group
    <3> SUFFICES ASSUME NEW m \in L, m.email = e PROVE body[e] # "none" /\ body[e] = m.group
        OBVIOUS
    <3>1. CASE body[e] = "none"
      <4>1. [do |-> "delete", email |-> m.email, user |-> m.user, group |-> "none"] \in D
          BY <3>1 DEF Compare
      <4> QED
          BY <1>12, <4>1
    <3>2. CASE body[e] # "none" /\ body[e] # m.group
      <4>1. [do |-> "update", email |-> m.email, user |-> m.user, group |-> body[m.email]] \in D
          BY <3>2 DEF Compare
      <4> QED
          BY <1>12, <4>1
    <3> QED
        BY <3>1, <3>2
  <2>2. body[e] # "none" => \E m \in L : m.email = e
    <3> SUFFICES ASSUME body[e] # "none", ~\E m \in L : m.email = e PROVE FALSE
        OBVIOUS
    <3>1. [do |-> "add", email |-> e, user |-> Nobody, group |-> body[e]] \in C
        BY <1>2 DEF Compare
    <3> QED
        BY <1>12, <3>1
  <2> SUFFICES /\ \A u \in Holders(e, b) : member[u][b] = body[e]
               /\ \A i \in InvitesFor(e, b) : i.group = body[e]
               /\ body[e] # "none" => Holders(e, b) # {} \/ InvitesFor(e, b) # {}
    <3> QED
        BY <1>7, <1>8, <1>9 DEF Achieved
  <2> QED
      BY <1>2, <1>3, <2>1, <2>2
<1> HIDE DEF D
<1>13. bucket[b] = "live"
    BY DEF HasRead
<1> QED
    BY <1>7, <1>8, <1>10, <1>11, <1>12, <1>13 DEF Steady

LEMMA QuietInit == Init => QuietInv
    BY DEF Init, QuietInv, OneAccount, NothingLookedUp

(* A transaction of one caller interferes with the others, and keeps its   *)
(* own update steady.                                                      *)
LEMMA QuietApply ==
    ASSUME TypeOK, QuietInv, NEW c \in Caller, NEW d \in Change,
           AddMember(c, d) \/ UpdateMember(c, d) \/ DeleteMember(c, d)
    PROVE  QuietInv'
<1>1. call[c] # Idle /\ call[c].step = "apply"
    BY DEF AddMember, UpdateMember, DeleteMember, Turn, Idle
<1>2. \E m, I : Apply(c, d, m, I)
    BY DEF AddMember, UpdateMember, DeleteMember
<1>3. /\ account' = account /\ quiet' = quiet \cap {c}
      /\ call' = [call EXCEPT ![c].todo = @ \ {d}, ![c].adding = {}]
    BY <1>2 DEF Apply
<1>4. OneAccount'
    BY <1>3 DEF QuietInv, OneAccount
<1>5. NothingLookedUp'
  <2>1. \A x \in Caller : x # c => call'[x] = call[x]
      BY <1>3 DEF TypeOK
  <2>2. call'[c].adding = {}
      BY <1>1, <1>3, CallTyped DEF TypeOK, Request
  <2> QED
      BY <2>1, <2>2 DEF QuietInv, NothingLookedUp
<1>6. c \in quiet => Undisturbed(c)'
    BY <1>1, SteadyAdd, SteadyUpdate, SteadyDelete DEF QuietInv, Undisturbed, HasRead
<1> QED
    BY <1>3, <1>4, <1>5, <1>6 DEF QuietInv

LEMMA QuietStep == TypeOK /\ QuietInv /\ [Next]_vars => QuietInv'
<1> SUFFICES ASSUME TypeOK, QuietInv, [Next]_vars PROVE QuietInv'
    OBVIOUS
<1> USE MembersAssumption
<1>1. ASSUME NEW u \in User, SignUpRead(u) \/ SignUpFails(u) PROVE QuietInv'
  <2>1. UNCHANGED <<bucket, member, invites, call, quiet>>
      BY <1>1 DEF SignUpRead, SignUpFails
  <2>2. Live' = Live
      BY <1>1 DEF SignUpRead, SignUpFails, Live, TypeOK
  <2>3. OneAccount'
      BY <1>1 DEF SignUpRead, SignUpFails, QuietInv, OneAccount, TypeOK
  <2>4. NothingLookedUp'
      BY <2>1 DEF QuietInv, NothingLookedUp
  <2>5. ASSUME NEW c \in quiet PROVE Undisturbed(c)'
    <3>1. Undisturbed(c) /\ c \in Caller /\ bucket[call[c].bucket] = "live"
        BY DEF QuietInv, Undisturbed, Steady, HasRead, TypeOK
    <3> QED
        BY <2>1, <2>2, <3>1, UndisturbedStays
  <2> QED
      BY <2>1, <2>3, <2>4, <2>5 DEF QuietInv
<1>2. ASSUME NEW u \in User, SignUpCommit(u) \/ DeleteUser(u) PROVE QuietInv'
    BY <1>2 DEF SignUpCommit, DeleteUser, QuietInv, OneAccount, NothingLookedUp, TypeOK
<1>3. ASSUME NEW u \in User, NEW b \in Bucket, CreateBucket(u, b) PROVE QuietInv'
  <2>1. UNCHANGED <<account, invites, call, quiet>> /\ Live' = Live
      BY <1>3 DEF CreateBucket, Live
  <2>2. OneAccount' /\ NothingLookedUp'
      BY <2>1 DEF QuietInv, OneAccount, NothingLookedUp
  <2>3. ASSUME NEW c \in quiet PROVE Undisturbed(c)'
    <3>1. Undisturbed(c) /\ c \in Caller /\ bucket[call[c].bucket] = "live"
        BY DEF QuietInv, Undisturbed, Steady, HasRead, TypeOK
    <3>2. call[c].bucket # b
        BY <1>3, <3>1 DEF CreateBucket
    <3>3. call[c].bucket \in Bucket
        BY <3>1, CallTyped DEF Undisturbed, Steady, HasRead, Idle
    <3>4. /\ bucket'[call[c].bucket] = "live"
          /\ \A v \in User : member'[v][call[c].bucket] = member[v][call[c].bucket]
        BY <1>3, <3>1, <3>2, <3>3 DEF CreateBucket, TypeOK
    <3> QED
        BY <2>1, <3>1, <3>4, UndisturbedStays
  <2> QED
      BY <2>1, <2>2, <2>3 DEF QuietInv
<1>4. ASSUME NEW c \in Caller, NEW u \in User, NEW b \in Bucket, NEW op \in {"update", "delete"},
             NEW body \in [Email -> Level], Authorize(c, u, b, op, body)
      PROVE  QuietInv'
  <2>1. /\ UNCHANGED <<account, bucket, member, invites, quiet>> /\ Live' = Live
        /\ call[c] = Idle
      BY <1>4 DEF Authorize, Live
  <2>2. \A x \in Caller : call'[x] = IF x = c THEN
                [step |-> op, actor |-> u, bucket |-> b, body |-> body,
                 found |-> {}, bare |-> TRUE, todo |-> {}, adding |-> {}]
                ELSE call[x]
      BY <1>4 DEF Authorize, TypeOK
  <2>3. OneAccount' /\ NothingLookedUp'
      BY <2>1, <2>2 DEF QuietInv, OneAccount, NothingLookedUp
  <2>4. ASSUME NEW x \in quiet PROVE Undisturbed(x)'
    <3>1. Undisturbed(x) /\ x \in Caller /\ x # c /\ bucket[call[x].bucket] = "live"
        BY <2>1 DEF QuietInv, Undisturbed, Steady, HasRead, TypeOK, Idle
    <3> QED
        BY <2>1, <2>2, <3>1, UndisturbedStays
  <2> QED
      BY <2>1, <2>3, <2>4 DEF QuietInv
<1>5. ASSUME NEW c \in Caller, DeleteBucket(c) PROVE QuietInv'
  <2>1. \A x \in Caller : call'[x] = IF x = c THEN Idle ELSE call[x]
      BY <1>5 DEF DeleteBucket, TypeOK
  <2>2. OneAccount' /\ NothingLookedUp'
      BY <1>5, <2>1 DEF DeleteBucket, QuietInv, OneAccount, NothingLookedUp
  <2>3. CASE bucket[call[c].bucket] = "live"
      BY <1>5, <2>2, <2>3 DEF DeleteBucket, QuietInv
  <2>4. CASE bucket[call[c].bucket] # "live"
    <3>1. UNCHANGED <<account, bucket, member, invites, quiet>> /\ Live' = Live
        BY <1>5, <2>4 DEF DeleteBucket, Live
    <3>2. ASSUME NEW x \in quiet PROVE Undisturbed(x)'
      <4>1. Undisturbed(x) /\ x \in Caller /\ x # c /\ bucket[call[x].bucket] = "live"
          BY <1>5 DEF DeleteBucket, QuietInv, Undisturbed, Steady, HasRead, TypeOK
      <4> QED
          BY <2>1, <3>1, <4>1, UndisturbedStays
    <3> QED
        BY <2>2, <3>1, <3>2 DEF QuietInv
  <2> QED
      BY <2>3, <2>4
<1>6. ASSUME NEW c \in Caller, UpdateBucketMembers(c) \/ BucketRead(c) \/ MembershipsRead(c)
                              \/ InvitesRead(c)
      PROVE  QuietInv'
  <2>1. call[c] # Idle /\ call[c].step \in {"update", "list", "memberships", "invites"}
    <3>1. call[c].step \in {"update", "list", "memberships", "invites"}
        BY <1>6, Zenon DEF UpdateBucketMembers, BucketRead, MembershipsRead, InvitesRead
    <3> QED
        BY <3>1 DEF Idle
  <2>2. UNCHANGED <<account, bucket, member, invites>> /\ Live' = Live
      BY <1>6 DEF UpdateBucketMembers, BucketRead, MembershipsRead, InvitesRead, Live
  <2>3. \A x \in Caller : x # c => call'[x] = call[x]
      BY <1>6 DEF UpdateBucketMembers, BucketRead, MembershipsRead, InvitesRead, TypeOK
  <2>4. OneAccount'
      BY <2>2 DEF QuietInv, OneAccount
  <2>5. call'[c] # Idle => call'[c].adding = {}
    <3>1. call[c].adding = {}
        BY <2>1 DEF QuietInv, NothingLookedUp
    <3>2. ASSUME NEW M, NEW alone, call' = [call EXCEPT ![c] = Compared(c, M, alone)]
          PROVE  call'[c].adding = {}
        BY <2>1, <3>1, <3>2, CallTyped DEF Compared, TypeOK, Request
    <3>3. CASE UpdateBucketMembers(c)
      <4>1. \/ call' = [call EXCEPT ![c].step = "list"]
            \/ call' = [call EXCEPT ![c] = Idle]
          BY <3>3 DEF UpdateBucketMembers
      <4>2. CASE call' = [call EXCEPT ![c].step = "list"]
          BY <2>1, <3>1, <4>2, CallTyped DEF TypeOK, Request
      <4>3. CASE call' = [call EXCEPT ![c] = Idle]
          BY <4>3 DEF TypeOK
      <4> QED
          BY <4>1, <4>2, <4>3
    <3>4. CASE BucketRead(c)
      <4>1. \/ call' = [call EXCEPT ![c].step = "memberships"]
            \/ call' = [call EXCEPT ![c] = Compared(c, {}, TRUE)]
          BY <3>4, Zenon DEF BucketRead
      <4>2. CASE call' = [call EXCEPT ![c].step = "memberships"]
          BY <2>1, <3>1, <4>2, CallTyped DEF TypeOK, Request
      <4> QED
          BY <3>2, <4>1, <4>2
    <3>5. CASE MembershipsRead(c)
        BY <2>1, <3>1, <3>5, CallTyped DEF MembershipsRead, TypeOK, Request
    <3>6. CASE InvitesRead(c)
      <4>1. \E M, alone : call' = [call EXCEPT ![c] = Compared(c, M, alone)]
          BY <3>6, Zenon DEF InvitesRead
      <4> QED
          BY <3>2, <4>1
    <3> QED
        BY <1>6, <3>3, <3>4, <3>5, <3>6
  <2>6. NothingLookedUp'
      BY <2>3, <2>5 DEF QuietInv, NothingLookedUp
  <2>7. ASSUME NEW x \in quiet, x # c PROVE Undisturbed(x)'
    <3>1. Undisturbed(x) /\ x \in Caller /\ bucket[call[x].bucket] = "live"
        BY DEF QuietInv, Undisturbed, Steady, HasRead, TypeOK
    <3> QED
        BY <2>2, <2>3, <2>7, <3>1, UndisturbedStays
  <2>8. c \in quiet => HasRead(c)
      BY <2>1 DEF QuietInv, Undisturbed, Steady
  <2>9. c \in quiet' => Undisturbed(c)'
    <3>1. CASE UpdateBucketMembers(c) \/ BucketRead(c)
        BY <2>8, <3>1 DEF UpdateBucketMembers, BucketRead, HasRead
    <3>2. CASE MembershipsRead(c)
      <4> DEFINE b == call[c].bucket
      <4>1. c \in quiet' => bucket[b] = "live"
          BY <2>8, <3>2 DEF MembershipsRead, HasRead
      <4>2. /\ call'[c].step = "invites" /\ call'[c].bucket = b
            /\ call'[c].found = Active(b)
            /\ call'[c].bare => Active(b) = {}
          BY <2>1, <3>2, CallTyped DEF MembershipsRead, TypeOK, Request
      <4>3. Active(b)' = Active(b)
          BY <2>2, <4>2 DEF Active
      <4>4. c \in quiet' => bucket'[call'[c].bucket] = "live"
          BY <2>2, <4>1, <4>2
      <4>5. call'[c].found = Active(call[c].bucket)' /\ (call'[c].bare => call'[c].found = {})
          BY <4>2, <4>3
      <4> QED
          BY <4>2, <4>4, <4>5, Zenon DEF HasRead, Undisturbed
    <3>3. CASE InvitesRead(c)
      <4>1. c \in quiet' => c \in quiet /\ OneRowEach(call[c].bucket)
          BY <3>3 DEF InvitesRead
      <4> QED
          BY <2>8, <3>3, <4>1, SteadyRead DEF QuietInv, Undisturbed
    <3> QED
        BY <1>6, <3>1, <3>2, <3>3
  <2>10. quiet' \subseteq quiet \cup {c}
      BY <1>6 DEF UpdateBucketMembers, BucketRead, MembershipsRead, InvitesRead
  <2> QED
      BY <2>4, <2>6, <2>7, <2>9, <2>10 DEF QuietInv
<1>7. ASSUME NEW c \in Caller, NEW d \in Change, AddMemberRead(c, d) PROVE QuietInv'
  <2>1. call[c] # Idle /\ call[c].step = "apply"
      BY <1>7 DEF AddMemberRead, Turn, Idle
  <2>2. UNCHANGED <<account, bucket, member, invites, quiet>> /\ Live' = Live
      BY <1>7 DEF AddMemberRead, Live
  <2>3. PICK v \in Live \cup {Nobody} :
            /\ v # Nobody => Address[v] = d.email
            /\ v = Nobody => ~\E w \in Live : Address[w] = d.email
            /\ call' = [call EXCEPT ![c].adding = {[d EXCEPT !.user = v]}]
      BY <1>7 DEF AddMemberRead
  <2> DEFINE a == [d EXCEPT !.user = v]
  <2>4. a.email = d.email /\ a.user = v
      BY DEF Change
  <2> HIDE DEF a
  <2>5. call' = [call EXCEPT ![c].adding = {a}]
      BY <2>3 DEF a
  <2>6. \A x \in Caller : x # c => call'[x] = call[x]
      BY <2>5 DEF TypeOK
  <2>7. /\ call'[c].body = call[c].body /\ call'[c].bucket = call[c].bucket
        /\ call'[c].todo = call[c].todo /\ call'[c].adding = {a}
        /\ call'[c].actor = call[c].actor /\ call'[c].step = "apply"
      BY <2>1, <2>5, CallTyped DEF TypeOK, Request
  <2>8. OneAccount'
      BY <2>2 DEF QuietInv, OneAccount
  <2>9. NothingLookedUp'
      BY <2>6, <2>7 DEF QuietInv, NothingLookedUp
  <2>10. ASSUME NEW x \in quiet, x # c PROVE Undisturbed(x)'
    <3>1. Undisturbed(x) /\ x \in Caller /\ bucket[call[x].bucket] = "live"
        BY DEF QuietInv, Undisturbed, Steady, HasRead, TypeOK
    <3> QED
        BY <2>2, <2>6, <2>10, <3>1, UndisturbedStays
  <2>11. ASSUME c \in quiet PROVE Undisturbed(c)'
    <3> DEFINE b == call[c].bucket
    <3>1. Steady(c)
        BY <2>1, <2>11 DEF QuietInv, Undisturbed, HasRead
    <3>2. \A e : Holders(e, b)' = Holders(e, b) /\ InvitesFor(e, b)' = InvitesFor(e, b)
        BY <2>2, <2>7 DEF Holders, InvitesFor
    <3>3. OneRow(call[c].bucket)'
        BY <2>7, <3>1, <3>2 DEF Steady, OneRow
    <3>4. \A x \in call[c].todo : Fits(c, x)'
        BY <2>7, <3>1, <3>2 DEF Steady, Fits
    <3>5. LookedUp(a)'
        BY <2>2, <2>3, <2>4 DEF LookedUp
    <3>6. \A e : Achieved(c, e) => Achieved(c, e)'
        BY <2>2, <2>7, <3>2 DEF Achieved
    <3> QED
        BY <2>2, <2>7, <3>1, <3>3, <3>4, <3>5, <3>6 DEF Steady, Undisturbed
  <2> QED
      BY <2>2, <2>8, <2>9, <2>10, <2>11 DEF QuietInv
<1>8. ASSUME NEW c \in Caller, NEW d \in Change, ChangeFails(c, d) PROVE QuietInv'
  <2>1. call[c] # Idle /\ call[c].step = "apply"
      BY <1>8 DEF ChangeFails, Turn, Idle
  <2>2. UNCHANGED <<account, bucket, member, invites>> /\ Live' = Live /\ quiet' = quiet \ {c}
      BY <1>8 DEF ChangeFails, Live
  <2>3. \A x \in Caller : x # c => call'[x] = call[x]
      BY <1>8 DEF ChangeFails, TypeOK
  <2>4. call'[c].adding = {}
      BY <2>1, <1>8, CallTyped DEF ChangeFails, TypeOK, Request
  <2>5. OneAccount' /\ NothingLookedUp'
      BY <2>2, <2>3, <2>4 DEF QuietInv, OneAccount, NothingLookedUp
  <2>6. ASSUME NEW x \in quiet, x # c PROVE Undisturbed(x)'
    <3>1. Undisturbed(x) /\ x \in Caller /\ bucket[call[x].bucket] = "live"
        BY DEF QuietInv, Undisturbed, Steady, HasRead, TypeOK
    <3> QED
        BY <2>2, <2>3, <2>6, <3>1, UndisturbedStays
  <2> QED
      BY <2>2, <2>5, <2>6 DEF QuietInv
<1>9. ASSUME NEW c \in Caller, Reply(c) PROVE QuietInv'
  <2>1. UNCHANGED <<account, bucket, member, invites>> /\ Live' = Live /\ quiet' = quiet \ {c}
      BY <1>9 DEF Reply, Live
  <2>2. \A x \in Caller : call'[x] = IF x = c THEN Idle ELSE call[x]
      BY <1>9 DEF Reply, TypeOK
  <2>3. OneAccount' /\ NothingLookedUp'
      BY <2>1, <2>2 DEF QuietInv, OneAccount, NothingLookedUp
  <2>4. ASSUME NEW x \in quiet, x # c PROVE Undisturbed(x)'
    <3>1. Undisturbed(x) /\ x \in Caller /\ bucket[call[x].bucket] = "live"
        BY DEF QuietInv, Undisturbed, Steady, HasRead, TypeOK
    <3> QED
        BY <2>1, <2>2, <2>4, <3>1, UndisturbedStays
  <2> QED
      BY <2>1, <2>3, <2>4 DEF QuietInv
<1>10. CASE UNCHANGED vars
  <2>1. UNCHANGED <<account, bucket, member, invites, call, quiet>> /\ Live' = Live
      BY <1>10 DEF vars, Live
  <2>2. OneAccount' /\ NothingLookedUp'
      BY <2>1 DEF QuietInv, OneAccount, NothingLookedUp
  <2>3. ASSUME NEW c \in quiet PROVE Undisturbed(c)'
    <3>1. Undisturbed(c) /\ c \in Caller /\ bucket[call[c].bucket] = "live"
        BY DEF QuietInv, Undisturbed, Steady, HasRead, TypeOK
    <3> QED
        BY <2>1, <3>1, UndisturbedStays
  <2> QED
      BY <2>1, <2>2, <2>3 DEF QuietInv
<1> QED
  <2>1. NoBody \in [Email -> Level]
      BY DEF NoBody, Level
  <2> QED
      BY <1>1, <1>2, <1>3, <1>4, <1>5, <1>6, <1>7, <1>8, <1>9, <1>10, <2>1, QuietApply
         DEF Next, Users, Begin, Continue

(* An update that nobody interferes with, and that found one row at most   *)
(* for each address, leaves the bucket with the list it was given, however *)
(* many differences it applies one by one and in whatever order.           *)
THEOREM UpdatesAchieve == Spec => []UpdateAchieves
<1>1. TypeOK /\ QuietInv => UpdateAchieves
    BY SteadyAchieves
<1> QED
    BY <1>1, TypeInit, TypeStep, QuietInit, QuietStep, PTL DEF Spec
=============================================================================
