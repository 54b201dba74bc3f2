------------------------------ MODULE Members ------------------------------
(***************************************************************************)
(* Who may do what in a bucket: accounts, memberships and invites.         *)
(*                                                                         *)
(* services/bucket_member.go replaces the members of a bucket with a list, *)
(* in many transactions: it authorizes the caller, reads the bucket, its   *)
(* memberships and its invites one after the other, compares, and applies  *)
(* each difference on its own.  sql/users.go turns the invites of an e-mail*)
(* address into memberships when its account is created.  Users and        *)
(* buckets are soft deleted, so the cascades of the foreign keys never     *)
(* run.  Every address has an account at one authentication provider only. *)
(***************************************************************************)
EXTENDS Naturals

CONSTANTS
    Email,          \* addresses
    User,           \* accounts that may come to exist, deleted ones included
    Address,        \* the address of each account
    Shareable,      \* the addresses the provider of an account lets it share
                    \* with, by their domain; {} where sharing is disabled
    Bucket,
    Group,          \* levels of access, "owner" among them
    Caller,         \* requests on a bucket that may run at the same time
    Nobody,         \* the user of an idle caller
    InviteId,       \* keys of the rows of invites
    MaxRequests,    \* bound: requests made
    MaxFaults       \* bound: activity log failures, each undoes a transaction

ASSUME MembersAssumption ==
    /\ Address \in [User -> Email]
    /\ Shareable \in [User -> SUBSET Email]
    /\ "owner" \in Group
    /\ "none" \notin Group
    /\ Nobody \notin User
    /\ MaxRequests \in Nat
    /\ MaxFaults \in Nat

VARIABLES
    account,    \* rows of users; "signing" is a row not yet committed
    bucket,     \* rows of buckets
    member,     \* level of each user in each bucket, deleted rows aside
    invites,    \* rows of invites
    signUp,     \* the invites a sign-up under way has read
    call,       \* the request each caller is running
    requests,   \* requests so far
    faults,     \* faults so far
    asked,      \* history: levels an owner has asked for an address
    quiet       \* history: callers nobody interfered with since they read
                \* the memberships, and who read one row for each address

vars == <<account, bucket, member, invites, signUp, call, requests, faults, asked, quiet>>

Level == Group \cup {"none"}
Invite == [id : InviteId, email : Email, bucket : Bucket, group : Group, by : User]

(* A difference to apply: user is Nobody for an address that is invited.   *)
Change ==
    [do : {"add", "update"}, email : Email, user : User \cup {Nobody}, group : Group]
    \cup [do : {"delete"}, email : Email, user : User \cup {Nobody}, group : {"none"}]

(* An entry of the list of members: user is Nobody for an invite.          *)
Entry == [email : Email, user : User \cup {Nobody}, group : Group]

(* found and bare are what was read of the memberships: their entries, and *)
(* whether there was no row at all.                                        *)
Idle == [step |-> "idle", actor |-> Nobody]
Request == [step : {"update", "list", "memberships", "invites", "delete", "apply"},
            actor : User, bucket : Bucket, body : [Email -> Level],
            found : SUBSET Entry, bare : BOOLEAN,
            todo : SUBSET Change, adding : SUBSET Change]

TypeOK ==
    /\ account \in [User -> {"none", "signing", "live", "deleted"}]
    /\ bucket \in [Bucket -> {"none", "live", "deleted"}]
    /\ member \in [User -> [Bucket -> Level]]
    /\ invites \subseteq Invite
    /\ signUp \in [User -> SUBSET Invite]
    /\ call \in [Caller -> Request \cup {Idle}]
    /\ requests \in 0 .. MaxRequests
    /\ faults \in 0 .. MaxFaults
    /\ asked \subseteq [email : Email, bucket : Bucket, group : Group]
    /\ quiet \subseteq Caller

Init ==
    /\ account = [u \in User |-> "none"]
    /\ bucket = [b \in Bucket |-> "none"]
    /\ member = [u \in User |-> [b \in Bucket |-> "none"]]
    /\ invites = {}
    /\ signUp = [u \in User |-> {}]
    /\ call = [c \in Caller |-> Idle]
    /\ requests = 0
    /\ faults = 0
    /\ asked = {}
    /\ quiet = {}

-----------------------------------------------------------------------------
Live == {u \in User : account[u] = "live"}
InvitesFor(e, b) == {i \in invites : i.email = e /\ i.bucket = b}

(* GetBucketMembers: the invites of an address that is a member are hidden,*)
(* and the row of a deleted user has no address.                           *)
Active(b) ==
    {[email |-> Address[u], user |-> u, group |-> member[u][b]] :
        u \in {v \in Live : member[v][b] # "none"}}
InvitedBeside(F, b) ==
    {[email |-> i.email, user |-> Nobody, group |-> i.group] :
        i \in {j \in invites : j.bucket = b /\ ~\E m \in F : m.email = j.email}}
Invited(b) == InvitedBeside(Active(b), b)
OneRowEach(b) ==
    \A i \in invites : i.bucket = b =>
        /\ InvitesFor(i.email, b) = {i}
        /\ ~\E m \in Active(b) : m.email = i.email
Nameless(b) == {u \in User : account[u] = "deleted" /\ member[u][b] # "none"}

(* The list as a map: of several invites of an address one is kept.        *)
Maps(S) == {M \in SUBSET S : \A s \in S : \E m \in M : /\ m.email = s.email
                                                        /\ \A n \in M : n.email = s.email => n = m}

(* Mutants: a change of level is not seen; one that was taken off the list *)
(* is updated.                                                             *)
CompareMembersOnly(M, body, own, alone) ==
    {[do |-> "add", email |-> e, user |-> Nobody, group |-> body[e]] :
        e \in {f \in Email : body[f] # "none" /\ (f # own \/ alone) /\ ~\E m \in M : m.email = f}}
    \cup {[do |-> "delete", email |-> m.email, user |-> m.user, group |-> "none"] :
        m \in {n \in M : n.email # own /\ body[n.email] = "none"}}

CompareGone(M, body, own, alone) ==
    {[do |-> "add", email |-> e, user |-> Nobody, group |-> body[e]] :
        e \in {f \in Email : body[f] # "none" /\ (f # own \/ alone) /\ ~\E m \in M : m.email = f}}
    \cup {[do |-> "update", email |-> m.email, user |-> m.user, group |-> body[m.email]] :
        m \in {n \in M : n.email # own /\ body[n.email] # n.group}}

(* compareMemberships.  The caller's own row is left alone, so that there  *)
(* is always an owner, unless the list was empty.                          *)
Compare(M, body, own, alone) ==
    LET current == {m \in M : m.email # own}
        Wanted(e) == body[e] # "none" /\ (e # own \/ alone)
        new == {e \in Email : Wanted(e) /\ ~\E m \in current : m.email = e}
        changed == {m \in current : Wanted(m.email) /\ body[m.email] # m.group}
        gone == {m \in current : ~Wanted(m.email)}
    IN  {[do |-> "add", email |-> e, user |-> Nobody, group |-> body[e]] : e \in new}
        \cup {[do |-> "update", email |-> m.email, user |-> m.user, group |-> body[m.email]] :
                  m \in changed}
        \cup {[do |-> "delete", email |-> m.email, user |-> m.user, group |-> "none"] : m \in gone}

-----------------------------------------------------------------------------
(* Accounts.                                                               *)

(* CreateUserWithInvites: the row is inserted, which waits for a sign-up   *)
(* of the same address to end, and the invites are read.                   *)
SignUpRead(u) ==
    /\ account[u] = "none"
    /\ ~\E v \in User : Address[v] = Address[u] /\ account[v] \in {"signing", "live"}
    /\ account' = [account EXCEPT ![u] = "signing"]
    /\ signUp' = [signUp EXCEPT ![u] = {i \in invites : i.email = Address[u]}]
    /\ UNCHANGED <<bucket, member, invites, call, requests, faults, asked, quiet>>

Convertible(I) == \A i, j \in I : i.bucket = j.bucket => i = j

LevelIn(I, b) == IF \E i \in I : i.bucket = b
                 THEN (CHOOSE i \in I : i.bucket = b).group
                 ELSE "none"

(* One membership for each invite: two for one bucket break the unique     *)
(* index of the memberships and undo everything.  The rows that were read  *)
(* are deleted by their key, whatever has become of them since.            *)
SignUpCommit(u) ==
    /\ account[u] = "signing"
    /\ Convertible(signUp[u])
    /\ account' = [account EXCEPT ![u] = "live"]
    /\ member' = [member EXCEPT ![u] = [b \in Bucket |-> LevelIn(signUp[u], b)]]
    /\ invites' = {i \in invites : ~\E j \in signUp[u] : j.id = i.id}
    /\ signUp' = [signUp EXCEPT ![u] = {}]
    /\ quiet' = {}
    /\ UNCHANGED <<bucket, call, requests, faults, asked>>

SignUpFails(u) ==
    /\ account[u] = "signing"
    /\ ~Convertible(signUp[u])
    /\ account' = [account EXCEPT ![u] = "none"]
    /\ signUp' = [signUp EXCEPT ![u] = {}]
    /\ UNCHANGED <<bucket, member, invites, call, requests, faults, asked, quiet>>

(* A soft delete: no foreign key cascades.                                 *)
DeleteUser(u) ==
    /\ account[u] = "live"
    /\ account' = [account EXCEPT ![u] = "deleted"]
    /\ invites' = {i \in invites : i.by # u}
    /\ quiet' = {}
    /\ UNCHANGED <<bucket, member, signUp, call, requests, faults, asked>>

(* Tokens outlive the account, here and in Authorize.                      *)
CreateBucket(u, b) ==
    /\ account[u] \in {"live", "deleted"}
    /\ bucket[b] = "none"
    /\ bucket' = [bucket EXCEPT ![b] = "live"]
    /\ member' = [member EXCEPT ![u][b] = "owner"]
    /\ asked' = asked \cup {[email |-> Address[u], bucket |-> b, group |-> "owner"]}
    /\ UNCHANGED <<account, invites, signUp, call, requests, faults, quiet>>

-----------------------------------------------------------------------------
(* Requests of owners.                                                     *)
Authorize(c, u, b, op, body) ==
    /\ call[c] = Idle
    /\ requests < MaxRequests
    /\ requests' = requests + 1
    /\ account[u] \in {"live", "deleted"}
    /\ member[u][b] = "owner"
    /\ call' = [call EXCEPT ![c] = [step |-> op, actor |-> u, bucket |-> b, body |-> body,
                                    found |-> {}, bare |-> TRUE, todo |-> {}, adding |-> {}]]
    /\ asked' = asked \cup {[email |-> e, bucket |-> b, group |-> body[e]] :
                                e \in {f \in Email : body[f] # "none"}}
    /\ UNCHANGED <<account, bucket, member, invites, signUp, faults, quiet>>

DeleteBucket(c) ==
    LET b == call[c].bucket IN
    /\ call[c].step = "delete"
    /\ call' = [call EXCEPT ![c] = Idle]
    /\ IF bucket[b] = "live"
       THEN /\ bucket' = [bucket EXCEPT ![b] = "deleted"]
            /\ invites' = {i \in invites : i.bucket # b}
            /\ quiet' = {}
       ELSE UNCHANGED <<bucket, invites, quiet>>
    /\ UNCHANGED <<account, member, signUp, requests, faults, asked>>

(* The requests the configuration of the provider refuses, and the bucket  *)
(* that is gone.                                                           *)
UpdateBucketMembers(c) ==
    /\ call[c].step = "update"
    /\ IF bucket[call[c].bucket] = "live" /\ Shareable[call[c].actor] # {}
       THEN call' = [call EXCEPT ![c].step = "list"]
       ELSE call' = [call EXCEPT ![c] = Idle]
    /\ UNCHANGED <<account, bucket, member, invites, signUp, requests, faults, asked, quiet>>

(* The differences to apply, the addresses that may not be shared with left*)
(* out.                                                                    *)
ToApply(c, M, alone) ==
    {d \in Compare(M, call[c].body, Address[call[c].actor], alone) :
        d.email \in Shareable[call[c].actor]}

(* The request once the list M is compared with its body.                  *)
Compared(c, M, alone) ==
    [call[c] EXCEPT !.step = "apply", !.todo = ToApply(c, M, alone), !.found = {}, !.bare = TRUE]

(* GetBucketMembers reads the bucket once more: if it is gone by now the   *)
(* list is empty, and all of the body is added.                            *)
BucketRead(c) ==
    /\ call[c].step = "list"
    /\ IF bucket[call[c].bucket] = "live"
       THEN call' = [call EXCEPT ![c].step = "memberships"]
       ELSE call' = [call EXCEPT ![c] = Compared(c, {}, TRUE)]
    /\ UNCHANGED <<account, bucket, member, invites, signUp, requests, faults, asked, quiet>>

MembershipsRead(c) ==
    LET b == call[c].bucket IN
    /\ call[c].step = "memberships"
    /\ call' = [call EXCEPT ![c].step = "invites", ![c].found = Active(b),
                            ![c].bare = Active(b) = {} /\ Nameless(b) = {}]
    /\ quiet' = IF bucket[b] = "live" THEN quiet \cup {c} ELSE quiet
    /\ UNCHANGED <<account, bucket, member, invites, signUp, requests, faults, asked>>

InvitesRead(c) ==
    LET b == call[c].bucket
        beside == InvitedBeside(call[c].found, b)
    IN
    /\ call[c].step = "invites"
    /\ \E M \in Maps(call[c].found \cup beside) :
          call' = [call EXCEPT ![c] = Compared(c, M, call[c].bare /\ beside = {})]
    /\ quiet' = IF OneRowEach(b) THEN quiet ELSE quiet \ {c}
    /\ UNCHANGED <<account, bucket, member, invites, signUp, requests, faults, asked>>

(* One difference at a time: additions first, deletions last.              *)
Turn(c, d) ==
    /\ call[c].step = "apply"
    /\ d \in call[c].todo
    /\ \A a \in call[c].adding : a.email = d.email
    /\ d.do = "update" => ~\E x \in call[c].todo : x.do = "add"
    /\ d.do = "delete" => ~\E x \in call[c].todo : x.do \in {"add", "update"}

(* The transaction of a difference, which interferes with the others.      *)
Apply(c, d, m, I) ==
    /\ member' = m
    /\ invites' = I
    /\ call' = [call EXCEPT ![c].todo = @ \ {d}, ![c].adding = {}]
    /\ quiet' = quiet \cap {c}
    /\ UNCHANGED <<account, bucket, signUp, requests, faults, asked>>

UsedIds == {i.id : i \in invites \cup UNION {signUp[u] : u \in User}}

(* Mutant: whoever is added or updated becomes an owner.                   *)
SetOwner(u, b, g) == [member EXCEPT ![u][b] = IF g = "none" THEN "none" ELSE "owner"]

SetLevel(u, b, g) == [member EXCEPT ![u][b] = g]

(* addMember looks the account up before it inserts one or the other.      *)
AddMemberRead(c, d) ==
    /\ Turn(c, d)
    /\ d.do = "add"
    /\ call[c].adding = {}
    /\ \E u \in Live \cup {Nobody} :
          /\ u # Nobody => Address[u] = d.email
          /\ u = Nobody => ~\E v \in Live : Address[v] = d.email
          /\ call' = [call EXCEPT ![c].adding = {[d EXCEPT !.user = u]}]
    /\ UNCHANGED <<account, bucket, member, invites, signUp, requests, faults, asked, quiet>>

(* The unique indexes let neither a membership nor an invite of the same   *)
(* level be repeated.                                                      *)
AddMember(c, d) ==
    LET b == call[c].bucket IN
    /\ Turn(c, d)
    /\ d.do = "add"
    /\ \E a \in call[c].adding :
          \/ /\ a.user # Nobody
             /\ Apply(c, d, IF member[a.user][b] = "none" THEN SetLevel(a.user, b, d.group)
                                                          ELSE member, invites)
          \/ /\ a.user = Nobody
             /\ \E i \in InvitesFor(d.email, b) : i.group = d.group
             /\ Apply(c, d, member, invites)
          \/ /\ a.user = Nobody
             /\ ~\E i \in InvitesFor(d.email, b) : i.group = d.group
             /\ InviteId \ UsedIds # {}
             /\ Apply(c, d, member, invites \cup
                      {[id |-> CHOOSE k \in InviteId : k \notin UsedIds, email |-> d.email,
                        bucket |-> b, group |-> d.group, by |-> call[c].actor]})

(* The update of two invites of an address would make them equal, and fails. *)
UpdateMember(c, d) ==
    LET b == call[c].bucket
        I == InvitesFor(d.email, b)
    IN
    /\ Turn(c, d)
    /\ d.do = "update"
    /\ IF d.user # Nobody
       THEN Apply(c, d, IF member[d.user][b] # "none" THEN SetLevel(d.user, b, d.group)
                                                      ELSE member, invites)
       ELSE Apply(c, d, member, IF Convertible(I)
                                THEN (invites \ I) \cup {[i EXCEPT !.group = d.group] : i \in I}
                                ELSE invites)

DeleteMember(c, d) ==
    LET b == call[c].bucket IN
    /\ Turn(c, d)
    /\ d.do = "delete"
    /\ IF d.user # Nobody
       THEN Apply(c, d, SetLevel(d.user, b, "none"), invites)
       ELSE Apply(c, d, member, invites \ InvitesFor(d.email, b))

(* The activity log refuses: the transaction is undone, the next follows.  *)
ChangeFails(c, d) ==
    /\ Turn(c, d)
    /\ faults < MaxFaults
    /\ faults' = faults + 1
    /\ call' = [call EXCEPT ![c].todo = @ \ {d}, ![c].adding = {}]
    /\ quiet' = quiet \ {c}
    /\ UNCHANGED <<account, bucket, member, invites, signUp, requests, asked>>

Updated(c) ==
    /\ call[c].step = "apply"
    /\ call[c].todo = {}

Reply(c) ==
    /\ Updated(c)
    /\ call' = [call EXCEPT ![c] = Idle]
    /\ quiet' = quiet \ {c}
    /\ UNCHANGED <<account, bucket, member, invites, signUp, requests, faults, asked>>

-----------------------------------------------------------------------------
Users ==
    \E u \in User : \/ SignUpRead(u) \/ SignUpCommit(u) \/ SignUpFails(u) \/ DeleteUser(u)
                    \/ \E b \in Bucket : CreateBucket(u, b)

NoBody == [e \in Email |-> "none"]

Begin(c) ==
    \E u \in User, b \in Bucket :
        \/ Authorize(c, u, b, "delete", NoBody)
        \/ \E body \in [Email -> Level] : Authorize(c, u, b, "update", body)

Continue(c) ==
    \/ DeleteBucket(c) \/ UpdateBucketMembers(c) \/ Reply(c)
    \/ BucketRead(c) \/ MembershipsRead(c) \/ InvitesRead(c)
    \/ \E d \in Change : \/ AddMemberRead(c, d) \/ AddMember(c, d)
                         \/ UpdateMember(c, d) \/ DeleteMember(c, d)
                         \/ ChangeFails(c, d)

Next == Users \/ \E c \in Caller : Begin(c) \/ Continue(c)

Spec == Init /\ [][Next]_vars

-----------------------------------------------------------------------------
(* Properties.                                                             *)

(* Nobody has a level in a bucket that no owner ever asked for that        *)
(* address, whatever the order of sign-ups and updates.                    *)
LevelsAreAsked ==
    \A u \in User, b \in Bucket :
        member[u][b] # "none"
        => [email |-> Address[u], bucket |-> b, group |-> member[u][b]] \in asked

(* A bucket keeps an owner.                                                *)
HasOwner == \A b \in Bucket : bucket[b] = "live" => \E u \in User : member[u][b] = "owner"

(* What GetBucketMembers lists an address at.                              *)
ListedAt(e, b) == {m.group : m \in {n \in Active(b) \cup Invited(b) : n.email = e}}

(* An update that nobody interfered with from its first look at the rows   *)
(* on, and that found one row at most for each address, leaves each address*)
(* the caller may share with as the list says, the caller's own aside.     *)
UpdateAchieves ==
    \A c \in Caller : c \in quiet /\ Updated(c) =>
        \A e \in Shareable[call[c].actor] \ {Address[call[c].actor]} :
            ListedAt(e, call[c].bucket) = {call[c].body[e]} \ {"none"}
=============================================================================
