----------------------------- MODULE MembersForm -----------------------------
(***************************************************************************)
(* The members of a bucket in its settings (useBucketMembersData.ts,       *)
(* BucketMembers.tsx, BucketMember.tsx), for as long as they are on the    *)
(* page: rows are edited, sent as one list, and filled from the query      *)
(* again whenever its data changes.  Data equal to the former one is the   *)
(* same object to React, so that nothing is filled.                        *)
(* What the server does with a list is module Members.                     *)
(***************************************************************************)
EXTENDS FiniteSets

CONSTANTS
    Person,     \* addresses
    Me,         \* that of the user
    Level       \* bucketGroups

ASSUME MembersFormAssumption ==
    /\ IsFiniteSet(Person) /\ Me \in Person
    /\ "owner" \in Level /\ "none" \notin Level

VARIABLES
    members,    \* at the server
    listed,     \* in the cache
    rows,       \* membersState
    isNew,      \* addresses whose row was added
    userKnown,  \* the user query has an answer
    save,       \* the PUT: "no", "sent", "done"
    sentRows,   \* its list, NoRows if none
    query,      \* the members query: "idle", "sent", "read"
    readRows,   \* what it read
    touched,    \* rows edited since they were sent or filled
    astray      \* others changed the members, or a save failed in part or whole

membersFormVars == <<members, listed, rows, isNew, userKnown, save, sentRows,
                     query, readRows, touched, astray>>
remote == <<members, listed, save, sentRows, query, readRows>>

Rows == [Person -> Level \cup {"none"}]
NoRows == [p \in Person |-> "none"]

MembersFormTypeOK ==
    /\ members \in Rows /\ listed \in Rows /\ rows \in Rows
    /\ sentRows \in Rows /\ readRows \in Rows
    /\ isNew \subseteq Person
    /\ save \in {"no", "sent", "done"} /\ query \in {"idle", "sent", "read"}
    /\ userKnown \in BOOLEAN /\ touched \in BOOLEAN /\ astray \in BOOLEAN

MembersFormInit ==
    /\ members = [p \in Person |-> IF p = Me THEN "owner" ELSE "none"]
    /\ listed = members /\ rows = members /\ sentRows = NoRows /\ readRows = NoRows
    /\ isNew = {} /\ userKnown = FALSE
    /\ save = "no" /\ query = "idle"
    /\ touched = FALSE /\ astray = FALSE

ListedOwner == listed[Me] = "owner"

RowCount(r) == Cardinality({p \in Person : r[p] # "none"})

(* A row is new or differs, or there are more or fewer of them.            *)
HasChanges ==
    \/ \E p \in Person : rows[p] # "none" /\ (p \in isNew \/ listed[p] # rows[p])
    \/ RowCount(rows) # RowCount(listed)

UserFetchedForForm ==
    /\ ~userKnown /\ userKnown' = TRUE
    /\ UNCHANGED <<remote, rows, isNew, touched, astray>>

AddMember(p, g) ==
    /\ ListedOwner /\ rows[p] = "none"
    /\ rows' = [rows EXCEPT ![p] = g] /\ isNew' = isNew \cup {p}
    /\ touched' = TRUE
    /\ UNCHANGED <<remote, userKnown, astray>>

(* Until the user is fetched nobody's row is their own.                    *)
UpdateMemberRole(p, g) ==
    /\ ListedOwner /\ rows[p] # "none"
    /\ p # Me \/ ~userKnown
    /\ rows' = [rows EXCEPT ![p] = g]
    /\ isNew' = IF g = "none" THEN isNew \ {p} ELSE isNew
    /\ touched' = TRUE
    /\ UNCHANGED <<remote, userKnown, astray>>

HandleUpdateMembers ==
    /\ ListedOwner /\ HasChanges /\ save = "no"
    /\ save' = "sent" /\ sentRows' = rows
    /\ touched' = FALSE
    /\ UNCHANGED <<members, listed, rows, isNew, userKnown, query, readRows, astray>>

(* The server leaves the caller alone.  A change that fails is skipped.    *)
MembersServed ==
    /\ save = "sent" /\ members[Me] = "owner"
    /\ members' \in {m \in Rows :
                       /\ m[Me] = members[Me]
                       /\ \A p \in Person : m[p] \in {members[p], sentRows[p]}}
    /\ save' \in {"done", "no"}     \* "no" if the answer is lost
    /\ astray' = (astray \/ save' = "no" \/ \E p \in Person \ {Me} : members'[p] # sentRows[p])
    /\ sentRows' = NoRows
    /\ UNCHANGED <<listed, rows, isNew, userKnown, query, readRows, touched>>

MembersRefused ==
    /\ save = "sent" /\ save' = "no" /\ sentRows' = NoRows
    /\ astray' = TRUE
    /\ UNCHANGED <<members, listed, rows, isNew, userKnown, query, readRows, touched>>

(* Mutant: the members are not invalidated.                                *)
MembersAnsweredQuietly ==
    /\ save = "done" /\ save' = "no"
    /\ UNCHANGED <<members, listed, rows, isNew, userKnown, sentRows, query, readRows,
                   touched, astray>>

(* A fetch under way is started over.                                      *)
MembersAnswered ==
    /\ save = "done" /\ save' = "no"
    /\ query' = "sent" /\ readRows' = NoRows
    /\ UNCHANGED <<members, listed, rows, isNew, userKnown, sentRows, touched, astray>>

MembersRead ==
    /\ query = "sent" /\ query' = "read"
    /\ readRows' = members
    /\ UNCHANGED <<members, listed, rows, isNew, userKnown, save, sentRows, touched, astray>>

(* Data with the same groups is another object if a name or a status is   *)
(* not the same, as when an invitee signs up.                              *)
MembersFetched ==
    /\ query = "read" /\ query' = "idle"
    /\ listed' = readRows /\ readRows' = NoRows
    /\ \/ rows' = readRows /\ isNew' = {} /\ touched' = FALSE
       \/ readRows = listed /\ UNCHANGED <<rows, isNew, touched>>
    /\ UNCHANGED <<members, userKnown, save, sentRows, astray>>

(* Another owner, who leaves the user one: MembersRefused covers the rest. *)
(* The page looks again when it gets the focus.                            *)
MembersElsewhere(p, g) ==
    /\ p # Me /\ members[p] # g
    /\ members' = [members EXCEPT ![p] = g]
    /\ astray' = TRUE
    /\ query' = IF query = "idle" THEN "sent" ELSE query
    /\ UNCHANGED <<listed, rows, isNew, userKnown, save, sentRows, readRows, touched>>

MembersFormNext ==
    \/ UserFetchedForForm
    \/ \E p \in Person, g \in Level : AddMember(p, g)
    \/ \E p \in Person, g \in Level \cup {"none"} :
          UpdateMemberRole(p, g) \/ MembersElsewhere(p, g)
    \/ HandleUpdateMembers
    \/ MembersServed \/ MembersRefused \/ MembersAnswered
    \/ MembersRead \/ MembersFetched

(* Save is offered whenever the rows differ from the list; and once a save *)
(* and the fetch after it are done, list and server agree, and so do the   *)
(* rows if they were left alone, but for the user's own row, which can be  *)
(* edited until the page knows who they are and is never saved.  Others'   *)
(* changes and failures are left out: the whole list is sent, and undoes   *)
(* what was added since it was fetched.                                    *)
FormIsSaved ==
    /\ rows # listed => HasChanges
    /\ save = "no" /\ query = "idle" /\ ~astray =>
          /\ listed = members
          /\ ~touched => \A p \in Person \ {Me} : rows[p] = listed[p]
=============================================================================
