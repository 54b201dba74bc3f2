----------------------------- MODULE BucketPage ------------------------------
(***************************************************************************)
(* The page of one bucket: what it shows and offers comes from three       *)
(* cached queries, the items of the bucket, its trash, and its members,    *)
(* which tell what the user may do (queries/bucket.ts, usePermissions.ts,  *)
(* useFileActions.ts, useTrashActions.ts, bucket-view).  The page changes  *)
(* the first two; the members are read and shown in one step.              *)
(*                                                                         *)
(* The cache is TanStack Query's: invalidating a query marks its data      *)
(* stale, and a query on the page is fetched again.  A fetch under way is  *)
(* then started over only if there is data; the first one is not, nor is   *)
(* one whose page was left, and the end of any fetch makes data fresh.     *)
(* Pages and worker jobs of others change the bucket without a word.       *)
(*                                                                         *)
(* The items are at the root of the bucket.  The server refuses what a row *)
(* does not tell of: to trash a file whose content has not arrived, and to *)
(* restore an item whose name is taken or a folder kept too long.  What    *)
(* trashing and restoring do to a tree is module FolderTree.               *)
(***************************************************************************)
EXTENDS Naturals, FiniteSets

CONSTANTS
    Item,           \* files and folders at the root of the bucket
    Folders,        \* those that are folders
    Group,          \* what a user can be in a bucket, "none" if no member
    MaxRequests     \* requests of the page under way at once

ASSUME BucketPageAssumption ==
    /\ Folders \subseteq Item /\ MaxRequests \in Nat
    /\ Group \subseteq {"owner", "contributor", "viewer", "none"}

VARIABLES
    item,       \* the state of each item at the server
    taken,      \* items whose name another of their kind has, if they may still be listed
    group,      \* what the user is in the bucket, at the server
    membership, \* what the page knows of it, "unknown" before the first answer
    page,       \* "away", "loading" its loader, or "open"
    have,       \* queries the cache has data of
    shown,      \* that data
    stale,      \* queries invalidated since they were fetched
    fetch,      \* the fetch of each query: under way, read at the server
    answer,     \* what it read
    requests,   \* mutations of the page: sent, or answered
    unseen      \* queries whose answer changed and whom nobody told

server == <<item, taken, group>>
cache == <<membership, have, shown, stale, fetch, answer>>
bucketVars == <<server, cache, page, requests, unseen>>

Query == {"bucket", "trash"}
Op == {"create", "trash", "restore", "purge"}

(* An upload goes on to post its content after the file was created.       *)
Request == [op : Op, item : Item, phase : {"sent", "ok", "posting"}]
Data == SUBSET Item

(* A file that is "lapsed" has waited for its content longer than its post *)
(* policy lasts; a folder that is "overdue" was in the trash longer than   *)
(* the retention, and nothing but a purge takes it out.                    *)
ItemState == {"none", "uploading", "lapsed", "listed", "trashed", "overdue", "restoring", "gone"}

BucketTypeOK ==
    /\ item \in [Item -> ItemState] /\ taken \subseteq Item
    /\ group \in Group /\ membership \in Group \cup {"unknown"}
    /\ page \in {"away", "loading", "open"}
    /\ have \subseteq Query /\ stale \subseteq have
    /\ shown \in [Query -> Data] /\ answer \in [Query -> Data]
    /\ fetch \in [Query -> {"idle", "sent", "read"}]
    /\ requests \subseteq Request /\ Cardinality(requests) <= MaxRequests
    /\ unseen \subseteq Query
    /\ page = "open" => "bucket" \in have

BucketInit ==
    /\ \E i \in Item :
          item = [j \in Item |-> IF j = i THEN "none" ELSE "gone"]
    /\ taken = {}
    /\ group \in Group \ {"none"} /\ membership = "unknown"
    /\ page = "away"
    /\ have = {} /\ stale = {}
    /\ shown = [q \in Query |-> {}] /\ answer = shown
    /\ fetch = [q \in Query |-> "idle"]
    /\ requests = {} /\ unseen = {}

-----------------------------------------------------------------------------
(* The server.                                                             *)

(* A folder being restored is in neither list until its job is done, nor   *)
(* is a lapsed file.                                                       *)
Read(q, at) ==
    CASE q = "bucket" -> {i \in Item : at[i] \in {"uploading", "listed"}}
      [] q = "trash" -> {i \in Item : at[i] \in {"trashed", "overdue"}}

(* An item that is not deleted keeps its name from others of its kind.     *)
Nameless == {i \in Item : item[i] \in {"none", "trashed", "restoring"}}

MayChange == group \in {"owner", "contributor"}

Possible(op, i) ==
    CASE op = "create" -> item[i] = "none" /\ i \notin taken
      [] op = "trash" -> item[i] = "listed"
      [] op = "restore" -> item[i] = "trashed" /\ i \notin taken
      [] op = "purge" -> item[i] \in {"trashed", "overdue", "restoring"}

Accepted(op, i) == MayChange /\ Possible(op, i)

(* A folder is restored and purged by a job, and only the first is marked. *)
After(op, i) ==
    CASE op = "create" -> IF i \in Folders THEN "listed" ELSE "uploading"
      [] op = "trash" -> "trashed"
      [] op = "restore" -> IF i \in Folders THEN "restoring" ELSE "listed"
      [] op = "purge" -> IF i \in Folders THEN item[i] ELSE "gone"

Becomes(i, s) ==
    /\ item' = [item EXCEPT ![i] = s]
    /\ taken' = IF s \in {"overdue", "gone"} THEN taken \ {i} ELSE taken
    /\ UNCHANGED <<group, cache, page>>

Changed == {q \in Query : Read(q, item') # Read(q, item)}

Untold == unseen' = unseen \cup Changed

(* By a notification of the store, by the clock, by a worker.  Others      *)
(* publish purge jobs too, so there may be one for any folder in the trash.*)
Later(i) ==
    CASE item[i] = "uploading" -> {"listed", "lapsed"}
      [] item[i] = "lapsed" -> {"listed"}
      [] item[i] = "trashed" -> IF i \in Folders THEN {"overdue", "gone"} ELSE {"gone"}
      [] item[i] = "overdue" -> {"gone"}
      [] item[i] = "restoring" -> {"gone"} \cup (IF i \in taken THEN {} ELSE {"listed"})
      [] OTHER -> {}

Work(i) ==
    /\ \E s \in Later(i) : Becomes(i, s)
    /\ Untold
    /\ UNCHANGED requests

(* Another member of the bucket, with items of these names too.            *)
SomeoneElse ==
    /\ \/ \E op \in Op, i \in Item : Possible(op, i) /\ Becomes(i, After(op, i))
       \/ /\ group' \in Group \ {group}
          /\ UNCHANGED <<item, taken, cache, page>>
       \/ /\ \E i \in Nameless : taken' \in {taken \cup {i}, taken \ {i}}
          /\ UNCHANGED <<item, group, cache, page>>
    /\ Untold
    /\ UNCHANGED requests

(* A failure only shows a toast: nothing is fetched again.                 *)
Fails(r) == requests' = requests \ {r}

Serve(r) ==
    /\ r.phase = "sent" /\ Accepted(r.op, r.item)
    /\ Becomes(r.item, After(r.op, r.item))
    /\ \/ requests' = (requests \ {r}) \cup {[r EXCEPT !.phase = "ok"]} /\ UNCHANGED unseen
       \/ Fails(r) /\ Untold      \* done, and the answer lost

Refuse(r) ==
    /\ r.phase = "sent" /\ ~Accepted(r.op, r.item)
    /\ Fails(r)
    /\ UNCHANGED <<server, cache, page, unseen>>

-----------------------------------------------------------------------------
(* The cache.                                                              *)

(* The views are mounted, whichever is shown, once the bucket is there.    *)
Mounted == IF page = "open" THEN Query ELSE {}

Send(Q) == fetch' = [q \in Query |-> IF q \in Q THEN "sent" ELSE fetch[q]]
Idle == {q \in Query : fetch[q] = "idle"}
Wanted == {q \in Idle : q \notin have \/ q \in stale}

(* What is fetched when a query is mounted or the page gets the focus:     *)
(* what is missing or stale, and after five quiet minutes, all.            *)
Due(Q) == {Q \cap Wanted} \cup (IF Idle = Query THEN {Q} ELSE {})

(* Mutant: a query that was never fetched is marked too.                   *)
InvalidateAll(Q) ==
    LET again == {q \in Q \cap Mounted : q \in have \/ fetch[q] = "idle"}
    IN  stale' = stale \cup Q /\ Send(again) /\ UNCHANGED <<membership, have, shown, answer, unseen>>

Invalidate(Q) ==
    LET again == {q \in Q \cap Mounted : q \in have \/ fetch[q] = "idle"}
    IN  /\ stale' = stale \cup (Q \cap have)
        /\ Send(again)
        /\ unseen' = unseen \cup {q \in Q \ again : fetch[q] = "read"}
        /\ UNCHANGED <<membership, have, shown, answer>>

FetchRead(q) ==
    /\ fetch[q] = "sent" /\ group # "none"
    /\ fetch' = [fetch EXCEPT ![q] = "read"]
    /\ answer' = [answer EXCEPT ![q] = Read(q, item)]
    /\ unseen' = unseen \ {q}
    /\ UNCHANGED <<server, page, membership, have, shown, stale, requests>>

FetchDone(q) ==
    /\ fetch[q] = "read"
    /\ have' = have \cup {q}
    /\ shown' = [shown EXCEPT ![q] = answer[q]]
    /\ answer' = [answer EXCEPT ![q] = {}]
    /\ stale' = stale \ {q}
    /\ IF q = "bucket" /\ page = "loading"
       THEN /\ page' = "open"
            /\ \E D \in Due(Query) :
                  fetch' = [p \in Query |->
                              IF p = q THEN "idle" ELSE IF p \in D THEN "sent" ELSE fetch[p]]
       ELSE fetch' = [fetch EXCEPT ![q] = "idle"] /\ UNCHANGED page
    /\ UNCHANGED <<server, membership, requests, unseen>>

(* After a retry: whoever is no member is refused.                         *)
FetchFails(q) ==
    /\ fetch[q] = "sent"
    /\ fetch' = [fetch EXCEPT ![q] = "idle"]
    /\ page' = IF q = "bucket" /\ page = "loading" THEN "away" ELSE page
    /\ UNCHANGED <<server, membership, have, shown, stale, answer, requests, unseen>>

(* Five minutes after the page was left, all it asked for answered.        *)
Collect ==
    /\ page = "away" /\ have # {} /\ requests = {}
    /\ \A q \in Query : fetch[q] = "idle"
    /\ have' = {} /\ stale' = {} /\ membership' = "unknown"
    /\ shown' = [q \in Query |-> {}]
    /\ UNCHANGED <<server, page, fetch, answer, requests, unseen>>

(* On mount, after a mutation, on focus.                                   *)
PermissionsFetched ==
    /\ page = "open" /\ group \notin {"none", membership}
    /\ membership' = group
    /\ UNCHANGED <<server, page, have, shown, stale, fetch, answer, requests, unseen>>

Focus ==
    /\ \E D \in Due(Mounted) \ {{}} : Send(D)
    /\ UNCHANGED <<server, page, membership, have, shown, stale, answer, requests, unseen>>

-----------------------------------------------------------------------------
(* The page.                                                               *)

Navigate ==
    /\ page = "away"
    /\ IF "bucket" \in have
       THEN page' = "open" /\ \E D \in Due(Query) : Send(D)
       ELSE page' = "loading" /\ Send({"bucket"} \cap Idle)
    /\ UNCHANGED <<server, membership, have, shown, stale, answer, requests, unseen>>

Leave ==
    /\ page = "open"
    /\ page' = "away"
    /\ UNCHANGED <<server, cache, requests, unseen>>

(* Mutant: isViewer.                                                       *)
IsMember == membership \in {"owner", "contributor", "viewer"}

IsContributor == membership \in {"owner", "contributor"}

(* The header, whose dialogs take any name; the menu of a row; the trash.  *)
OffersInHeader(op, i) == op = "create" /\ item[i] = "none"
OffersInList(op, i) == op = "trash" /\ i \in shown["bucket"]
OffersInTrash(op, i) == op \in {"restore", "purge"} /\ i \in shown["trash"]

Offered(op, i) ==
    /\ page = "open" /\ IsContributor
    /\ OffersInHeader(op, i) \/ OffersInList(op, i) \/ OffersInTrash(op, i)

(* The dialog of the trash keeps the item it was opened for (RowDialogs),  *)
(* listed or not by the time it is confirmed.                              *)
AskedBefore(op, i) ==
    /\ op = "purge" /\ page = "open" /\ shown["trash"] # {}
    /\ item[i] # "none"

(* In the view the user turns to: changing it mounts and fetches nothing.  *)
Mutate(op, i) ==
    /\ Offered(op, i) \/ AskedBefore(op, i)
    /\ Cardinality(requests) < MaxRequests
    /\ requests' = requests \cup {[op |-> op, item |-> i, phase |-> "sent"]}
    /\ UNCHANGED <<server, cache, page, unseen>>

(* Mutant: a restore invalidates the trash only, as a purge does.          *)
InvalidatesTrash(op) == IF op \in {"purge", "restore"} THEN {"trash"} ELSE Query

(* What onSuccess invalidates: ["buckets"], ["buckets", id], or the trash. *)
Invalidates(op) == IF op = "purge" THEN {"trash"} ELSE Query

IsUpload(r) == r.op = "create" /\ r.item \notin Folders

(* An upload asks again a second after its content was posted.             *)
Answered(r) ==
    /\ r.phase \in {"ok", "posting"}
    /\ requests' = (requests \ {r}) \cup
                      {q \in {[r EXCEPT !.phase = "posting"]} : r.phase = "ok" /\ IsUpload(r)}
    /\ Invalidate(Invalidates(r.op))
    /\ UNCHANGED <<server, page>>

(* Refused by the store, or cancelled.                                     *)
PostFails(r) ==
    /\ r.phase = "posting"
    /\ Fails(r)
    /\ UNCHANGED <<server, cache, page, unseen>>

BucketNext ==
    \/ \E i \in Item : Work(i)
    \/ SomeoneElse
    \/ \E r \in requests : Serve(r) \/ Refuse(r) \/ Answered(r) \/ PostFails(r)
    \/ \E q \in Query : FetchRead(q) \/ FetchDone(q) \/ FetchFails(q)
    \/ Collect
    \/ PermissionsFetched
    \/ Focus
    \/ Navigate
    \/ Leave
    \/ \E op \in Op, i \in Item : Mutate(op, i)

BucketSpec == BucketInit /\ [][BucketNext]_bucketVars

-----------------------------------------------------------------------------
Quiet == requests = {} /\ \A q \in Query : fetch[q] = "idle"

(* What the page did is what the cache has, once nothing is under way:     *)
(* whatever a fetch read before a change of the page, the data is either   *)
(* marked stale or shows the change.  Changes nobody told the page of are  *)
(* left out, and the two races of the cache: a first fetch, and one whose  *)
(* page was left, which no invalidation starts over.                       *)
ToldIsShown ==
    Quiet => \A q \in have \ (stale \cup unseen) : shown[q] = Read(q, item)

(* What the server refuses and a row does not show: the content of a file  *)
(* has not arrived, the name was taken, the retention of a folder is over. *)
NotInRow(op, i) ==
    \/ op = "trash" /\ item[i] = "uploading"
    \/ op = "restore" /\ (item[i] = "overdue" \/ i \in taken)

(* A page that has seen everything has a row for all that the server would *)
(* trash, restore or purge, but for a folder being restored, which could   *)
(* be purged; and its rows offer no more than that and what the server     *)
(* refuses for a reason rows do not show, and to nobody but those who may. *)
OffersHold ==
    (Quiet /\ page = "open" /\ membership = group /\ have = Query /\ stale = {}
        /\ unseen = {}) =>
        \A op \in Op \ {"create"}, i \in Item :
            /\ Accepted(op, i) => Offered(op, i) \/ item[i] = "restoring"
            /\ Offered(op, i) => MayChange /\ (Accepted(op, i) \/ NotInRow(op, i))
=============================================================================
