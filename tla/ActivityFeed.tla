----------------------------- MODULE ActivityFeed ----------------------------
(***************************************************************************)
(* What happened in a bucket, as its members read it: the entries services *)
(* and workers send to the log, the search of the server, and the views of *)
(* the page (activity/, services/bucket.go, activity-view,                 *)
(* BucketActivityView.tsx).  An entry has its time before it is sent, and  *)
(* sending is tried again for a while, so that entries arrive in any       *)
(* order.  The log belongs to no transaction: it keeps what was sent by an *)
(* operation that is undone afterwards.                                    *)
(***************************************************************************)
EXTENDS Naturals, Sequences, FiniteSets

CONSTANTS
    Happens,        \* messages of the operations that may happen
    SearchLimit,    \* entries one search returns
    MaxStamp        \* bound on the entries of a run

(* The messages the page knows, and those of the server.                   *)
ActivityMessage == {"BUCKET_CREATED", "FILE_UPLOADED", "FILE_DOWNLOADED", "FILE_UPDATED",
    "FILE_DELETED", "FILE_TRASHED", "FILE_RESTORED", "FILE_PURGED", "FOLDER_TRASHED",
    "FOLDER_RESTORED", "FOLDER_PURGED", "BUCKET_MEMBER_CREATED", "BUCKET_MEMBER_UPDATED",
    "BUCKET_MEMBER_DELETED"}

Message == ActivityMessage \cup {"BUCKET_DELETED", "FOLDER_CREATED", "FOLDER_UPDATED"}

ASSUME ActivityFeedAssumption ==
    /\ Happens \subseteq Message \ {"BUCKET_DELETED"}
    /\ SearchLimit \in Nat \ {0} /\ MaxStamp \in Nat

VARIABLES
    log,        \* entries the log has
    pending,    \* entries being sent
    clock,      \* the last time given
    old,        \* entries up to this time are older than thirty days
    there,      \* the bucket is not deleted
    feed,       \* the feed looked at, of two that share nothing but the log
    request,    \* a fetch of it: under way, its buckets read
    data        \* what the page has of it

feedVars == <<log, pending, clock, old, there, feed, request, data>>

(* ["buckets", "activity"] and ["buckets", id, "activity"].                *)
Feed == {"all", "bucket"}

Entry == [at : 1 .. MaxStamp, message : Happens \cup {"BUCKET_DELETED"}]
Answer == [kind : {"none", "failed", "null", "list"}, rows : Seq(Entry)]

FeedTypeOK ==
    /\ log \subseteq Entry /\ pending \subseteq Entry
    /\ clock \in 0 .. MaxStamp /\ old \in 0 .. clock
    /\ there \in BOOLEAN
    /\ feed \in Feed
    /\ request \in {"idle", "sent", "found"}
    /\ data \in Answer

FeedInit ==
    /\ log = {} /\ pending = {} /\ clock = 0 /\ old = 0 /\ there = TRUE
    /\ feed \in Feed /\ request = "idle"
    /\ data = [kind |-> "none", rows |-> <<>>]

-----------------------------------------------------------------------------
(* NewLogFilter: the time is taken when the entry is made.                 *)
Stamp(m) ==
    /\ there /\ clock < MaxStamp
    /\ clock' = clock + 1
    /\ pending' = pending \cup {[at |-> clock', message |-> m]}
    /\ UNCHANGED <<log, old, there, feed, request, data>>

Happen(m) == Stamp(m)

(* In the transaction of the deletion, before it is committed.             *)
DeleteBucket == Stamp("BUCKET_DELETED")

Sent(e) ==
    /\ log' = log \cup {e} /\ pending' = pending \ {e}
    /\ there' \in IF e.message = "BUCKET_DELETED" THEN BOOLEAN ELSE {there}
    /\ there' => there
    /\ UNCHANGED <<clock, old, feed, request, data>>

(* Every try failed, or only their answers did.                            *)
SendFails(e) ==
    /\ log' \in {log, log \cup {e}} /\ pending' = pending \ {e}
    /\ UNCHANGED <<clock, old, there, feed, request, data>>

DaysPass ==
    /\ old < clock /\ old' = old + 1
    /\ UNCHANGED <<log, pending, clock, there, feed, request, data>>

-----------------------------------------------------------------------------
(* The object type is the label an operation gives its entry.              *)
ObjectType(m) ==
    CASE m \in {"FILE_UPLOADED", "FILE_DOWNLOADED", "FILE_TRASHED", "FILE_RESTORED",
                "FILE_PURGED"} -> "file"
      [] m \in {"FOLDER_CREATED", "FOLDER_UPDATED", "FOLDER_TRASHED", "FOLDER_RESTORED",
                "FOLDER_PURGED"} -> "folder"
      [] OTHER -> "bucket"

(* Mutant: the search asks for entries of folders too.                     *)
AskedForAll == {"bucket", "file", "folder"}

AskedFor == {"bucket", "file"}

Hits == {e \in log : e.at > old /\ ObjectType(e.message) \in AskedFor}

(* The newest ones, newest first.                                          *)
Newest ==
    LET rank(e) == Cardinality({d \in Hits : d.at >= e.at})
        shown == {e \in Hits : rank(e) <= SearchLimit}
    IN  [n \in 1 .. Cardinality(shown) |-> CHOOSE e \in shown : rank(e) = n]

(* An answer that fails leaves what the page already has.                  *)
FeedAnswered(kind, found) ==
    /\ request' = "idle"
    /\ data' = IF kind = "failed" /\ data.kind # "none" THEN data
               ELSE [kind |-> kind, rows |-> found]
    /\ UNCHANGED <<log, pending, clock, old, there, feed>>

(* The view is mounted, or its page gets the focus.                        *)
OpenFeed ==
    /\ request = "idle" /\ request' = "sent"
    /\ UNCHANGED <<log, pending, clock, old, there, feed, data>>

FindBuckets ==
    /\ request = "sent"
    /\ \/ there /\ request' = "found"
          /\ UNCHANGED <<log, pending, clock, old, there, feed, data>>
       \/ ~there /\ FeedAnswered(IF feed = "all" THEN "list" ELSE "failed", <<>>)

GetActivity ==
    /\ feed = "all" /\ request = "found"
    /\ FeedAnswered("list", Newest)

(* An empty page has a null for its data.                                  *)
GetBucketActivity ==
    /\ feed = "bucket" /\ request = "found"
    /\ FeedAnswered(IF Hits = {} THEN "null" ELSE "list", Newest)

(* The log cannot be searched, or no answer comes.                         *)
SearchFails ==
    /\ request = "found"
    /\ \/ FeedAnswered("failed", <<>>)
       \/ feed = "all" /\ FeedAnswered("list", <<>>)

FeedNext ==
    \/ \E m \in Happens : Happen(m)
    \/ DeleteBucket
    \/ \E e \in pending : Sent(e) \/ SendFails(e)
    \/ DaysPass
    \/ OpenFeed \/ FindBuckets \/ SearchFails
    \/ GetActivity \/ GetBucketActivity

-----------------------------------------------------------------------------
(* The message map, or the default.                                        *)
Mapping(m) == IF m \in ActivityMessage THEN m ELSE "default"

Items == [n \in DOMAIN data.rows |-> Mapping(data.rows[n].message)]

(* What a view makes of its data: rows, "No activity yet", or an error in  *)
(* place of the page.  The bucket's view takes it for granted that there   *)
(* is a list once nothing is loading.                                      *)
ActivityView ==
    CASE data.kind = "none" -> "skeleton"
      [] data.kind = "list" /\ data.rows = <<>> -> "empty"
      [] data.kind = "list" /\ data.rows # <<>> -> "items"
      [] data.kind \in {"null", "failed"} -> "broken"

(* Feeds go from new to old and show what had arrived, and each row has a  *)
(* message of its own: those without one are left out by the search,       *)
(* except for a deletion read before, or in spite of, its failing commit.  *)
(* The view of a bucket never says that there is no activity: it breaks    *)
(* down when nothing happened for thirty days, and when the first search   *)
(* fails; the feed of all buckets breaks down in the second case only.     *)
FeedHolds ==
    /\ \A n, k \in DOMAIN data.rows : n < k => data.rows[n].at > data.rows[k].at
    /\ \A n \in DOMAIN data.rows :
          /\ data.rows[n] \in log
          /\ Items[n] = "default" => data.rows[n].message = "BUCKET_DELETED"
    /\ feed = "bucket" => ActivityView # "empty"
    /\ feed = "all" /\ ActivityView = "broken" => data.kind = "failed"
=============================================================================
