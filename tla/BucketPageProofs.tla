-------------------------- MODULE BucketPageProofs ---------------------------
(***************************************************************************)
(* What a page did to its bucket is what its cache has once nothing is     *)
(* under way, for any items, groups and number of requests at once.        *)
(*                                                                         *)
(* ToldIsShown speaks of quiet moments; the invariant has to say what      *)
(* makes up for data that is no longer true until then: it is marked       *)
(* stale, a fetch has read the truth since, or a request of the page has   *)
(* been served whose answer will invalidate it.                            *)
(***************************************************************************)
EXTENDS BucketPage, TLAPS

Typed ==
    /\ item \in [Item -> ItemState] /\ taken \subseteq Item
    /\ have \subseteq Query /\ stale \subseteq have
    /\ shown \in [Query -> Data] /\ answer \in [Query -> Data]
    /\ fetch \in [Query -> {"idle", "sent", "read"}]
    /\ requests \subseteq Request
    /\ unseen \subseteq Query

(* A served request whose answer will invalidate the query.                *)
Owed(q) == \E r \in requests : r.phase = "ok" /\ q \in Invalidates(r.op)

ReadInv == \A q \in Query :
    fetch[q] = "read" => answer[q] = Read(q, item) \/ q \in unseen \/ Owed(q)

ShownInv == \A q \in have :
    shown[q] = Read(q, item) \/ q \in stale \cup unseen \/ fetch[q] = "read" \/ Owed(q)

CacheInv == Typed /\ ReadInv /\ ShownInv

-----------------------------------------------------------------------------
(* A mutation changes the answers it invalidates and no others.            *)
LEMMA ChangesInvalidated ==
    ASSUME Typed, NEW op \in Op, NEW i \in Item, Accepted(op, i),
           item' = [item EXCEPT ![i] = After(op, i)],
           NEW q \in Query, q \notin Invalidates(op)
    PROVE  Read(q, item') = Read(q, item)
<1>1. op = "purge" /\ q = "bucket"
    BY DEF Query, Invalidates
<1>2. /\ item[i] \notin {"uploading", "listed"}
      /\ After(op, i) \notin {"uploading", "listed"}
    BY <1>1 DEF Accepted, Possible, After
<1> QED
    BY <1>1, <1>2 DEF Read, Typed

LEMMA AfterTyped ==
    ASSUME Typed, NEW op \in Op, NEW i \in Item
    PROVE  After(op, i) \in ItemState
BY DEF After, Op, Typed, ItemState

(* What happens to an item leaves the cache and the page alone.            *)
LEMMA ItemStep ==
    ASSUME Typed, NEW i \in Item, NEW s \in ItemState, Becomes(i, s)
    PROVE  /\ item' \in [Item -> ItemState] /\ taken' \subseteq Item
           /\ UNCHANGED <<have, shown, stale, fetch, answer>>
BY DEF Typed, Becomes, cache

LEMMA DoesStep ==
    ASSUME Typed, NEW op \in Op, NEW i \in Item, Becomes(i, After(op, i))
    PROVE  /\ item' = [item EXCEPT ![i] = After(op, i)]
           /\ item' \in [Item -> ItemState] /\ taken' \subseteq Item
           /\ UNCHANGED <<have, shown, stale, fetch, answer>>
<1>1. item' = [item EXCEPT ![i] = After(op, i)]
    BY DEF Becomes
<1> QED
    BY <1>1, AfterTyped, ItemStep

(* No fetch that has read anything is sent by a mount or a focus.          *)
LEMMA DueIsIdle ==
    ASSUME NEW Q \in SUBSET Query, NEW D \in Due(Q)
    PROVE  D \subseteq Idle
BY DEF Due, Wanted, Idle

(* Neither query is touched, apart from what the server has.               *)
LEMMA ServerStep ==
    ASSUME CacheInv, UNCHANGED <<have, shown, stale, fetch, answer>>,
           \A q \in Query : Owed(q) => Owed(q)',
           \A q \in Query : q \in unseen => q \in unseen',
           \A q \in Query : Read(q, item') = Read(q, item) \/ q \in unseen' \/ Owed(q)'
    PROVE  ReadInv' /\ ShownInv'
BY DEF CacheInv, Typed, ReadInv, ShownInv

-----------------------------------------------------------------------------
LEMMA CacheInit == BucketInit => CacheInv
<1> SUFFICES ASSUME BucketInit PROVE CacheInv
    OBVIOUS
<1> USE DEF BucketInit
<1>1. item \in [Item -> ItemState]
    BY DEF ItemState
<1>2. Typed
    BY <1>1 DEF Typed, Query, Data
<1> QED
    BY <1>2 DEF CacheInv, ReadInv, ShownInv

LEMMA CacheStep == CacheInv /\ [BucketNext]_bucketVars => CacheInv'
<1> SUFFICES ASSUME CacheInv, [BucketNext]_bucketVars PROVE CacheInv'
    OBVIOUS
<1> USE DEF CacheInv
<1>1. ASSUME NEW i \in Item, Work(i) PROVE CacheInv'
  <2>1. PICK s \in ItemState : Becomes(i, s)
      BY <1>1 DEF Work, Later, ItemState, Typed
  <2>2. /\ item' \in [Item -> ItemState] /\ taken' \subseteq Item
        /\ UNCHANGED <<have, shown, stale, fetch, answer>>
      BY <2>1, ItemStep
  <2>3. Typed'
      BY <1>1, <2>2 DEF Work, Typed, Untold, Changed
  <2>4. \A q \in Query : Owed(q)' = Owed(q)
      BY <1>1 DEF Work, Owed
  <2> QED
      BY <1>1, <2>2, <2>3, <2>4, ServerStep DEF Work, Untold, Changed
<1>2. CASE SomeoneElse
  <2>1. /\ item' \in [Item -> ItemState] /\ taken' \subseteq Item
        /\ UNCHANGED <<have, shown, stale, fetch, answer>>
    <3>1. CASE \E op \in Op, i \in Item : Possible(op, i) /\ Becomes(i, After(op, i))
        BY <3>1, DoesStep
    <3>2. CASE UNCHANGED <<item, taken, cache, page>>
        BY <3>2 DEF cache, Typed
    <3>3. CASE /\ \E i \in Nameless : taken' \in {taken \cup {i}, taken \ {i}}
               /\ UNCHANGED <<item, group, cache, page>>
        BY <3>3 DEF cache, Typed, Nameless
    <3> QED
        BY <1>2, <3>1, <3>2, <3>3 DEF SomeoneElse
  <2>2. Typed'
      BY <1>2, <2>1 DEF SomeoneElse, Typed, Untold, Changed
  <2>3. \A q \in Query : Owed(q)' = Owed(q)
      BY <1>2 DEF SomeoneElse, Owed
  <2> QED
      BY <1>2, <2>1, <2>2, <2>3, ServerStep DEF SomeoneElse, Untold, Changed
<1>3. ASSUME NEW r \in requests, Serve(r) PROVE CacheInv'
  <2>1. r \in Request /\ r.op \in Op /\ r.item \in Item /\ r.phase = "sent"
      BY <1>3 DEF Typed, Request, Serve
  <2>2. /\ Accepted(r.op, r.item) /\ item' = [item EXCEPT ![r.item] = After(r.op, r.item)]
        /\ item' \in [Item -> ItemState] /\ taken' \subseteq Item
        /\ UNCHANGED <<have, shown, stale, fetch, answer>>
      BY <1>3, <2>1, DoesStep DEF Serve
  <2>3. CASE requests' = (requests \ {r}) \cup {[r EXCEPT !.phase = "ok"]} /\ UNCHANGED unseen
    <3>1. [r EXCEPT !.phase = "ok"] \in Request /\ [r EXCEPT !.phase = "ok"].phase = "ok"
          /\ [r EXCEPT !.phase = "ok"].op = r.op
        BY <2>1 DEF Request
    <3>2. \A q \in Query : Owed(q) => Owed(q)'
        BY <2>1, <2>3 DEF Owed
    <3>3. \A q \in Query : q \in Invalidates(r.op) => Owed(q)'
        BY <2>3, <3>1 DEF Owed
    <3>4. \A q \in Query : Read(q, item') = Read(q, item) \/ Owed(q)'
        BY <2>1, <2>2, <3>3, ChangesInvalidated
    <3>5. Typed'
        BY <2>1, <2>2, <2>3, <3>1 DEF Typed
    <3> QED
        BY <2>2, <2>3, <3>2, <3>4, <3>5, ServerStep
  <2>4. CASE Fails(r) /\ Untold
    <3>1. \A q \in Query : Owed(q) => Owed(q)'
        BY <2>1, <2>4 DEF Owed, Fails
    <3>2. Typed'
        BY <2>1, <2>2, <2>4 DEF Typed, Fails, Untold, Changed
    <3> QED
        BY <2>2, <2>4, <3>1, <3>2, ServerStep DEF Untold, Changed
  <2> QED
      BY <1>3, <2>3, <2>4 DEF Serve
<1>4. ASSUME NEW r \in requests, Refuse(r) \/ PostFails(r) PROVE CacheInv'
  <2> USE <1>4 DEF Refuse, PostFails, Fails, server, cache
  <2>1. Typed'
      BY DEF Typed
  <2>2. \A q \in Query : Owed(q) => Owed(q)'
      BY DEF Owed
  <2> QED
      BY <2>1, <2>2, ServerStep
<1>5. ASSUME NEW r \in requests, Answered(r) PROVE CacheInv'
  <2> DEFINE Q == Invalidates(r.op)
             again == {q \in Q \cap Mounted : q \in have \/ fetch[q] = "idle"}
  <2>1. Q \subseteq Query /\ again \subseteq Q
      BY DEF Invalidates, Query
  <2>p. ASSUME NEW s \in {[r EXCEPT !.phase = "posting"]} PROVE s \in Request
      BY DEF Typed, Request
  <2>2. /\ requests' \subseteq Request /\ requests \ {r} \subseteq requests'
        /\ stale' = stale \cup (Q \cap have)
        /\ fetch' = [q \in Query |-> IF q \in again THEN "sent" ELSE fetch[q]]
        /\ unseen' = unseen \cup {q \in Q \ again : fetch[q] = "read"}
        /\ UNCHANGED <<item, taken, have, shown, answer>>
      BY <1>5, <2>p DEF Answered, Invalidate, Send, server, Typed
  <2> HIDE DEF Q, again
  <2>3. Typed'
      BY <2>1, <2>2 DEF Typed
  <2>4. ASSUME NEW q \in Query, Owed(q) PROVE q \in Q \/ Owed(q)'
      BY <2>2, <2>4 DEF Owed, Q
  <2>5. ReadInv'
      BY <2>2, <2>4 DEF ReadInv, Typed
  <2>6. ShownInv'
      BY <2>1, <2>2, <2>4 DEF ShownInv, Typed
  <2> QED
      BY <2>3, <2>5, <2>6
<1>6. ASSUME NEW q \in Query, FetchRead(q) PROVE CacheInv'
  <2> USE <1>6 DEF FetchRead, server
  <2>1. Typed'
      BY DEF Typed, Read, Data, Query
  <2>2. \A p \in Query : Owed(p)' = Owed(p)
      BY DEF Owed
  <2> QED
      BY <2>1, <2>2 DEF Typed, ReadInv, ShownInv
<1>7. ASSUME NEW q \in Query, FetchDone(q) PROVE CacheInv'
  <2>1. /\ fetch[q] = "read" /\ have' = have \cup {q} /\ stale' = stale \ {q}
        /\ shown' = [shown EXCEPT ![q] = answer[q]] /\ answer' = [answer EXCEPT ![q] = {}]
        /\ UNCHANGED <<item, taken, requests, unseen>>
      BY <1>7 DEF FetchDone, server
  <2>2. /\ fetch' \in [Query -> {"idle", "sent", "read"}] /\ fetch'[q] = "idle"
        /\ \A p \in Query \ {q} :
              fetch'[p] = fetch[p] \/ (fetch[p] = "idle" /\ fetch'[p] = "sent")
    <3>1. CASE fetch' = [fetch EXCEPT ![q] = "idle"]
        BY <3>1 DEF Typed
    <3>2. ASSUME NEW D \in Due(Query), fetch' = [p \in Query |->
                     IF p = q THEN "idle" ELSE IF p \in D THEN "sent" ELSE fetch[p]]
          PROVE  /\ fetch' \in [Query -> {"idle", "sent", "read"}] /\ fetch'[q] = "idle"
                 /\ \A p \in Query \ {q} :
                       fetch'[p] = fetch[p] \/ (fetch[p] = "idle" /\ fetch'[p] = "sent")
      <4>1. D \subseteq Idle
          BY DueIsIdle
      <4> QED
          BY <3>2, <4>1 DEF Typed, Idle
    <3> QED
        BY <1>7, <3>1, <3>2 DEF FetchDone
  <2>3. Typed'
      BY <2>1, <2>2 DEF Typed, Data
  <2>4. \A p \in Query : Owed(p)' = Owed(p)
      BY <2>1 DEF Owed
  <2>5. ReadInv'
      BY <2>1, <2>2, <2>4 DEF Typed, ReadInv
  <2>6. ShownInv'
      BY <2>1, <2>2, <2>4 DEF Typed, ReadInv, ShownInv, Idle
  <2> QED
      BY <2>3, <2>5, <2>6
<1>8. ASSUME NEW q \in Query, FetchFails(q) PROVE CacheInv'
  <2> USE <1>8 DEF FetchFails, server
  <2>1. Typed'
      BY DEF Typed
  <2>2. \A p \in Query : Owed(p)' = Owed(p)
      BY DEF Owed
  <2> QED
      BY <2>1, <2>2 DEF Typed, ReadInv, ShownInv
<1>9. CASE Collect
    BY <1>9 DEF Collect, server, Typed, ReadInv, ShownInv, Data, Owed
<1>10. CASE Focus \/ Navigate
  <2>1. PICK D : /\ D \subseteq Idle
                 /\ fetch' = [q \in Query |-> IF q \in D THEN "sent" ELSE fetch[q]]
    <3>1. CASE Focus
      <4>1. Mounted \in SUBSET Query
          BY DEF Mounted
      <4> QED
          BY <3>1, <4>1, DueIsIdle DEF Focus, Send
    <3>2. CASE Navigate
        BY <3>2, DueIsIdle DEF Navigate, Send
    <3> QED
        BY <1>10, <3>1, <3>2
  <2>2. UNCHANGED <<item, taken, have, shown, stale, answer, requests, unseen>>
      BY <1>10 DEF Focus, Navigate, server
  <2>3. Typed'
      BY <2>1, <2>2 DEF Typed
  <2>4. \A q \in Query : Owed(q)' = Owed(q)
      BY <2>2 DEF Owed
  <2> QED
      BY <2>1, <2>2, <2>3, <2>4 DEF Typed, ReadInv, ShownInv, Idle
<1>11. CASE PermissionsFetched \/ Leave \/ UNCHANGED bucketVars
    BY <1>11 DEF PermissionsFetched, Leave, bucketVars, server, cache,
                 Typed, ReadInv, ShownInv, Owed
<1>12. ASSUME NEW op \in Op, NEW i \in Item, Mutate(op, i) PROVE CacheInv'
  <2> USE <1>12 DEF Mutate, server, cache
  <2>1. Typed'
      BY DEF Typed, Request
  <2>2. \A q \in Query : Owed(q) => Owed(q)'
      BY DEF Owed
  <2> QED
      BY <2>1, <2>2, ServerStep
<1> QED
    BY <1>1, <1>2, <1>3, <1>4, <1>5, <1>6, <1>7, <1>8, <1>9, <1>10, <1>11, <1>12
       DEF BucketNext

(* Data of the cache that is neither stale nor behind changes the page was *)
(* not told of is what the server has, once nothing is under way (the      *)
(* invalidations of useFileActions.ts and useTrashActions.ts).             *)
THEOREM PageShowsItsChanges == BucketSpec => []ToldIsShown
<1>1. CacheInv => ToldIsShown
    BY DEF CacheInv, Typed, ShownInv, ToldIsShown, Quiet, Owed, Query
<1> QED
    BY <1>1, CacheInit, CacheStep, PTL DEF BucketSpec

(* Once it has seen everything, the page has a row for what the server     *)
(* would trash, restore or purge: the lists it offers from are the         *)
(* server's, as is the membership.  The server's further refusals (those   *)
(* of bucket_file.go and bucket_folder.go) are the ones NotInRow names.    *)
THEOREM PageOffersWhatHolds == BucketSpec => []OffersHold
<1>1. ToldIsShown => OffersHold
  <2> SUFFICES ASSUME ToldIsShown, Quiet, page = "open", membership = group,
                      have = Query, stale = {}, unseen = {},
                      NEW op \in Op \ {"create"}, NEW i \in Item
               PROVE  /\ Accepted(op, i) => Offered(op, i) \/ item[i] = "restoring"
                      /\ Offered(op, i) => MayChange /\ (Accepted(op, i) \/ NotInRow(op, i))
      BY DEF OffersHold
  <2>1. \A q \in Query : shown[q] = Read(q, item)
      BY DEF ToldIsShown
  <2>2. /\ i \in shown["bucket"] <=> item[i] \in {"uploading", "listed"}
        /\ i \in shown["trash"] <=> item[i] \in {"trashed", "overdue"}
      BY <2>1 DEF Query, Read
  <2>3. IsContributor <=> MayChange
      BY DEF IsContributor, MayChange
  <2>4. CASE op = "trash"
      BY <2>2, <2>3, <2>4
         DEF Offered, OffersInHeader, OffersInList, OffersInTrash, Accepted, Possible, NotInRow
  <2>5. CASE op \in {"restore", "purge"}
      BY <2>2, <2>3, <2>5
         DEF Offered, OffersInHeader, OffersInList, OffersInTrash, Accepted, Possible, NotInRow
  <2> QED
      BY <2>4, <2>5 DEF Op
<1> QED
    BY <1>1, PageShowsItsChanges, PTL
=============================================================================
