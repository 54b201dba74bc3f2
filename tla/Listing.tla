------------------------------- MODULE Listing -------------------------------
(***************************************************************************)
(* The views of a bucket: the rows of one folder as a list or a grid, the  *)
(* trash, the breadcrumbs and the original locations (bucket-view,         *)
(* DataTable.tsx, AppSidebarInset.tsx).  The server answers with the items *)
(* of the whole bucket; the page picks a folder and walks up the tree by   *)
(* itself, with the folders that are listed and no others.                 *)
(***************************************************************************)
EXTENDS Naturals, FiniteSets

CONSTANTS
    Dir, Doc,       \* folders and files
    Top,            \* no folder_id, or no folder in the address
    PageSize        \* rows of a page of the table

ASSUME ListingAssumption ==
    /\ Dir \cap Doc = {} /\ Top \notin Dir \cup Doc /\ PageSize \in Nat
    /\ IsFiniteSet(Dir \cup Doc)

Thing == Dir \cup Doc

VARIABLES
    folderOf,       \* folder_id, which never changes
    status,         \* of each thing at the server
    bucketItems,    \* the things the bucket query answered
    trashItems,     \* those the trash query answered
    folderId,       \* the folder of the address
    view

listingVars == <<folderOf, status, bucketItems, trashItems, folderId, view>>

ListingTypeOK ==
    /\ folderOf \in [Thing -> Dir \cup {Top}]
    /\ status \in [Thing -> {"listed", "trashed", "hidden"}]
    /\ bucketItems \subseteq Thing /\ trashItems \subseteq Thing
    /\ folderId \in Dir \cup {Top}
    /\ view \in {"list", "grid", "trash"}

(* Folders above a thing: the smallest set closed under folder_id.         *)
Above(i) ==
    LET closed == {S \in SUBSET Dir : \A j \in S \cup {i} : folderOf[j] \in S \cup {Top}}
    IN  {d \in Dir : \A S \in closed : d \in S}

ListingInit ==
    /\ folderOf \in [Thing -> Dir \cup {Top}]
    /\ \A d \in Dir : d \notin Above(d)
    /\ status = [i \in Thing |-> "listed"]
    /\ bucketItems = Thing /\ trashItems = {}
    /\ folderId = Top /\ view = "list"

-----------------------------------------------------------------------------
ItemsToShow(f) == {i \in bucketItems : folderOf[i] = f}

(* The table shows its first page, and has no pager to go on.              *)
Paged(items) == {S \in SUBSET items :
    Cardinality(S) = IF Cardinality(items) <= PageSize THEN Cardinality(items) ELSE PageSize}

GridRows(items) == {items}
ListRows(items) == Paged(items)

(* What may be on screen, whatever the names and so the order are.         *)
ShownRows ==
    CASE view = "grid" -> GridRows(ItemsToShow(folderId))
      [] view = "list" -> ListRows(ItemsToShow(folderId))
      [] view = "trash" -> Paged(trashItems)

(* Mutant: the walk takes one folder only.                                 *)
ParentOnly(f, found) == {f} \cap found

(* Up from a folder, itself included, for as long as folders are found.    *)
WalkUp(f, found) ==
    LET up[n \in 0 .. Cardinality(Dir)] ==
            IF n = 0 THEN f
            ELSE LET below == up[n - 1] IN IF below \in found THEN folderOf[below] ELSE Top
    IN  {up[n] : n \in 0 .. Cardinality(Dir)} \cap found

(* buildFolderPath of the sidebar: in the answer of the bucket query.      *)
Breadcrumbs(f) == WalkUp(f, Dir \cap bucketItems)

(* buildFilePath of the server, which finds folders in the trash as well;  *)
(* the table's own walk is only for an item without this path: none is.    *)
OriginalLocation(i) == WalkUp(folderOf[i], Dir)

-----------------------------------------------------------------------------
(* Module FolderTree says how; here anything may.                          *)
StatusChanges(i) ==
    /\ status' \in {[status EXCEPT ![i] = s] : s \in {"listed", "trashed", "hidden"}}
    /\ status' # status
    /\ UNCHANGED <<folderOf, bucketItems, trashItems, folderId, view>>

BucketFetched ==
    /\ bucketItems' = {i \in Thing : status[i] = "listed"}
    /\ bucketItems' # bucketItems
    /\ UNCHANGED <<folderOf, status, trashItems, folderId, view>>

TrashFetched ==
    /\ trashItems' = {i \in Thing : status[i] = "trashed"}
    /\ trashItems' # trashItems
    /\ UNCHANGED <<folderOf, status, bucketItems, folderId, view>>

(* A double click on a folder, not in the trash.                           *)
OpenFolder(d) ==
    /\ view # "trash" /\ \E R \in ShownRows : d \in R
    /\ folderId' = d
    /\ UNCHANGED <<folderOf, status, bucketItems, trashItems, view>>

(* A breadcrumb, "/" being the first.                                      *)
FollowCrumb(f) ==
    /\ f \in (Breadcrumbs(folderId) \ {folderId}) \cup {Top}
    /\ folderId' = f
    /\ UNCHANGED <<folderOf, status, bucketItems, trashItems, view>>

SetView(v) ==
    /\ view' = v /\ view # v
    /\ UNCHANGED <<folderOf, status, bucketItems, trashItems, folderId>>

ListingNext ==
    \/ \E i \in Thing : StatusChanges(i)
    \/ BucketFetched \/ TrashFetched
    \/ \E d \in Dir : OpenFolder(d)
    \/ \E f \in Dir \cup {Top} : FollowCrumb(f)
    \/ \E v \in {"list", "grid", "trash"} : SetView(v)

-----------------------------------------------------------------------------
(* Folders a user can get to from the root by opening one after another.   *)
Reachable ==
    LET inside == [g \in Dir \cup {Top} |-> ItemsToShow(g) \cap Dir]
        closed == {S \in SUBSET (Dir \cup {Top}) : Top \in S /\ \A g \in S : inside[g] \subseteq S}
    IN  {f \in Dir \cup {Top} : \A S \in closed : f \in S}

(* An item of the answer is shown in one folder, which can be opened from  *)
(* the root if and only if every folder above it is listed: items whose    *)
(* folder went to the trash before them are nowhere to be seen.  The       *)
(* breadcrumbs are the path up to the first folder that is not listed, all *)
(* of it if none is missing and cut short otherwise, and the location in   *)
(* the trash is the whole path.  And up to a page of items, list and grid  *)
(* show the same.                                                          *)
ListingHolds ==
    LET above == [i \in Thing |-> Above(i)]
        reached == Reachable
        missing == Dir \ bucketItems
    IN  /\ \A i \in bucketItems :
              /\ \E f \in Dir \cup {Top} :
                    \A g \in Dir \cup {Top} : i \in ItemsToShow(g) <=> g = f
              /\ (\E f \in reached : i \in ItemsToShow(f)) <=> above[i] \cap missing = {}
        /\ \A i \in Thing : OriginalLocation(i) = above[i]
        /\ \A f \in Dir :
              Breadcrumbs(f) = {d \in above[f] \cup {f} :
                                  ((above[f] \cup {f}) \ above[d]) \cap missing = {}}
        /\ Cardinality(ItemsToShow(folderId)) <= PageSize =>
              ListRows(ItemsToShow(folderId)) = GridRows(ItemsToShow(folderId))
=============================================================================
