----------------------------- MODULE FolderRows -----------------------------
(***************************************************************************)
(* The tables "folders" and "files" of one bucket, as functions from the   *)
(* items that ever exist to their rows, and the updates the handlers make  *)
(* to them.  The operators take the table as a parameter because a handler *)
(* decides on the table it read and writes to the one it finds.            *)
(*                                                                         *)
(* Name and parent of an item are fixed (Name, Up) but for the foreign     *)
(* key's ON DELETE SET NULL, which moves the children of a deleted folder  *)
(* to the root of the bucket.                                              *)
(***************************************************************************)
EXTENDS FiniteSets, Naturals

CONSTANTS
    Folder, File,   \* the items that may be created in the bucket
    Root,           \* the NULL folder_id: the root of the bucket
    Up,             \* the parent each item is created under
    Name,           \* the name each item is created with
    Limit           \* BulkActionsLimit, 1000 in the code

Node == Folder \cup File

ASSUME FolderRowsAssumption ==
    /\ Folder \cap File = {}
    /\ Root \notin Node
    /\ Up \in [Node -> Folder \cup {Root}]
    /\ DOMAIN Name = Node
    /\ Limit \in Nat \ {0}

(* The status of a folder that is neither in the trash nor leaving it is   *)
(* NULL, here "null"; "none" and "purged" are rows not there (any more).   *)
Status == {"none", "null", "uploading", "uploaded", "deleted", "restoring", "purged"}
Row == [status : Status, trashed : BOOLEAN, parent : Folder \cup {Root}]

NoRows == [n \in Node |-> [status |-> "none", trashed |-> FALSE, parent |-> Up[n]]]

Exists(r) == {n \in Node : r[n].status \notin {"none", "purged"}}
Trashed(r) == {n \in Exists(r) : r[n].trashed}
Listed(r) == {n \in Exists(r) : ~r[n].trashed}
Restoring(r) == {f \in Folder : r[f].status = "restoring"}
Children(r, f) == {n \in Exists(r) : r[n].parent = f}

SameTable(m, n) == (m \in Folder) <=> (n \in Folder)

(* The lookup by name that precedes a creation or a restore.               *)
NameTaken(r, n) ==
    \E m \in Listed(r) \ {n} :
        SameTable(m, n) /\ Name[m] = Name[n] /\ r[m].parent = r[n].parent

(* The partial unique indexes on listed folders and listed files.          *)
NamesDistinct(r) == \A n \in Listed(r) : ~NameTaken(r, n)

(* What a query with LIMIT may return of the matching set S, per table.    *)
Full(b, S) == Cardinality(b) = Limit \/ (Cardinality(b) < Limit /\ b = S)
Batches(S) ==
    {b \in SUBSET S : Full(b \cap Folder, S \cap Folder) /\ Full(b \cap File, S \cap File)}

-----------------------------------------------------------------------------
(* Updates.                                                                *)

SetStatus(r, S, s) ==
    [n \in Node |-> IF n \in S \cap Exists(r) THEN [r[n] EXCEPT !.status = s] ELSE r[n]]

Create(r, n) ==
    [r EXCEPT ![n] = [status |-> IF n \in Folder THEN "null" ELSE "uploading",
                      trashed |-> FALSE,
                      parent |-> Up[n]]]

(* Mutant: the child files are forgotten.                                  *)
FoldersToTrash(r, S) ==
    [n \in Node |-> IF n \in S \cap Listed(r) \cap Folder
                    THEN [r[n] EXCEPT !.status = "deleted", !.trashed = TRUE]
                    ELSE r[n]]

(* Both statements of a trashing match live rows only.                     *)
ToTrash(r, S) ==
    [n \in Node |-> IF n \in S \cap Listed(r)
                    THEN [r[n] EXCEPT !.status = "deleted", !.trashed = TRUE]
                    ELSE r[n]]

SoftDelete(r, f) ==
    [n \in Node |-> IF n = f /\ f \in Exists(r) THEN [r[n] EXCEPT !.trashed = TRUE]
                                              ELSE r[n]]

(* A restored folder has no status, a restored file is uploaded.           *)
Relist(r, S) ==
    [n \in Node |-> IF n \in S \cap Exists(r)
                    THEN [r[n] EXCEPT !.status = IF n \in Folder THEN "null" ELSE "uploaded",
                                      !.trashed = FALSE]
                    ELSE r[n]]

(* DELETE, and SET NULL in the rows that referred to the deleted ones.     *)
Erase(r, S) ==
    [n \in Node |->
        CASE n \in S \cap Exists(r) -> [r[n] EXCEPT !.status = "purged", !.trashed = FALSE]
          [] n \in Exists(r) \ S /\ r[n].parent \in S -> [r[n] EXCEPT !.parent = Root]
          [] OTHER -> r[n]]

-----------------------------------------------------------------------------
(* The folders above an item, from the item's own folder up to the root.   *)
Above(r, n) ==
    LET climb[k \in Nat] == IF k = 0 THEN r[n].parent
                            ELSE IF climb[k - 1] = Root THEN Root
                            ELSE r[climb[k - 1]].parent
    IN  {f \in Folder : \E k \in 0 .. Cardinality(Folder) : climb[k] = f}

(* RestoreParentFolders: the trashed folders above, unless being restored. *)
(* The climb reads the folders one by one and without a lock, then locks   *)
(* and reads again those it found in the trash: a folder above that is     *)
(* trashed during the climb may be missed.  Here the climb is one step,    *)
(* and such a folder comes after the request.                              *)
ParentsToRestore(r, n) == (Above(r, n) \cap Trashed(r)) \ Restoring(r)
=============================================================================
