------------------------------ MODULE DropZone -------------------------------
(***************************************************************************)
(* Files and folders dropped on the list of a bucket (DragDropZone.tsx):   *)
(* the walk over what was dropped, the folders created one after the       *)
(* other, and the uploads started when all of them are there.  The overlay *)
(* shown while files are dragged is module DragOverlay.                    *)
(*                                                                         *)
(* A path is a sequence of names.  The server refuses a second folder of   *)
(* one name in one place, so that a folder is known by its path.  The list *)
(* of dropped items is live: the browser empties it when the handler of    *)
(* the event returns, which is at its first await.                         *)
(***************************************************************************)
EXTENDS Uploads, SequencesExt, FiniteSetsExt

CONSTANTS
    Drop,       \* drops, each of its own items
    Items,      \* the top level items of each drop: a sequence of sets of files
    PathIn,     \* the path of each file in what was dropped
    Open        \* folders the page may show

VARIABLES
    folderId,   \* the folder the page shows
    folders,    \* the folders of the bucket: who created each
    drop        \* each drop under way

dropVars == <<folderId, folders, drop>>
vars == <<uploadVars, dropVars>>

DropFiles(d) == UNION {Items[d][i] : i \in DOMAIN Items[d]}

ASSUME DropZoneAssumption ==
    /\ Items \in [Drop -> Seq(SUBSET File)]
    /\ PathIn \in [File -> Seq(STRING)]
    /\ Root = <<>> /\ Root \in Open /\ Open \subseteq Seq(STRING) \cap Folder
    /\ \A at \in Open, f \in File :
          \A n \in 1 .. Len(PathIn[f]) : at \o SubSeq(PathIn[f], 1, n) \in Folder

(* The part of a drop that lives in its closures.                          *)
NoDrop == [phase |-> "none", at |-> Root, read |-> {}, left |-> {}, map |-> {}]

TypeOK ==
    /\ UploadsTypeOK
    /\ folderId \in Open
    /\ DOMAIN folders \subseteq Folder
    /\ drop \in [Drop -> [phase : {"none", "reading", "stuck", "creating", "refreshing",
                                   "started", "failed"},
                          at : Open, read : SUBSET File, left : SUBSET File, map : SUBSET Folder]]

Init ==
    /\ UploadsInit
    /\ folderId \in Open
    /\ folders = [p \in Open \ {Root} |-> "owner"]
    /\ drop = [d \in Drop |-> NoDrop]

-----------------------------------------------------------------------------
(* Walking.  A directory without files below it yields nothing.            *)

(* Mutant: the folder shown by now.                                        *)
BaseNow(d) == folderId

Base(d) == drop[d].at

FolderPaths(F) == UNION {{SubSeq(PathIn[f], 1, n) : n \in 1 .. Len(PathIn[f])} : f \in F}

(* The loop over the items ends after the first that has an entry.         *)
Walked(d) == IF Items[d] = <<>> THEN {} ELSE Items[d][1]

(* Files some drop is going to upload: the model uploads each file once.   *)
UnderWay == {"reading", "creating", "refreshing"}
Taken == UNION {drop[d].read \cup drop[d].left : d \in {e \in Drop : drop[e].phase \in UnderWay}}

(* For a contributor; a drop of anyone else is refused with a toast.       *)
HandleDrop(d) ==
    /\ drop[d].phase = "none"
    /\ Walked(d) \subseteq NotYet \ Taken
    /\ drop' = [drop EXCEPT ![d] = [phase |-> "reading", at |-> folderId,
                                    read |-> {}, left |-> Walked(d), map |-> {}]]
    /\ UNCHANGED <<folderId, folders, uploadVars>>

ReadFile(d, f) ==
    /\ drop[d].phase = "reading"
    /\ f \in drop[d].left
    /\ drop' = [drop EXCEPT ![d].read = @ \cup {f}, ![d].left = @ \ {f}]
    /\ UNCHANGED <<uploadVars, folderId, folders>>

(* A file that cannot be opened: no error callback, the promise stays.     *)
ReadFails(d) ==
    /\ drop[d].phase = "reading"
    /\ drop[d].left # {}
    /\ drop' = [drop EXCEPT ![d].phase = "stuck"]
    /\ UNCHANGED <<uploadVars, folderId, folders>>

IsNested(F) == \E f \in F : PathIn[f] # <<>>

StartAll(d, at) ==
    /\ StartUpload(drop[d].read, at)
    /\ drop' = [drop EXCEPT ![d].phase = "started"]
    /\ UNCHANGED <<folderId, folders>>

AllRead(d) == drop[d].phase = "reading" /\ drop[d].left = {}

(* No folder structure, or nothing at all: upload to the current folder.   *)
StartFlat(d) ==
    /\ AllRead(d)
    /\ ~IsNested(drop[d].read)
    /\ StartAll(d, [f \in drop[d].read |-> Base(d)])

BeginFolders(d) ==
    /\ AllRead(d)
    /\ IsNested(drop[d].read)
    /\ drop' = [drop EXCEPT ![d].phase = "creating", ![d].map = {<<>>}]
    /\ UNCHANGED <<uploadVars, folderId, folders>>

-----------------------------------------------------------------------------
(* Creating.  Parents come first: the paths are sorted by their length.    *)

Missing(d) == FolderPaths(drop[d].read) \ drop[d].map
NextPath(d, p) == p \in Missing(d) /\ \A q \in Missing(d) : Len(p) <= Len(q)

(* pathToIdMap.get(path) ?? undefined                                      *)
Lookup(d, path) == IF path \in drop[d].map THEN Base(d) \o path ELSE Root
Place(d, p) == Lookup(d, Front(p)) \o <<Last(p)>>

Created(d, p) ==
    folders' = [q \in DOMAIN folders \cup {Place(d, p)} |->
                   IF q = Place(d, p) THEN d ELSE folders[q]]

CreateFolder(d, p) ==
    /\ drop[d].phase = "creating"
    /\ NextPath(d, p)
    /\ Place(d, p) \notin DOMAIN folders
    /\ Created(d, p)
    /\ drop' = [drop EXCEPT ![d].map = @ \cup {p}]
    /\ UNCHANGED <<uploadVars, folderId>>

(* Mutants: a folder already there is taken; a failure is passed over.     *)
CreateFolderTakes(d, p) ==
    /\ drop[d].phase = "creating"
    /\ NextPath(d, p)
    /\ Place(d, p) \in DOMAIN folders
    /\ drop' = [drop EXCEPT ![d].map = @ \cup {p}]
    /\ UNCHANGED <<uploadVars, folderId, folders>>

CreateFolderSkips(d, p) ==
    /\ drop[d].phase = "creating"
    /\ NextPath(d, p)
    /\ drop' = [drop EXCEPT ![d].map = @ \cup {p}]
    /\ UNCHANGED <<uploadVars, folderId, folders>>

(* FOLDER_ALREADY_EXISTS, another refusal, or an answer lost on its way:   *)
(* the first failure ends the drop and leaves the folders created so far.  *)
CreateFolderFails(d, p) ==
    /\ drop[d].phase = "creating"
    /\ NextPath(d, p)
    /\ \/ folders' = folders
       \/ Place(d, p) \notin DOMAIN folders /\ Created(d, p)
    /\ drop' = [drop EXCEPT ![d].phase = "failed"]
    /\ UNCHANGED <<uploadVars, folderId>>

(* The uploads wait for the bucket to be fetched again.                    *)
AllCreated(d) ==
    /\ drop[d].phase = "creating"
    /\ Missing(d) = {}
    /\ drop' = [drop EXCEPT ![d].phase = "refreshing"]
    /\ UNCHANGED <<uploadVars, folderId, folders>>

StartNested(d) ==
    /\ drop[d].phase = "refreshing"
    /\ StartAll(d, [f \in drop[d].read |-> Lookup(d, PathIn[f])])

-----------------------------------------------------------------------------
(* The rest of the page and of the bucket.                                 *)

(* The dialog of the header starts uploads in the folder shown.            *)
PickFiles(F) ==
    /\ F # {}
    /\ F \cap Taken = {}
    /\ StartUpload(F, [f \in F |-> folderId])
    /\ UNCHANGED dropVars

OpenFolder(p) ==
    /\ p \in Open \ {folderId}
    /\ folderId' = p
    /\ UNCHANGED <<uploadVars, folders, drop>>

DropStep(d) ==
    \/ \E f \in File : ReadFile(d, f)
    \/ StartFlat(d)
    \/ BeginFolders(d)
    \/ \E p \in Folder : CreateFolder(d, p) \/ CreateFolderFails(d, p)
    \/ AllCreated(d)
    \/ StartNested(d)

Next ==
    \/ \E d \in Drop : HandleDrop(d) \/ ReadFails(d) \/ DropStep(d)
    \/ \E F \in SUBSET File : PickFiles(F)
    \/ \E p \in Folder : OpenFolder(p)
    \/ (\E f \in File : UploadStep(f)) /\ UNCHANGED dropVars

Spec == Init /\ [][Next]_vars

(* Files are read and requests answered.                                   *)
FairSpec ==
    /\ Spec
    /\ UploadFairness
    /\ \A d \in Drop : WF_vars(DropStep(d))

-----------------------------------------------------------------------------
(* Every file of a drop is uploaded to the folder it lay in, below the     *)
(* folder the page showed at the drop, wherever the user has gone since:   *)
(* no lookup in the map of folders misses.                                 *)
FilesInPlace ==
    \A d \in Drop : drop[d].phase = "started" =>
        \A f \in drop[d].read : target[f] = drop[d].at \o PathIn[f]

(* A drop creates its tree all by itself: no file of it is uploaded before *)
(* every folder exists, and none of them was there before.  A tree is      *)
(* never merged into another, so that after a failure half way the same    *)
(* tree cannot be dropped again.                                           *)
WholeTree ==
    \A d \in Drop :
        /\ drop[d].phase \in UnderWay => drop[d].read \cup drop[d].left \subseteq NotYet
        /\ drop[d].phase = "started" =>
              \A p \in FolderPaths(drop[d].read) :
                  drop[d].at \o p \in DOMAIN folders /\ folders[drop[d].at \o p] = d

(* Every drop ends, in uploads, in a failure or at a file that cannot be   *)
(* read, and every upload in an outcome: what stays in the list is what    *)
(* failed, and each file that is stored was announced.                     *)
AllSettles ==
    <>[](/\ \A d \in Drop : drop[d].phase \notin UnderWay
         /\ \A f \in File : /\ row[f] \in {"none", "error"}
                            /\ mutation[f] = "success" => f \in announced)

(* "Process all dropped items with their paths" (DragDropZone.tsx:255).    *)
AllItemsProcessed ==
    \A d \in Drop : drop[d].phase = "started" => DropFiles(d) \cap NotYet = {}
=============================================================================
