-------------------------- MODULE FileTrashProofs --------------------------
(***************************************************************************)
(* Proofs about FileTrash, for any set of files, any number of workers and *)
(* any bound on pending restores.                                          *)
(***************************************************************************)
EXTENDS FileTrash, TLAPS

(* The content of a file that is listed or trashed is there, and so is the *)
(* content an upload notification announces, unless the file is doomed.    *)
ContentInv ==
    \A f \in File \ doomed :
        /\ status[f] \in {"uploaded", "deleted"} => f \in object
        /\ [kind |-> "upload", file |-> f] \in events => f \in object

(* deleted_at and the status column tell the same story.                   *)
StatusInv == \A f \in File : f \in deleted <=> status[f] = "deleted"

(* An open transaction keeps the row as it found it; whoever is past the   *)
(* check that dooms a file works on a doomed file.                         *)
LockInv ==
    /\ \A f \in File :
         /\ tx[f] \in {"trash", "trashMarked"} => status[f] = "uploaded"
         /\ tx[f] \in {"purge", "purgeUnmarked", "purgeRemoved"}
              => f \in doomed /\ status[f] = "deleted"
    /\ \A w \in Worker :
         task[w].step \in {"checked", "removed"} => task[w].event.file \in doomed

(* Nothing is doomed before it was uploaded, nor posted before it exists.  *)
DoomInv ==
    \A f \in File :
        /\ f \in doomed => status[f] \in {"uploaded", "deleted", "purged"}
        /\ f \in policy => status[f] # "none"
        /\ f \in object => status[f] # "none"

IInv == TypeOK /\ ContentInv /\ StatusInv /\ LockInv /\ DoomInv

-----------------------------------------------------------------------------
(* FileTrash never leaves its types: its statuses, lock states and tasks.  *)
THEOREM TypeCorrect == Spec => []TypeOK
<1> USE FileTrashAssumption DEF TypeOK, StorageTypeOK
<1>1. Init => TypeOK
  BY DEF Init, StorageInit
<1>2. TypeOK /\ [Next]_vars => TypeOK'
  <2> SUFFICES ASSUME TypeOK, [Next]_vars PROVE TypeOK'
    OBVIOUS
  <2>1. ASSUME NEW f \in File, FileStep(f) PROVE TypeOK'
    <3>1. CASE UploadFile(f) \/ PolicyExpires(f)
      BY <3>1 DEF UploadFile, PolicyExpires, storageVars, dbVars
    <3>2. CASE ClientPost(f)
      BY <3>2 DEF ClientPost, PostObject, Notify, Event, dbVars
    <3>3. CASE UploadEvent(f)
      BY <3>3 DEF UploadEvent, Deliver, Event
    <3>4. CASE TrashFile(f) \/ TxRollback(f) \/ TrashCommit(f)
      BY <3>4 DEF TrashFile, TxRollback, TrashCommit, storageVars, dbVars
    <3>5. CASE TrashMark(f)
      BY <3>5 DEF TrashMark, MarkAsTrashed, dbVars
    <3>6. CASE RestoreFile(f)
      BY <3>6 DEF RestoreFile, RestoreTo, storageVars
    <3>7. CASE UnmarkRestored(f)
      BY <3>7 DEF UnmarkRestored, UnmarkAsTrashed, Notify, Event, storageVars, dbVars
    <3>8. CASE PurgeFile(f) \/ PurgeCommit(f)
      BY <3>8 DEF PurgeFile, PurgeCommit, storageVars, dbVars
    <3>9. CASE PurgeUnmark(f)
      BY <3>9 DEF PurgeUnmark, UnmarkAsTrashed, Notify, Event, storageVars, dbVars
    <3>10. CASE PurgeRemove(f)
      BY <3>10 DEF PurgeRemove, RemoveObject, Notify, Event, storageVars, dbVars
    <3>11. CASE MarkerExpires(f)
      BY <3>11 DEF MarkerExpires, LifecycleExpiration, UnmarkAsTrashed, Notify, Event, dbVars
    <3>12. QED
      BY <2>1, <3>1, <3>2, <3>3, <3>4, <3>5, <3>6, <3>7, <3>8, <3>9, <3>10, <3>11
         DEF FileStep, TrashStep, PurgeStep
  <2>2. ASSUME NEW w \in Worker, WorkerStep(w) PROVE TypeOK'
    <3>1. ASSUME NEW e \in Event, FindTrashedFile(w, e) PROVE TypeOK'
      BY <3>1 DEF FindTrashedFile, Deliver, Task, dbVars
    <3>2. CASE RecheckFile(w)
      BY <3>2 DEF RecheckFile, Task, Idle, Event, storageVars, dbVars
    <3>3. CASE HandleFileDeletion(w)
      BY <3>3 DEF HandleFileDeletion, RemoveObject, Notify, Task, Idle, Event, dbVars
    <3>4. CASE DeleteRow(w)
      BY <3>4 DEF DeleteRow, Task, Idle, storageVars
    <3>5. CASE WorkerFails(w)
      BY <3>5 DEF WorkerFails, Task, Idle, storageVars, dbVars
    <3>6. QED
      BY <2>2, <3>1, <3>2, <3>3, <3>4, <3>5 DEF WorkerStep
  <2>3. CASE UNCHANGED vars
    BY <2>3 DEF vars, storageVars
  <2>4. QED
    BY <2>1, <2>2, <2>3 DEF Next
<1>3. QED
  BY <1>1, <1>2, PTL DEF Spec

-----------------------------------------------------------------------------
(* Every step of a file's handlers keeps the inductive invariant.          *)
LEMMA FileStepInv ==
  ASSUME IInv, TypeOK', NEW f \in File, FileStep(f)
  PROVE  IInv'
<1> USE DEF TypeOK, StorageTypeOK, ContentInv, StatusInv, LockInv, DoomInv
<1>1. CASE UploadFile(f)
  BY <1>1 DEF IInv, UploadFile, storageVars
<1>2. CASE ClientPost(f)
  BY <1>2 DEF IInv, ClientPost, PostObject, Notify, dbVars
<1>3. CASE PolicyExpires(f)
  BY <1>3 DEF IInv, PolicyExpires, storageVars, dbVars
<1>4. CASE UploadEvent(f)
  BY <1>4 DEF IInv, UploadEvent, Deliver, Live, RowExists
<1>5. CASE TrashFile(f)
  BY <1>5 DEF IInv, TrashFile, storageVars, dbVars
<1>6. CASE TrashMark(f)
  BY <1>6 DEF IInv, TrashMark, MarkAsTrashed, dbVars
<1>7. CASE TrashCommit(f)
  BY <1>7 DEF IInv, TrashCommit, storageVars
<1>8. CASE TxRollback(f)
  BY <1>8 DEF IInv, TxRollback, storageVars, dbVars
<1>9. CASE RestoreFile(f)
  BY <1>9 DEF IInv, RestoreFile, RestoreTo, storageVars
<1>10. CASE UnmarkRestored(f)
  BY <1>10 DEF IInv, UnmarkRestored, UnmarkAsTrashed, Notify, storageVars, dbVars
<1>11. CASE PurgeFile(f)
  BY <1>11 DEF IInv, PurgeFile, storageVars, dbVars
<1>12. CASE PurgeUnmark(f)
  BY <1>12 DEF IInv, PurgeUnmark, UnmarkAsTrashed, Notify, storageVars, dbVars
<1>13. CASE PurgeRemove(f)
  BY <1>13 DEF IInv, PurgeRemove, RemoveObject, Notify, storageVars, dbVars
<1>14. CASE PurgeCommit(f)
  BY <1>14 DEF IInv, PurgeCommit, storageVars
<1>15. CASE MarkerExpires(f)
  <2>1. \A g \in File : [kind |-> "upload", file |-> g] \in events'
                         => [kind |-> "upload", file |-> g] \in events
    BY <1>15 DEF MarkerExpires, LifecycleExpiration, UnmarkAsTrashed, Notify
  <2>2. UNCHANGED <<object, status, deleted, policy, tx, task, doomed>>
    BY <1>15 DEF MarkerExpires, LifecycleExpiration, UnmarkAsTrashed, dbVars
  <2>3. QED
    BY <2>1, <2>2 DEF IInv
<1>16. QED
  BY <1>1, <1>2, <1>3, <1>4, <1>5, <1>6, <1>7, <1>8, <1>9, <1>10, <1>11, <1>12,
     <1>13, <1>14, <1>15 DEF FileStep, TrashStep, PurgeStep

(* So does every step of an event worker.                                  *)
LEMMA WorkerStepInv ==
  ASSUME IInv, TypeOK', NEW w \in Worker, WorkerStep(w)
  PROVE  IInv'
<1> USE FileTrashAssumption
    DEF TypeOK, StorageTypeOK, ContentInv, StatusInv, LockInv, DoomInv
<1>1. ASSUME NEW e \in Event, FindTrashedFile(w, e) PROVE IInv'
  BY <1>1 DEF IInv, FindTrashedFile, Deliver, dbVars
<1>2. CASE RecheckFile(w)
  BY <1>2 DEF IInv, RecheckFile, Task, Idle, Event, storageVars, dbVars
<1>3. CASE HandleFileDeletion(w)
  <2> DEFINE f == task[w].event.file
  <2>1. f \in doomed
    BY <1>3 DEF IInv, HandleFileDeletion
  <2>2. \A g \in File : [kind |-> "upload", file |-> g] \in events'
                         => [kind |-> "upload", file |-> g] \in events
    BY <1>3 DEF HandleFileDeletion, RemoveObject, Notify
  <2>3. /\ object' = object \ {f}
        /\ task' = [task EXCEPT ![w].step = "removed"]
        /\ UNCHANGED <<status, deleted, policy, tx, doomed>>
    BY <1>3 DEF HandleFileDeletion, RemoveObject, dbVars
  <2>4. ContentInv' /\ StatusInv' /\ DoomInv'
    BY <2>1, <2>2, <2>3 DEF IInv
  <2>5. LockInv'
    BY <2>1, <2>3 DEF IInv, Task, Idle
  <2>6. QED
    BY <2>4, <2>5 DEF IInv
<1>4. CASE DeleteRow(w)
  BY <1>4 DEF IInv, DeleteRow, Task, Idle, Event, storageVars
<1>5. CASE WorkerFails(w)
  BY <1>5 DEF IInv, WorkerFails, Task, Idle, storageVars, dbVars
<1>6. QED
  BY <1>1, <1>2, <1>3, <1>4, <1>5 DEF WorkerStep

THEOREM InductiveInvariant == Spec => []IInv
<1>1. Init => IInv
  BY FileTrashAssumption
     DEF Init, StorageInit, IInv, TypeOK, StorageTypeOK, ContentInv, StatusInv,
         LockInv, DoomInv, Idle
<1>2. IInv /\ TypeOK' /\ [Next]_vars => IInv'
  <2>1. CASE UNCHANGED vars
    BY <2>1 DEF vars, storageVars, IInv, TypeOK, StorageTypeOK, ContentInv,
                StatusInv, LockInv, DoomInv
  <2>2. QED
    BY <2>1, FileStepInv, WorkerStepInv DEF Next
<1>3. QED
  BY <1>1, <1>2, TypeCorrect, PTL DEF Spec

(* A file whose deletion was never decided while it was in the trash keeps *)
(* its content for as long as it is listed as uploaded.                    *)
THEOREM ContentIsKept == Spec => []ContentKept
<1>1. IInv => ContentKept
  BY DEF IInv, ContentInv, ContentKept
<1>2. QED
  BY <1>1, InductiveInvariant, PTL

-----------------------------------------------------------------------------
(* The expiry of a trashed file is pending from the moment its marker is   *)
(* written, before the transaction that trashes it commits.                *)
ExpiryInv ==
    \A f \in File : f \in deleted \/ tx[f] = "trashMarked" => WillExpire(f)

(* Removing a marker publishes the notification that takes its place.      *)
LEMMA UnmarkingExpires ==
  ASSUME NEW f \in File, UnmarkAsTrashed(f), UNCHANGED <<task, spent>>,
         NEW g \in File, WillExpire(g)
  PROVE  WillExpire(g)'
<1>1. CASE g \in marker \cap {f}
  BY <1>1 DEF UnmarkAsTrashed, Notify, WillExpire
<1>2. CASE g \notin marker \cap {f}
  BY <1>2 DEF UnmarkAsTrashed, WillExpire
<1>3. QED
  BY <1>1, <1>2

LEMMA FileStepExpiry ==
  ASSUME IInv, ExpiryInv, NEW f \in File, FileStep(f)
  PROVE  ExpiryInv'
<1> USE DEF TypeOK, StorageTypeOK
<1>1. CASE UploadFile(f) \/ PolicyExpires(f) \/ TrashFile(f) \/ TxRollback(f)
             \/ TrashCommit(f) \/ PurgeFile(f) \/ PurgeCommit(f) \/ RestoreFile(f)
  <2>1. /\ UNCHANGED <<marker, events, task, spent>>
        /\ \A g \in File : g \in deleted' \/ tx'[g] = "trashMarked"
                            => g \in deleted \/ tx[g] = "trashMarked"
    BY <1>1 DEF IInv, UploadFile, PolicyExpires, TrashFile, TxRollback, TrashCommit,
                PurgeFile, PurgeCommit, RestoreFile, RestoreTo, storageVars, dbVars
  <2>2. QED
    BY <2>1 DEF ExpiryInv, WillExpire
<1>2. CASE ClientPost(f)
  BY <1>2 DEF ClientPost, PostObject, Notify, dbVars, ExpiryInv, WillExpire
<1>3. CASE UploadEvent(f)
  BY <1>3 DEF UploadEvent, Deliver, ExpiryInv, WillExpire
<1>4. CASE TrashMark(f)
  <2>1. f \in marker'
    BY <1>4 DEF TrashMark, MarkAsTrashed
  <2>2. ASSUME NEW g \in File \ {f}, g \in deleted' \/ tx'[g] = "trashMarked"
        PROVE  WillExpire(g)'
    <3>1. WillExpire(g)
      BY <1>4, <2>2 DEF IInv, TrashMark, dbVars, ExpiryInv
    <3>2. QED
      BY <1>4, <3>1 DEF TrashMark, MarkAsTrashed, Notify, WillExpire
  <2>3. QED
    BY <2>1, <2>2 DEF ExpiryInv, WillExpire
<1>5. CASE UnmarkRestored(f) \/ PurgeUnmark(f) \/ MarkerExpires(f)
  <2>1. /\ UnmarkAsTrashed(f) \/ UNCHANGED storageVars
        /\ UNCHANGED <<task, spent, deleted>>
        /\ \A g \in File : tx'[g] = "trashMarked" => tx[g] = "trashMarked"
    BY <1>5 DEF IInv, UnmarkRestored, PurgeUnmark, MarkerExpires,
                LifecycleExpiration, dbVars
  <2>2. QED
    BY <2>1, UnmarkingExpires DEF ExpiryInv, WillExpire, storageVars
<1>6. CASE PurgeRemove(f)
  <2>1. /\ UNCHANGED <<marker, task, spent, deleted>>
        /\ events \subseteq events'
        /\ \A g \in File : tx'[g] = "trashMarked" => tx[g] = "trashMarked"
    BY <1>6 DEF IInv, PurgeRemove, RemoveObject, Notify, storageVars, dbVars
  <2>2. QED
    BY <2>1 DEF ExpiryInv, WillExpire
<1>7. QED
  BY <1>1, <1>2, <1>3, <1>4, <1>5, <1>6 DEF FileStep, TrashStep, PurgeStep

LEMMA WorkerStepExpiry ==
  ASSUME IInv, ExpiryInv, NEW w \in Worker, WorkerStep(w)
  PROVE  ExpiryInv'
<1> USE FileTrashAssumption DEF TypeOK, StorageTypeOK
<1> SUFFICES ASSUME NEW g \in File, g \in deleted' \/ tx'[g] = "trashMarked"
             PROVE  WillExpire(g)'
  BY DEF ExpiryInv
<1>1. WillExpire(g)
  BY DEF WorkerStep, FindTrashedFile, RecheckFile, HandleFileDeletion, DeleteRow,
         WorkerFails, ExpiryInv, dbVars, IInv
<1> DEFINE e == [kind |-> "marker", file |-> g]
<1>2. e \in Event
  BY DEF Event
<1>3. ASSUME NEW n \in Event, FindTrashedFile(w, n) PROVE WillExpire(g)'
  BY <1>1, <1>2, <1>3 DEF FindTrashedFile, Deliver, WillExpire, IInv, Idle
<1>4. CASE RecheckFile(w)
  BY <1>1, <1>2, <1>4 DEF RecheckFile, WillExpire, IInv, Task, Idle, storageVars
<1>5. CASE HandleFileDeletion(w)
  <2>1. events \subseteq events' /\ UNCHANGED <<marker, spent>>
    BY <1>5 DEF HandleFileDeletion, RemoveObject
  <2>2. \A v \in Worker : task'[v].event = task[v].event
    BY <1>5 DEF HandleFileDeletion, IInv, Task, Idle
  <2>3. QED
    BY <1>1, <2>1, <2>2 DEF WillExpire
<1>6. CASE DeleteRow(w)
  <2>1. task[w].event.file # g
    BY <1>6 DEF DeleteRow
  <2>2. \A v \in Worker : task[v].event = e => task'[v] = task[v]
    BY <1>6, <2>1 DEF DeleteRow, IInv
  <2>3. QED
    BY <1>1, <1>6, <2>2 DEF DeleteRow, WillExpire, storageVars
<1>7. CASE WorkerFails(w)
  BY <1>1, <1>2, <1>7 DEF WorkerFails, WillExpire, IInv, Idle, storageVars
<1>8. QED
  BY <1>3, <1>4, <1>5, <1>6, <1>7 DEF WorkerStep

(* No trashed file is left without something that ends its stay, but for   *)
(* the notifications that were consumed to no effect.                      *)
THEOREM ExpiryIsPending == Spec => []TrashExpiryPending
<1>1. Init => ExpiryInv
  BY DEF Init, ExpiryInv
<1>2. IInv /\ ExpiryInv /\ [Next]_vars => ExpiryInv'
  <2>1. CASE UNCHANGED vars
    BY <2>1 DEF vars, storageVars, ExpiryInv, WillExpire
  <2>2. QED
    BY <2>1, FileStepExpiry, WorkerStepExpiry DEF Next
<1>3. IInv /\ ExpiryInv => TrashExpiryPending
  BY DEF IInv, TypeOK, ExpiryInv, TrashExpiryPending
<1>4. QED
  BY <1>1, <1>2, <1>3, InductiveInvariant, PTL DEF Spec

-----------------------------------------------------------------------------
(* A file's row exists before its content does (DoomInv), so that whoever  *)
(* posts the content meets the row "uploading", and the notification of it *)
(* goes with the row's status or is spent.                                 *)
LEMMA FileStepNoticed ==
  ASSUME IInv, UploadNoticed, NEW f \in File, FileStep(f)
  PROVE  UploadNoticed'
<1> USE DEF TypeOK, StorageTypeOK, UploadNoticed
<1> DEFINE up(g) == [kind |-> "upload", file |-> g]
<1>1. CASE UploadFile(f)
  <2>1. f \notin object /\ UNCHANGED <<object, events, spent>>
    BY <1>1 DEF UploadFile, IInv, DoomInv, storageVars
  <2>2. QED
    BY <1>1, <2>1 DEF UploadFile, IInv
<1>2. CASE ClientPost(f)
  <2>1. up(f) \in events' /\ \A g \in File \ {f} :
            up(g) \in events \cup spent => up(g) \in events' \cup spent'
    BY <1>2 DEF ClientPost, PostObject, Notify
  <2>2. UNCHANGED status /\ object' = object \cup {f}
    BY <1>2 DEF ClientPost, PostObject, dbVars
  <2>3. QED
    BY <2>1, <2>2
<1>3. CASE UploadEvent(f)
  <2>1. \A g \in File \ {f} : up(g) \in events \cup spent => up(g) \in events' \cup spent'
    BY <1>3 DEF UploadEvent, Deliver
  <2>2. object' = object /\ \A g \in File \ {f} : status'[g] = status[g]
    BY <1>3 DEF UploadEvent, Deliver, IInv
  <2>3. status'[f] = "uploaded" \/ up(f) \in spent'
    BY <1>3 DEF UploadEvent, IInv
  <2>4. QED
    BY <2>1, <2>2, <2>3
<1>4. CASE TrashMark(f)
  <2>1. \A g \in File : up(g) \in spent => up(g) \in spent'
    BY <1>4 DEF TrashMark, Notify
  <2>2. QED
    BY <1>4, <2>1 DEF TrashMark, MarkAsTrashed, dbVars
<1>5. CASE PolicyExpires(f) \/ TrashFile(f) \/ TxRollback(f) \/ PurgeFile(f)
             \/ TrashCommit(f) \/ RestoreFile(f) \/ PurgeCommit(f)
  <2>1. /\ UNCHANGED <<object, events, spent>>
        /\ \A g \in File : status'[g] = "uploading" => status[g] = "uploading"
    BY <1>5 DEF IInv, PolicyExpires, TrashFile, TxRollback, PurgeFile, TrashCommit,
                RestoreFile, RestoreTo, PurgeCommit, storageVars, dbVars
  <2>2. QED
    BY <2>1
<1>6. CASE UnmarkRestored(f) \/ PurgeUnmark(f) \/ MarkerExpires(f) \/ PurgeRemove(f)
  <2>1. /\ UNCHANGED <<status, spent>> /\ events \subseteq events'
        /\ object' \subseteq object
    BY <1>6 DEF UnmarkRestored, PurgeUnmark, MarkerExpires, LifecycleExpiration,
                PurgeRemove, UnmarkAsTrashed, RemoveObject, storageVars, dbVars
  <2>2. QED
    BY <2>1
<1>7. QED
  BY <1>1, <1>2, <1>3, <1>4, <1>5, <1>6 DEF FileStep, TrashStep, PurgeStep

LEMMA WorkerStepNoticed ==
  ASSUME IInv, UploadNoticed, NEW w \in Worker, WorkerStep(w)
  PROVE  UploadNoticed'
<1> USE DEF TypeOK, StorageTypeOK, UploadNoticed
<1>1. \A g \in File : [kind |-> "upload", file |-> g] \in events \cup spent
                       => [kind |-> "upload", file |-> g] \in events' \cup spent'
  BY DEF WorkerStep, FindTrashedFile, Deliver, RecheckFile, HandleFileDeletion, RemoveObject,
         DeleteRow, WorkerFails, storageVars
<1>2. object' \subseteq object
  BY DEF WorkerStep, FindTrashedFile, Deliver, RecheckFile, HandleFileDeletion, RemoveObject,
         DeleteRow, WorkerFails, storageVars
<1>3. \A g \in File : status'[g] = "uploading" => status[g] = "uploading"
  BY DEF WorkerStep, FindTrashedFile, RecheckFile, HandleFileDeletion, DeleteRow, WorkerFails,
         IInv, dbVars
<1>4. QED
  BY <1>1, <1>2, <1>3

(* No upload is forgotten: the notification that ends it is on its way, or *)
(* was consumed to no effect.                                              *)
THEOREM UploadIsNoticed == Spec => []UploadNoticed
<1>1. Init => UploadNoticed
  BY DEF Init, UploadNoticed
<1>2. IInv /\ UploadNoticed /\ [Next]_vars => UploadNoticed'
  <2>1. CASE UNCHANGED vars
    BY <2>1 DEF vars, storageVars, UploadNoticed
  <2>2. QED
    BY <2>1, FileStepNoticed, WorkerStepNoticed DEF Next
<1>3. QED
  BY <1>1, <1>2, InductiveInvariant, PTL DEF Spec

-----------------------------------------------------------------------------
(* The row of a file is the phase of its life; nothing else is.            *)
LEMMA PhaseOfStatus ==
  ASSUME TypeOK, NEW f \in File
  PROVE  /\ status[f] = "none" <=> Phase[f] = "absent"
         /\ status[f] = "purged" <=> Phase[f] = "gone"
         /\ status[f] = "deleted" <=> Phase[f] = "trashed"
         /\ status[f] = "uploading" <=> Phase[f] = "uploading"
         /\ status[f] = "uploaded" <=> Phase[f] = "uploaded"
BY DEF TypeOK, Phase

LEMMA PhaseUpdate ==
  ASSUME TypeOK, NEW f \in File, NEW x, status' = [status EXCEPT ![f] = x]
  PROVE  /\ x = "uploading" => Phase' = [Phase EXCEPT ![f] = "uploading"]
         /\ x = "uploaded" => Phase' = [Phase EXCEPT ![f] = "uploaded"]
         /\ x = "deleted" => Phase' = [Phase EXCEPT ![f] = "trashed"]
         /\ x = "purged" => Phase' = [Phase EXCEPT ![f] = "gone"]
BY DEF TypeOK, Phase

LEMMA PhaseSame == ASSUME UNCHANGED status PROVE UNCHANGED Phase
BY DEF Phase

LEMMA FileStepLifecycle ==
  ASSUME IInv, NEW f \in File, FileStep(f)
  PROVE  Lifecycle!Next \/ UNCHANGED Lifecycle!vars
<1> USE PhaseOfStatus, PhaseUpdate, PhaseSame DEF IInv
<1>1. CASE UploadFile(f)
  <2>1. Lifecycle!Create(f)
    BY <1>1 DEF UploadFile, storageVars, Lifecycle!Create, Lifecycle!Move
  <2>2. QED
    BY <2>1 DEF Lifecycle!Next
<1>2. CASE ClientPost(f)
  <2>1. Lifecycle!Post(f)
    BY <1>2 DEF ClientPost, PostObject, dbVars, DoomInv, Lifecycle!Post
  <2>2. QED
    BY <2>1 DEF Lifecycle!Next
<1>3. CASE UploadEvent(f)
  <2>1. CASE UNCHANGED status
    BY <1>3, <2>1 DEF UploadEvent, Deliver, Lifecycle!vars
  <2>2. CASE Live(f) /\ status' = [status EXCEPT ![f] = "uploaded"]
    <3>1. status[f] \in {"uploading", "uploaded"}
      BY <2>2 DEF Live, RowExists, TypeOK, StatusInv
    <3>2. CASE status[f] = "uploaded"
      BY <1>3, <2>2, <3>2 DEF UploadEvent, Deliver, TypeOK, Lifecycle!vars
    <3>3. CASE status[f] = "uploading"
      <4>1. Lifecycle!Complete(f)
        BY <1>3, <2>2, <3>3 DEF UploadEvent, Deliver, ContentInv, DoomInv,
                                Lifecycle!Complete, Lifecycle!Move
      <4>2. QED
        BY <4>1 DEF Lifecycle!Next
    <3>4. QED
      BY <3>1, <3>2, <3>3
  <2>3. QED
    BY <1>3, <2>1, <2>2 DEF UploadEvent
<1>4. CASE TrashFile(f) \/ TrashMark(f) \/ TxRollback(f) \/ PolicyExpires(f)
             \/ UnmarkRestored(f) \/ PurgeUnmark(f) \/ MarkerExpires(f)
  <2>1. UNCHANGED <<status, object, doomed>>
    BY <1>4 DEF TrashFile, TrashMark, MarkAsTrashed, TxRollback, PolicyExpires,
                UnmarkRestored, PurgeUnmark, MarkerExpires, LifecycleExpiration,
                UnmarkAsTrashed, storageVars, dbVars
  <2>2. QED
    BY <2>1 DEF Lifecycle!vars
<1>5. CASE TrashCommit(f)
  <2>1. Lifecycle!Trash(f)
    BY <1>5 DEF TrashCommit, storageVars, LockInv, ContentInv,
                Lifecycle!Trash, Lifecycle!Move
  <2>2. QED
    BY <2>1 DEF Lifecycle!Next
<1>6. CASE RestoreFile(f)
  <2>1. Lifecycle!Restore(f)
    BY <1>6 DEF RestoreFile, RestoreTo, storageVars, StatusInv,
                Lifecycle!Restore, Lifecycle!Move
  <2>2. QED
    BY <2>1 DEF Lifecycle!Next
<1>7. CASE PurgeFile(f)
  <2>1. Lifecycle!Doom(f)
    BY <1>7 DEF PurgeFile, storageVars, dbVars, StatusInv, Lifecycle!Doom
  <2>2. QED
    BY <2>1 DEF Lifecycle!Next
<1>8. CASE PurgeRemove(f)
  <2>1. CASE RemoveObject(f)
    <3>1. Lifecycle!LoseContent(f)
      BY <1>8, <2>1 DEF PurgeRemove, RemoveObject, dbVars, LockInv,
                        Lifecycle!LoseContent
    <3>2. QED
      BY <3>1 DEF Lifecycle!Next
  <2>2. CASE UNCHANGED storageVars
    BY <1>8, <2>2 DEF PurgeRemove, storageVars, dbVars, Lifecycle!vars
  <2>3. QED
    BY <1>8, <2>1, <2>2 DEF PurgeRemove
<1>9. CASE PurgeCommit(f)
  <2>1. Lifecycle!Vanish(f)
    BY <1>9 DEF PurgeCommit, storageVars, LockInv, Lifecycle!Vanish
  <2>2. QED
    BY <2>1 DEF Lifecycle!Next
<1>10. QED
  BY <1>1, <1>2, <1>3, <1>4, <1>5, <1>6, <1>7, <1>8, <1>9
     DEF FileStep, TrashStep, PurgeStep

LEMMA WorkerStepLifecycle ==
  ASSUME IInv, NEW w \in Worker, WorkerStep(w)
  PROVE  Lifecycle!Next \/ UNCHANGED Lifecycle!vars
<1> USE PhaseOfStatus, PhaseUpdate, PhaseSame DEF IInv
<1> DEFINE f == task[w].event.file
<1>1. task[w] # Idle => f \in File
  BY DEF TypeOK, Task, Event
<1>2. CASE (\E e \in Event : FindTrashedFile(w, e)) \/ WorkerFails(w)
  <2>1. UNCHANGED <<status, object, doomed>>
    BY <1>2 DEF FindTrashedFile, Deliver, WorkerFails, storageVars, dbVars
  <2>2. QED
    BY <2>1 DEF Lifecycle!vars
<1>3. CASE RecheckFile(w)
  <2>1. CASE f \in deleted
    <3>1. Lifecycle!Doom(f)
      BY <1>1, <1>3, <2>1 DEF RecheckFile, Idle, storageVars, dbVars, StatusInv,
                              Lifecycle!Doom
    <3>2. QED
      BY <1>1, <1>3, <3>1 DEF RecheckFile, Idle, Lifecycle!Next
  <2>2. CASE f \notin deleted
    BY <1>3, <2>2 DEF RecheckFile, storageVars, dbVars, Lifecycle!vars
  <2>3. QED
    BY <2>1, <2>2
<1>4. CASE HandleFileDeletion(w)
  <2>1. Lifecycle!LoseContent(f)
    BY <1>1, <1>4 DEF HandleFileDeletion, RemoveObject, Idle, dbVars, LockInv,
                      Lifecycle!LoseContent
  <2>2. QED
    BY <1>1, <1>4, <2>1 DEF HandleFileDeletion, Idle, Lifecycle!Next
<1>5. CASE DeleteRow(w)
  <2>1. f \in File /\ f \in doomed
    BY <1>1, <1>5 DEF DeleteRow, Idle, LockInv
  <2>2. CASE status[f] = "purged"
    BY <1>5, <2>1, <2>2 DEF DeleteRow, storageVars, TypeOK, Lifecycle!vars
  <2>3. CASE status[f] # "purged"
    <3>1. Lifecycle!Vanish(f)
      BY <1>5, <2>1, <2>3 DEF DeleteRow, storageVars, DoomInv, Lifecycle!Vanish
    <3>2. QED
      BY <2>1, <3>1 DEF Lifecycle!Next
  <2>4. QED
    BY <2>2, <2>3
<1>6. QED
  BY <1>2, <1>3, <1>4, <1>5 DEF WorkerStep

(* FileTrash implements FileLifecycle: whatever the interleaving, failures *)
(* and repeated notifications, nothing is deleted that was not found in    *)
(* the trash first, and nothing deleted comes back.                        *)
THEOREM LifecycleImplemented == Spec => ImplementsLifecycle
<1>1. Init => Lifecycle!Init
  BY DEF Init, StorageInit, Phase, Lifecycle!Init
<1>2. IInv /\ [Next]_vars => [Lifecycle!Next]_(Lifecycle!vars)
  <2>1. CASE UNCHANGED vars
    BY <2>1, PhaseSame DEF vars, storageVars, Lifecycle!vars
  <2>2. QED
    BY <2>1, FileStepLifecycle, WorkerStepLifecycle DEF Next
<1>3. QED
  BY <1>1, <1>2, InductiveInvariant, PTL DEF Spec, ImplementsLifecycle, Lifecycle!Spec
=============================================================================
