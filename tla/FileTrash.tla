----------------------------- MODULE FileTrash -----------------------------
(***************************************************************************)
(* The life of the files at the root of one bucket: the handlers of        *)
(* services/bucket_file.go, the upload branch of HandleBucketEvents and    *)
(* the TrashExpiration event handler, over the object store.               *)
(*                                                                         *)
(* A transaction that locks a row (SELECT ... FOR UPDATE) holds it until   *)
(* it commits or rolls back; since a row has at most one lock holder the   *)
(* open transaction of a file is a function of the file, tx[f].  What a    *)
(* transaction writes is visible only at its commit, whereas its calls to  *)
(* the store take effect at once and are not undone by a rollback.         *)
(* A server may crash at any point: its open transactions roll back        *)
(* (TxRollback), its pending calls are dropped (UnmarkRestored) and the    *)
(* notification it was handling, acknowledged before it was processed, is  *)
(* gone (WorkerFails).                                                     *)
(*                                                                         *)
(* A request the code refuses for a reason outside a file's own state (no  *)
(* such bucket, a name already taken) changes nothing: it is a request     *)
(* that was not made.  Names and folders are the matter of FolderTree, and *)
(* so is the job that trashes the files of a folder with it and goes on    *)
(* when a marker cannot be written (events/folder_trash.go).               *)
(***************************************************************************)
EXTENDS ObjectStorage, Naturals

CONSTANTS
    Worker,      \* goroutines running HandleBucketEvents, one per instance
    NoEvent,     \* what an idle worker handles
    MaxUnmarks   \* bound: restores of a file whose unmarking is still pending

ASSUME FileTrashAssumption ==
    /\ NoEvent \notin Event
    /\ MaxUnmarks \in Nat

VARIABLES
    status,      \* the row's status column; "none" before, "purged" after it
    deleted,     \* the rows whose deleted_at is set
    policy,      \* the files whose presigned POST policy is still valid
    tx,          \* the transaction holding the lock on a file's row
    unmarks,     \* committed restores that have yet to remove the marker
    task,        \* what each worker is doing
    spent,       \* history: notifications consumed without their effect
    doomed       \* history: files whose deletion was decided

dbVars == <<status, deleted>>
vars == <<storageVars, status, deleted, policy, tx, unmarks, task, spent, doomed>>

Idle == [step |-> "idle", event |-> NoEvent]
Task == [step : {"found", "checked", "removed"}, event : Event]

TypeOK ==
    /\ StorageTypeOK
    /\ status \in [File -> {"none", "uploading", "uploaded", "deleted", "purged"}]
    /\ deleted \subseteq File
    /\ policy \subseteq File
    /\ tx \in [File -> {"none", "trash", "trashMarked",
                        "purge", "purgeUnmarked", "purgeRemoved"}]
    /\ unmarks \in [File -> 0 .. MaxUnmarks]
    /\ task \in [Worker -> Task \cup {Idle}]
    /\ spent \subseteq Event
    /\ doomed \subseteq File

Init ==
    /\ StorageInit
    /\ status = [f \in File |-> "none"]
    /\ deleted = {}
    /\ policy = {}
    /\ tx = [f \in File |-> "none"]
    /\ unmarks = [f \in File |-> 0]
    /\ task = [w \in Worker |-> Idle]
    /\ spent = {}
    /\ doomed = {}

RowExists(f) == status[f] \notin {"none", "purged"}
Live(f) == RowExists(f) /\ f \notin deleted

-----------------------------------------------------------------------------
(* Upload.  The row is created and the policy signed in one transaction.   *)

UploadFile(f) ==
    /\ status[f] = "none"
    /\ status' = [status EXCEPT ![f] = "uploading"]
    /\ policy' = policy \cup {f}
    /\ UNCHANGED <<storageVars, deleted, tx, unmarks, task, spent, doomed>>

(* The policy may be used several times, whatever became of the row.       *)
ClientPost(f) ==
    /\ f \in policy
    /\ PostObject(f)
    /\ spent' = spent \ Notify("upload", {f})
    /\ UNCHANGED <<dbVars, policy, tx, unmarks, task, doomed>>

PolicyExpires(f) ==
    /\ f \in policy
    /\ policy' = policy \ {f}
    /\ UNCHANGED <<storageVars, dbVars, tx, unmarks, task, spent, doomed>>

(* The update waits for a transaction that holds the row, and matches only *)
(* a live row.  Its failure is ignored and the message is acknowledged     *)
(* beforehand, so the notification may also be consumed to no effect.      *)
UploadEvent(f) ==
    LET e == [kind |-> "upload", file |-> f] IN
    /\ \E w \in Worker : task[w] = Idle
    /\ Live(f) => tx[f] = "none"
    /\ Deliver(e)
    /\ \/ /\ Live(f)
          /\ status' = [status EXCEPT ![f] = "uploaded"]
          /\ UNCHANGED spent
       \/ /\ spent' = spent \cup {e}
          /\ UNCHANGED status
    /\ UNCHANGED <<deleted, policy, tx, unmarks, task, doomed>>

-----------------------------------------------------------------------------
(* TrashFile: one transaction, the marker is written before the commit.    *)

TrashFile(f) ==
    /\ tx[f] = "none"
    /\ Live(f)
    /\ status[f] = "uploaded"
    /\ tx' = [tx EXCEPT ![f] = "trash"]
    /\ UNCHANGED <<storageVars, dbVars, policy, unmarks, task, spent, doomed>>

(* Mutant: a marker that cannot be written is only logged. *)
TrashMarkBestEffort(f) ==
    /\ tx[f] = "trash"
    /\ MarkAsTrashed(f) \/ UNCHANGED storageVars
    /\ tx' = [tx EXCEPT ![f] = "trashMarked"]
    /\ spent' = spent \ Notify("marker", {f})
    /\ UNCHANGED <<dbVars, policy, unmarks, task, doomed>>

TrashMark(f) ==
    /\ tx[f] = "trash"
    /\ MarkAsTrashed(f)
    /\ tx' = [tx EXCEPT ![f] = "trashMarked"]
    /\ spent' = spent \ Notify("marker", {f})
    /\ UNCHANGED <<dbVars, policy, unmarks, task, doomed>>

TrashCommit(f) ==
    /\ tx[f] = "trashMarked"
    /\ status' = [status EXCEPT ![f] = "deleted"]
    /\ deleted' = deleted \cup {f}
    /\ tx' = [tx EXCEPT ![f] = "none"]
    /\ UNCHANGED <<storageVars, policy, unmarks, task, spent, doomed>>

(* A failed database, store or activity call, or a crash, rolls back.      *)
(* PurgeFile ignores the failures of the store (PurgeUnmark, PurgeRemove). *)
TxRollback(f) ==
    /\ tx[f] # "none"
    /\ tx' = [tx EXCEPT ![f] = "none"]
    /\ UNCHANGED <<storageVars, dbVars, policy, unmarks, task, spent, doomed>>

-----------------------------------------------------------------------------
(* RestoreFile: the transaction only touches the database; the marker is   *)
(* removed after the commit, best effort.                                  *)

RestoreTo(f, newStatus) ==
    /\ tx[f] = "none"
    /\ f \in deleted
    /\ unmarks[f] < MaxUnmarks
    /\ status' = [status EXCEPT ![f] = newStatus]
    /\ deleted' = deleted \ {f}
    /\ unmarks' = [unmarks EXCEPT ![f] = @ + 1]
    /\ UNCHANGED <<storageVars, policy, tx, task, spent, doomed>>

(* Mutants: the row gets one of the other statuses. *)
RestoreFileAsUploading(f) == RestoreTo(f, "uploading")
RestoreFileAsRestoring(f) == RestoreTo(f, "restoring")

RestoreFile(f) == RestoreTo(f, "uploaded")

UnmarkRestored(f) ==
    /\ unmarks[f] > 0
    /\ unmarks' = [unmarks EXCEPT ![f] = @ - 1]
    /\ \/ UnmarkAsTrashed(f)
       \/ UNCHANGED storageVars
    /\ UNCHANGED <<dbVars, policy, tx, task, spent, doomed>>

-----------------------------------------------------------------------------
(* PurgeFile: the store is emptied inside the transaction, best effort.    *)

(* Mutant: FILE_NOT_IN_TRASH is not checked. *)
PurgeFileUnchecked(f) ==
    /\ tx[f] = "none"
    /\ RowExists(f)
    /\ tx' = [tx EXCEPT ![f] = "purge"]
    /\ doomed' = doomed \cup {f}
    /\ UNCHANGED <<storageVars, dbVars, policy, unmarks, task, spent>>

PurgeFile(f) ==
    /\ tx[f] = "none"
    /\ f \in deleted
    /\ tx' = [tx EXCEPT ![f] = "purge"]
    /\ doomed' = doomed \cup {f}
    /\ UNCHANGED <<storageVars, dbVars, policy, unmarks, task, spent>>

PurgeUnmark(f) ==
    /\ tx[f] = "purge"
    /\ tx' = [tx EXCEPT ![f] = "purgeUnmarked"]
    /\ \/ UnmarkAsTrashed(f)
       \/ UNCHANGED storageVars
    /\ UNCHANGED <<dbVars, policy, unmarks, task, spent, doomed>>

PurgeRemove(f) ==
    /\ tx[f] = "purgeUnmarked"
    /\ tx' = [tx EXCEPT ![f] = "purgeRemoved"]
    /\ \/ RemoveObject(f)
       \/ UNCHANGED storageVars
    /\ UNCHANGED <<dbVars, policy, unmarks, task, spent, doomed>>

PurgeCommit(f) ==
    /\ tx[f] = "purgeRemoved"
    /\ tx' = [tx EXCEPT ![f] = "none"]
    /\ status' = [status EXCEPT ![f] = "purged"]
    /\ deleted' = deleted \ {f}
    /\ UNCHANGED <<storageVars, policy, unmarks, task, spent, doomed>>

-----------------------------------------------------------------------------
(* TrashExpiration.callback, on the removal of a marker or of a content.   *)

(* findTrashedFile reads the committed row.                                *)
FindTrashedFile(w, e) ==
    /\ task[w] = Idle
    /\ e.kind \in {"marker", "object"}
    /\ Deliver(e)
    /\ IF e.file \in deleted
       THEN /\ task' = [task EXCEPT ![w] = [step |-> "found", event |-> e]]
            /\ UNCHANGED spent
       ELSE /\ spent' = spent \cup {e}
            /\ UNCHANGED task
    /\ UNCHANGED <<dbVars, policy, tx, unmarks, doomed>>

(* Mutant: the row is not read again. *)
RecheckNothing(w) ==
    /\ task[w].step = "found"
    /\ task' = [task EXCEPT ![w].step = "checked"]
    /\ doomed' = doomed \cup (deleted \cap {task[w].event.file})
    /\ UNCHANGED <<storageVars, dbVars, policy, tx, unmarks, spent>>

(* The row is read a second time, still without a lock.                    *)
RecheckFile(w) ==
    LET e == task[w].event IN
    /\ task[w].step = "found"
    /\ IF e.file \in deleted
       THEN /\ task' = [task EXCEPT ![w].step = "checked"]
            /\ doomed' = doomed \cup {e.file}
            /\ UNCHANGED spent
       ELSE /\ task' = [task EXCEPT ![w] = Idle]
            /\ spent' = spent \cup {e}
            /\ UNCHANGED doomed
    /\ UNCHANGED <<storageVars, dbVars, policy, tx, unmarks>>

HandleFileDeletion(w) ==
    /\ task[w].step = "checked"
    /\ task[w].event.kind = "marker"
    /\ RemoveObject(task[w].event.file)
    /\ task' = [task EXCEPT ![w].step = "removed"]
    /\ UNCHANGED <<dbVars, policy, tx, unmarks, spent, doomed>>

(* The row is deleted by its key alone, once nobody holds it.              *)
DeleteRow(w) ==
    LET f == task[w].event.file IN
    /\ \/ task[w].step = "removed"
       \/ task[w].step = "checked" /\ task[w].event.kind = "object"
    /\ tx[f] = "none"
    /\ status' = [status EXCEPT ![f] = "purged"]
    /\ deleted' = deleted \ {f}
    /\ task' = [task EXCEPT ![w] = Idle]
    /\ UNCHANGED <<storageVars, policy, tx, unmarks, spent, doomed>>

(* A failed call is logged and dropped; a crash loses the message too.     *)
WorkerFails(w) ==
    /\ task[w] # Idle
    /\ task' = [task EXCEPT ![w] = Idle]
    /\ spent' = spent \cup {task[w].event}
    /\ UNCHANGED <<storageVars, dbVars, policy, tx, unmarks, doomed>>

MarkerExpires(f) ==
    /\ LifecycleExpiration(f)
    /\ UNCHANGED <<dbVars, policy, tx, unmarks, task, spent, doomed>>

-----------------------------------------------------------------------------
TrashStep(f) == TrashMark(f) \/ TrashCommit(f) \/ TxRollback(f)
PurgeStep(f) == PurgeUnmark(f) \/ PurgeRemove(f) \/ PurgeCommit(f)

FileStep(f) ==
    \/ UploadFile(f) \/ ClientPost(f) \/ PolicyExpires(f) \/ UploadEvent(f)
    \/ TrashFile(f) \/ TrashStep(f)
    \/ RestoreFile(f) \/ UnmarkRestored(f)
    \/ PurgeFile(f) \/ PurgeStep(f)
    \/ MarkerExpires(f)

WorkerStep(w) ==
    \/ \E e \in Event : FindTrashedFile(w, e)
    \/ RecheckFile(w) \/ HandleFileDeletion(w) \/ DeleteRow(w)
    \/ WorkerFails(w)

Next ==
    \/ \E f \in File : FileStep(f)
    \/ \E w \in Worker : WorkerStep(w)

Spec == Init /\ [][Next]_vars

(* What the server, the broker and the store do sooner or later: finish a  *)
(* transaction and the calls that follow it, expire a marker, hand over a  *)
(* notification and go on with it.  A lock is granted in turn, hence the   *)
(* strong fairness of the two actions that wait for one.  Users and        *)
(* failures are under no obligation.                                       *)
Fairness ==
    /\ \A f \in File :
         /\ WF_vars(TrashStep(f) \/ PurgeStep(f))
         /\ WF_vars(UnmarkRestored(f))
         /\ WF_vars(MarkerExpires(f))
         /\ SF_vars(UploadEvent(f))
    /\ \A e \in Event : SF_vars(\E w \in Worker : FindTrashedFile(w, e))
    /\ \A w \in Worker :
         /\ WF_vars(RecheckFile(w) \/ HandleFileDeletion(w))
         /\ SF_vars(DeleteRow(w))

FairSpec == Spec /\ Fairness

-----------------------------------------------------------------------------
(* A file the code has not decided to delete while it was in the trash can *)
(* be downloaded as long as it is listed as uploaded: no rolled back trash *)
(* or purge, late or repeated notification, crash or expired marker takes  *)
(* its content away (UploadFile to DownloadFile).                          *)
ContentKept ==
    \A f \in File : Live(f) /\ status[f] = "uploaded" /\ f \notin doomed
                        => f \in object

(* A trashed file has something that will end its stay in the trash, its   *)
(* marker or a notification on its way or being handled, unless one was    *)
(* consumed to no effect since the marker was written (MarkAsTrashed,      *)
(* TrashExpiration).                                                       *)
WillExpire(f) ==
    LET e == [kind |-> "marker", file |-> f] IN
    \/ f \in marker
    \/ e \in events
    \/ \E w \in Worker : task[w].event = e
    \/ e \in spent
TrashExpiryPending == \A f \in deleted : WillExpire(f)

(* A file still "uploading" although its content arrived is about to be    *)
(* marked uploaded, unless the notification was consumed to no effect      *)
(* (UploadEvent is the only way out of "uploading").                       *)
UploadNoticed ==
    \A f \in File : status[f] = "uploading" /\ f \in object
        => [kind |-> "upload", file |-> f] \in events \cup spent

(* The files as a user knows them follow FileLifecycle: whatever the       *)
(* interleaving, a file moves along its life one documented step at a      *)
(* time, a removed file never comes back, and neither row nor content goes *)
(* unless a transaction or a worker had found the file in the trash.       *)
Phase ==
    [f \in File |-> CASE status[f] = "none" -> "absent"
                      [] status[f] = "purged" -> "gone"
                      [] status[f] = "deleted" -> "trashed"
                      [] OTHER -> status[f]]
Lifecycle == INSTANCE FileLifecycle WITH phase <- Phase, content <- object
ImplementsLifecycle == Lifecycle!Spec

(* A trashed file is restored or gone in the end, or its notification was  *)
(* consumed to no effect (trash retention).                                *)
TrashEnds ==
    \A f \in File :
        f \in deleted ~> \/ f \notin deleted
                         \/ [kind |-> "marker", file |-> f] \in spent

(* Once the content arrived, the file leaves "uploading", unless the       *)
(* notification was consumed to no effect.                                 *)
UploadEnds ==
    \A f \in File :
        status[f] = "uploading" /\ f \in object
            ~> \/ status[f] # "uploading"
               \/ [kind |-> "upload", file |-> f] \in spent
=============================================================================
