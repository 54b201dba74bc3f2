----------------------------- MODULE FolderTree -----------------------------
(***************************************************************************)
(* The tree of folders and files of one bucket: the requests of            *)
(* services/bucket_folder.go and services/bucket_file.go that move items   *)
(* in and out of the trash, and the jobs FolderTrash, FolderRestore and    *)
(* FolderPurge (events/) that carry a folder's fate down to its content.   *)
(*                                                                         *)
(* A request or a job is a sequence of steps, one for each transaction or  *)
(* statement that other requests and jobs can come between; the isolation  *)
(* level is READ COMMITTED and the rows a job reads are not locked, so a   *)
(* batch that is read in one step may be written in another state.         *)
(*                                                                         *)
(* A job whose callback fails is nacked and delivered again.  If it fails  *)
(* at its first read nothing has changed, so such a delivery is left out:  *)
(* a job that can only fail stays in "jobs".  A crash, a database error    *)
(* and an acknowledgement that misses the 5 s deadline are faults; their   *)
(* number is bounded (MaxFaults), and with it that of the requests of      *)
(* users (MaxRequests).  The store is the matter of FileTrash.             *)
(***************************************************************************)
EXTENDS FolderRows

CONSTANTS
    Client,        \* requests of several steps running at the same time
    Worker,        \* goroutines running HandleEvents, one per instance
    Nothing,       \* the node or job of an idle client or worker
    MaxRequests,   \* bound: requests made by users, creations aside, and faults
    MaxFaults      \* bound: faults, that is crashes, failed calls and late acknowledgements

VARIABLES
    row,        \* the rows of both tables
    jobs,       \* the jobs waiting in the queue, in any order
    call,       \* the request each client is running
    task,       \* the job each worker is running
    requests,   \* requests made so far
    faults,     \* faults so far
    late,       \* history: items listed since they came into a trashed folder
    dropped     \* history: jobs that were never published

vars == <<row, jobs, call, task, requests, faults, late, dropped>>

Job == [kind : {"trash", "restore", "purge"}, folder : Folder]

ASSUME FolderTreeAssumption ==
    /\ Nothing \notin Node \cup Job
    /\ MaxRequests \in Nat
    /\ MaxFaults \in Nat

TrashJob(f) == [kind |-> "trash", folder |-> f]
RestoreJob(f) == [kind |-> "restore", folder |-> f]
PurgeJob(f) == [kind |-> "purge", folder |-> f]

NoCall == [step |-> "idle", node |-> Nothing]
Call == [step : {"create", "trashRead", "trashUpdated", "trashDeleted", "restoreCommitted"},
         node : Node]
NoTask == [step |-> "idle", job |-> Nothing, batch |-> {}]
Task == [step : {"read", "committed", "published", "counted", "childless", "checked", "final"},
         job : Job, batch : SUBSET Node]

TypeOK ==
    /\ row \in [Node -> Row]
    /\ jobs \subseteq Job
    /\ call \in [Client -> Call \cup {NoCall}]
    /\ task \in [Worker -> Task \cup {NoTask}]
    /\ requests \in 0 .. MaxRequests
    /\ faults \in 0 .. MaxFaults
    /\ late \subseteq Node
    /\ dropped \subseteq Job

Init ==
    /\ row = NoRows
    /\ jobs = {}
    /\ call = [c \in Client |-> NoCall]
    /\ task = [w \in Worker |-> NoTask]
    /\ requests = 0
    /\ faults = 0
    /\ late = {}
    /\ dropped = {}

-----------------------------------------------------------------------------
(* A folder in the trash, and an item still listed in one.                 *)
InTrash(r, f) == f \in Trashed(r) \ Restoring(r)
Slipped(r) == {n \in Listed(r) : r[n].parent \in Folder /\ InTrash(r, r[n].parent)}

(* A committed write: the unique indexes have let it pass.                 *)
Write(r) ==
    /\ NamesDistinct(r)
    /\ row' = r
    /\ late' = {n \in Slipped(r) : n \in late \/ n \notin Listed(row)}

UserRequest ==
    /\ requests + faults < MaxRequests
    /\ requests' = requests + 1

Fault ==
    /\ faults < MaxFaults /\ requests + faults < MaxRequests
    /\ faults' = faults + 1

(* The job a request has yet to publish.                                   *)
Owed(c) ==
    {j \in Job : \/ call[c] = [step |-> "trashDeleted", node |-> j.folder] /\ j.kind = "trash"
                 \/ call[c] = [step |-> "restoreCommitted", node |-> j.folder]
                    /\ j.kind = "restore"}

(* The jobs for the child folders a worker has yet to publish.             *)
ChildJobs(w) ==
    {j \in Job : /\ task[w].step = "committed"
                 /\ j.kind = task[w].job.kind
                 /\ j.folder \in task[w].batch}
InHand(w) == {j \in Job : task[w].job = j} \cup ChildJobs(w)

Pending ==
    {j \in Job : \/ j \in jobs
                 \/ \E c \in Client : j \in Owed(c)
                 \/ \E w \in Worker : j \in InHand(w)}

-----------------------------------------------------------------------------
(* CreateFolder and UploadFile look up the parent and the name, then       *)
(* insert: only the foreign key and the unique index hold by then.         *)

BeginCreate(c, n) ==
    /\ call[c] = NoCall
    /\ row[n].status = "none"
    /\ \A d \in Client : call[d].node # n
    /\ Up[n] \in Listed(row) \cup {Root}
    /\ ~NameTaken(row, n)
    /\ call' = [call EXCEPT ![c] = [step |-> "create", node |-> n]]
    /\ UNCHANGED <<row, jobs, task, requests, faults, late, dropped>>

FinishCreate(c) ==
    /\ call[c].step = "create"
    /\ call[c].node \notin Exists(row)
    /\ Up[call[c].node] \in Exists(row) \cup {Root}
    /\ Write(Create(row, call[c].node))
    /\ call' = [call EXCEPT ![c] = NoCall]
    /\ UNCHANGED <<jobs, task, requests, faults, dropped>>

(* The notification of an upload finds live rows only.                     *)
UploadEvent(f) ==
    /\ f \in Listed(row)
    /\ row[f].status = "uploading"
    /\ Write(SetStatus(row, {f}, "uploaded"))
    /\ UNCHANGED <<jobs, call, task, requests, faults, dropped>>

-----------------------------------------------------------------------------
(* Requests on a file: one transaction each.                               *)

TrashFile(f) ==
    /\ UserRequest
    /\ f \in Listed(row)
    /\ row[f].status = "uploaded"
    /\ Write(ToTrash(row, {f}))
    /\ UNCHANGED <<jobs, call, task, faults, dropped>>

RestoreFile(f) ==
    /\ UserRequest
    /\ f \in Trashed(row)
    /\ Write(Relist(row, {f} \cup ParentsToRestore(row, f)))
    /\ UNCHANGED <<jobs, call, task, faults, dropped>>

PurgeFile(f) ==
    /\ UserRequest
    /\ f \in Trashed(row)
    /\ Write(Erase(row, {f}))
    /\ UNCHANGED <<jobs, call, task, faults, dropped>>

(* TrashExpiration; the expiry of a folder's marker finds no file row.     *)
FileExpires(f) ==
    /\ f \in Trashed(row)
    /\ Write(Erase(row, {f}))
    /\ UNCHANGED <<jobs, call, task, requests, faults, dropped>>

-----------------------------------------------------------------------------
(* Requests on a folder.                                                   *)

(* TrashFolder checks the row PatchFolder read, then updates and deletes   *)
(* without a transaction, and publishes whatever these statements matched. *)
BeginTrash(c, f) ==
    /\ UserRequest
    /\ call[c] = NoCall
    /\ f \in Listed(row) \ Restoring(row)
    /\ call' = [call EXCEPT ![c] = [step |-> "trashRead", node |-> f]]
    /\ UNCHANGED <<row, jobs, task, faults, late, dropped>>

TrashUpdate(c) ==
    /\ call[c].step = "trashRead"
    /\ Write(SetStatus(row, {call[c].node} \cap Listed(row), "deleted"))
    /\ call' = [call EXCEPT ![c].step = "trashUpdated"]
    /\ UNCHANGED <<jobs, task, requests, faults, dropped>>

TrashDelete(c) ==
    /\ call[c].step = "trashUpdated"
    /\ Write(SoftDelete(row, call[c].node))
    /\ call' = [call EXCEPT ![c].step = "trashDeleted"]
    /\ UNCHANGED <<jobs, task, requests, faults, dropped>>

RestoreFolder(c, f) ==
    LET r == Relist(row, ParentsToRestore(row, f)) IN
    /\ UserRequest
    /\ call[c] = NoCall
    /\ f \in Trashed(row) \ Restoring(row)
    /\ ~NameTaken(r, f)
    /\ Write(SetStatus(r, {f}, "restoring"))
    /\ call' = [call EXCEPT ![c] = [step |-> "restoreCommitted", node |-> f]]
    /\ UNCHANGED <<jobs, task, faults, dropped>>

Publish(c) ==
    /\ Owed(c) # {}
    /\ jobs' = jobs \cup Owed(c)
    /\ call' = [call EXCEPT ![c] = NoCall]
    /\ UNCHANGED <<row, task, requests, faults, late, dropped>>

PurgeFolder(f) ==
    /\ UserRequest
    /\ f \in Trashed(row)
    /\ jobs' = jobs \cup {PurgeJob(f)}
    /\ UNCHANGED <<row, call, task, faults, late, dropped>>

(* A failed call, a refused insert or a crash ends a request where it is;  *)
(* a failure to publish is only logged.                                    *)
RequestFails(c) ==
    /\ call[c] # NoCall
    /\ Fault
    /\ dropped' = dropped \cup Owed(c)
    /\ call' = [call EXCEPT ![c] = NoCall]
    /\ UNCHANGED <<row, jobs, task, requests, late>>

CreateRefused(c) ==
    /\ call[c].step = "create"
    /\ \/ Up[call[c].node] \notin Exists(row) \cup {Root}
       \/ ~NamesDistinct(Create(row, call[c].node))
    /\ call' = [call EXCEPT ![c] = NoCall]
    /\ UNCHANGED <<row, jobs, task, requests, faults, late, dropped>>

-----------------------------------------------------------------------------
(* The jobs.  Each reads a batch of the folder's children, writes it,      *)
(* publishes a job for each child folder in it, and counts the folders and *)
(* the files that remain, one count after the other.                       *)

At(w, kind, step) == task[w].step = step /\ task[w].job.kind = kind

Start(w, j, step, b) ==
    /\ task[w] = NoTask
    /\ j \in jobs
    /\ jobs' = jobs \ {j}
    /\ task' = [task EXCEPT ![w] = [step |-> step, job |-> j, batch |-> b]]
    /\ UNCHANGED <<row, call, requests, faults, late, dropped>>

Commit(w, r, step) ==
    /\ Write(r)
    /\ task' = [task EXCEPT ![w].step = step]
    /\ UNCHANGED <<jobs, call, requests, faults, dropped>>

Proceed(w, step) ==
    /\ task' = [task EXCEPT ![w].step = step]
    /\ UNCHANGED <<row, jobs, call, requests, faults, late, dropped>>

Ack(w) == task' = [task EXCEPT ![w] = NoTask]

(* A folder that is not in the trash is an error.                          *)
TrashRead(w, f) ==
    /\ f \in Trashed(row)
    /\ \E b \in Batches(Children(row, f) \cap Listed(row)) : Start(w, TrashJob(f), "read", b)

TrashCommit(w) ==
    /\ At(w, "trash", "read")
    /\ Commit(w, ToTrash(row, task[w].batch), "committed")

(* Mutants: files get a job too; the jobs are forgotten.                   *)
PublishAll(w) ==
    /\ task[w].step = "committed"
    /\ jobs' = jobs \cup {[kind |-> task[w].job.kind, folder |-> n] : n \in task[w].batch}
    /\ task' = [task EXCEPT ![w].step = "published"]
    /\ UNCHANGED <<row, call, requests, faults, late, dropped>>

PublishNothing(w) ==
    /\ task[w].step = "committed"
    /\ Proceed(w, "published")

PublishChildren(w) ==
    /\ task[w].step = "committed"
    /\ jobs' = jobs \cup ChildJobs(w)
    /\ task' = [task EXCEPT ![w].step = "published"]
    /\ UNCHANGED <<row, call, requests, faults, late, dropped>>

(* What a restore takes along: what is in the trash and not on its way out *)
ToRestore(f) ==
    {n \in Children(row, f) \cap Trashed(row) : row[n].status \in {"null", "deleted"}}

(* A folder that is not being restored is skipped, a taken name is an      *)
(* error: the transaction is rolled back, the revert of the status with it *)
RestoreRead(w, f) ==
    /\ f \in Exists(row)
    /\ IF f \notin Restoring(row)
       THEN Start(w, RestoreJob(f), "published", {})
       ELSE /\ ~NameTaken(row, f)
            /\ \E b \in Batches(ToRestore(f)) : Start(w, RestoreJob(f), "read", b)

RestoreCommit(w) ==
    LET b == task[w].batch IN
    /\ At(w, "restore", "read")
    /\ Commit(w, Relist(SetStatus(row, b \cap Folder, "restoring"), b \cap File), "committed")

RestoreChildless(w) ==
    /\ At(w, "restore", "childless")
    /\ Children(row, task[w].job.folder) \cap Restoring(row) = {}
    /\ Proceed(w, "checked")

(* The folder is read once more, and updated by its key.                   *)
RestoreChecked(w) ==
    LET f == task[w].job.folder IN
    /\ At(w, "restore", "checked")
    /\ f \in Exists(row)
    /\ IF f \in Restoring(row)
       THEN Proceed(w, "final")
       ELSE Ack(w) /\ UNCHANGED <<row, jobs, call, requests, faults, late, dropped>>

RestoreFinalize(w) ==
    /\ At(w, "restore", "final")
    /\ Write(Relist(row, {task[w].job.folder}))
    /\ Ack(w)
    /\ UNCHANGED <<jobs, call, requests, faults, dropped>>

PurgeRead(w, f) ==
    /\ f \in Trashed(row)
    /\ \E b \in Batches(Children(row, f) \cap Trashed(row)) : Start(w, PurgeJob(f), "read", b)

PurgeCommit(w) ==
    /\ At(w, "purge", "read")
    /\ Commit(w, Erase(row, task[w].batch), "published")

(* The folder was read by the first step and is deleted by its key.        *)
PurgeLast(w) ==
    /\ At(w, "purge", "checked")
    /\ Write(Erase(row, {task[w].job.folder}))
    /\ Ack(w)
    /\ UNCHANGED <<jobs, call, requests, faults, dropped>>

(* Mutant: what is not in the trash is counted too.                        *)
PurgeAnyRemains(f) == Children(row, f)

TrashRemains(f) == Children(row, f) \cap Listed(row)
PurgeRemains(f) == Children(row, f) \cap Trashed(row)

(* What the two counts of a job are about.                                 *)
Remains(j) ==
    CASE j.kind = "trash"   -> TrashRemains(j.folder)
      [] j.kind = "restore" -> ToRestore(j.folder)
      [] j.kind = "purge"   -> PurgeRemains(j.folder)

CountFolders(w) ==
    /\ task[w].step = "published"
    /\ Remains(task[w].job) \cap Folder = {}
    /\ Proceed(w, "counted")

CountFiles(w) ==
    /\ task[w].step = "counted"
    /\ Remains(task[w].job) \cap File = {}
    /\ \/ task[w].job.kind = "restore" /\ Proceed(w, "childless")
       \/ task[w].job.kind = "purge" /\ Proceed(w, "checked")
       \/ /\ task[w].job.kind = "trash"
          /\ Ack(w)
          /\ UNCHANGED <<row, jobs, call, requests, faults, late, dropped>>

SomeRemain(w) ==
    \/ task[w].step = "published" /\ Remains(task[w].job) \cap Folder # {}
    \/ task[w].step = "counted" /\ Remains(task[w].job) \cap File # {}
    \/ At(w, "restore", "childless") /\ Children(row, task[w].job.folder) \cap Restoring(row) # {}

(* Mutant: the handler returns no error, the job is acknowledged.          *)
RequeueAcked(w) ==
    /\ SomeRemain(w)
    /\ Ack(w)
    /\ UNCHANGED <<row, jobs, call, requests, faults, late, dropped>>

(* Items remain, or the unique index refuses the write: nack.              *)
Requeue(w) ==
    LET f == task[w].job.folder
        b == task[w].batch
    IN
    /\ \/ SomeRemain(w)
       \/ At(w, "restore", "read")
          /\ ~NamesDistinct(Relist(SetStatus(row, b \cap Folder, "restoring"), b \cap File))
       \/ At(w, "restore", "checked") /\ f \notin Exists(row)
       \/ At(w, "restore", "final") /\ ~NamesDistinct(Relist(row, {f}))
       \/ At(w, "purge", "read") /\ ~NamesDistinct(Erase(row, b))
       \/ At(w, "purge", "checked") /\ ~NamesDistinct(Erase(row, {f}))
    /\ jobs' = jobs \cup {task[w].job}
    /\ Ack(w)
    /\ UNCHANGED <<row, call, requests, faults, late, dropped>>

(* A failed call or a crash: the job is delivered again, the jobs for the  *)
(* child folders of a committed batch are not published.                   *)
WorkerFails(w) ==
    /\ task[w] # NoTask
    /\ Fault
    /\ jobs' = jobs \cup {task[w].job}
    /\ dropped' = dropped \cup ChildJobs(w)
    /\ Ack(w)
    /\ UNCHANGED <<row, call, requests, late>>

(* Unacknowledged after AckWaitTimeout, the job is delivered once more.    *)
Redeliver(w) ==
    /\ task[w] # NoTask
    /\ Fault
    /\ jobs' = jobs \cup {task[w].job}
    /\ UNCHANGED <<row, call, task, requests, late, dropped>>

-----------------------------------------------------------------------------
FileStep(f) ==
    UploadEvent(f) \/ TrashFile(f) \/ RestoreFile(f) \/ PurgeFile(f) \/ FileExpires(f)

BeginCall(c) ==
    \/ \E n \in Node : BeginCreate(c, n)
    \/ \E f \in Folder : BeginTrash(c, f) \/ RestoreFolder(c, f)

FinishCall(c) ==
    FinishCreate(c) \/ CreateRefused(c) \/ TrashUpdate(c) \/ TrashDelete(c) \/ Publish(c)

BeginTask(w, f) == TrashRead(w, f) \/ RestoreRead(w, f) \/ PurgeRead(w, f)

FinishTask(w) ==
    \/ TrashCommit(w) \/ PublishChildren(w) \/ CountFolders(w) \/ CountFiles(w)
    \/ RestoreCommit(w) \/ RestoreChildless(w) \/ RestoreChecked(w) \/ RestoreFinalize(w)
    \/ PurgeCommit(w) \/ PurgeLast(w)
    \/ Requeue(w)

Next ==
    \/ \E f \in File : FileStep(f)
    \/ \E c \in Client : BeginCall(c) \/ FinishCall(c) \/ RequestFails(c)
    \/ \E f \in Folder : PurgeFolder(f)
    \/ \E w \in Worker : \/ \E f \in Folder : BeginTask(w, f)
                         \/ FinishTask(w) \/ WorkerFails(w) \/ Redeliver(w)

Spec == Init /\ [][Next]_vars

(* A server finishes what it runs, and no job of the queue is passed over  *)
(* for ever: a nacked job is delivered again.  Users owe nothing.          *)
Fairness ==
    /\ \A c \in Client : WF_vars(FinishCall(c))
    /\ \A w \in Worker : WF_vars(FinishTask(w))
    /\ \A f \in Folder :
         /\ SF_vars(\E w \in Worker : TrashRead(w, f))
         /\ SF_vars(\E w \in Worker : RestoreRead(w, f))
         /\ SF_vars(\E w \in Worker : PurgeRead(w, f))

FairSpec == Spec /\ Fairness

-----------------------------------------------------------------------------
(* A folder stays "restoring", hidden from the listings of the bucket and  *)
(* of the trash alike, only as long as there is a FolderRestore job that   *)
(* can end it, unless that job was never published (RestoreFolder,         *)
(* processChildFolders, finalizeFolderRestore).                            *)
RestoringHasJob ==
    \A f \in Restoring(row) : RestoreJob(f) \in Pending \cup dropped

(* An item still listed in a trashed folder will be trashed by a job that  *)
(* is on its way, unless the item was listed after the folder came into    *)
(* the trash, or that job was never published (FolderTrash.callback).      *)
TrashReaches ==
    \A n \in Slipped(row) : n \in late \/ TrashJob(row[n].parent) \in Pending \cup dropped

(* A trash job gets its folder emptied of listed items, or the folder is   *)
(* taken out of the trash; a restore job gets its folder out of the        *)
(* restoring state unless a name is taken; a purge job gets its folder     *)
(* deleted or finds it restored.  All provided no job was lost.            *)
TrashEnds ==
    \A f \in Folder : TrashJob(f) \in jobs ~>
        \/ dropped # {} \/ f \notin Trashed(row)
        \/ Children(row, f) \cap Listed(row) = {}

NameClash == ~NamesDistinct(Relist(row, Restoring(row)))

RestoreEnds ==
    \A f \in Folder : f \in Restoring(row) ~>
        f \notin Restoring(row) \/ dropped # {} \/ NameClash

PurgeEnds ==
    \A f \in Folder : PurgeJob(f) \in jobs ~> f \notin Trashed(row)

=============================================================================
