-------------------------- MODULE FolderTreeProofs --------------------------
(***************************************************************************)
(* Proofs about FolderTree, for every tree of folders and files, every     *)
(* number of clients, workers, requests and faults, and every batch limit: *)
(* the type invariant, RestoringHasJob and TrashReaches.                   *)
(***************************************************************************)
EXTENDS FolderTree, TLAPS

Table == [Node -> Row]

(* Every update of the tables keeps their type.                            *)
LEMMA UpdateTypes ==
    ASSUME NEW r \in Table, NEW S
    PROVE  /\ \A s \in Status : SetStatus(r, S, s) \in Table
           /\ ToTrash(r, S) \in Table
           /\ Relist(r, S) \in Table
           /\ Erase(r, S) \in Table
           /\ \A n \in Node : SoftDelete(r, n) \in Table /\ Create(r, n) \in Table
<1>1. \A n \in Node : r[n] \in Row
    BY DEF Table
<1>2. \A s \in Status : SetStatus(r, S, s) \in Table
    BY <1>1 DEF Table, SetStatus, Row
<1>3. ToTrash(r, S) \in Table
    BY <1>1 DEF Table, ToTrash, Row, Status
<1>4. Relist(r, S) \in Table
    BY <1>1 DEF Table, Relist, Row, Status
<1>5. Erase(r, S) \in Table
  <2>1. ASSUME NEW n \in Node
        PROVE  /\ [r[n] EXCEPT !.status = "purged", !.trashed = FALSE] \in Row
               /\ [r[n] EXCEPT !.parent = Root] \in Row
      BY <1>1 DEF Row, Status
  <2> QED
      BY <1>1, <2>1 DEF Table, Erase
<1>6. ASSUME NEW n \in Node
      PROVE  SoftDelete(r, n) \in Table /\ Create(r, n) \in Table
  <2>1. SoftDelete(r, n) \in Table
      BY <1>1 DEF Table, SoftDelete, Row
  <2>2. [status |-> IF n \in Folder THEN "null" ELSE "uploading",
         trashed |-> FALSE, parent |-> Up[n]] \in Row
      BY FolderRowsAssumption DEF Row, Status
  <2> QED
      BY <2>1, <2>2 DEF Table, Create
<1> QED
    BY <1>2, <1>3, <1>4, <1>5, <1>6

-----------------------------------------------------------------------------
(* Type correctness.                                                       *)

(* Whatever is written is of the table's type, and late a set of items.    *)
LEMMA WriteTypes ==
    ASSUME NEW r \in Table, Write(r)
    PROVE  row' \in Table /\ late' \subseteq Node
BY DEF Write, Slipped, Listed, Exists

LEMMA TypeInit == Init => TypeOK
<1> SUFFICES ASSUME Init PROVE TypeOK
    OBVIOUS
<1>1. row \in [Node -> Row]
    BY FolderRowsAssumption DEF Init, NoRows, Row, Status
<1> QED
    BY <1>1, FolderTreeAssumption DEF Init, TypeOK

(* The sets of jobs a client owes or a worker holds are sets of jobs.      *)
LEMMA JobTypes ==
    /\ \A c \in Client : Owed(c) \subseteq Job
    /\ \A w \in Worker : ChildJobs(w) \subseteq Job
    /\ \A f \in Folder : /\ TrashJob(f) \in Job
                         /\ RestoreJob(f) \in Job
                         /\ PurgeJob(f) \in Job
BY DEF Owed, ChildJobs, Job, TrashJob, RestoreJob, PurgeJob

(* Every step keeps the types.                                             *)
LEMMA TypeStep == TypeOK /\ [Next]_vars => TypeOK'
<1> SUFFICES ASSUME TypeOK, [Next]_vars PROVE TypeOK'
    OBVIOUS
<1> USE DEF TypeOK
<1>t. row \in Table /\ TRUE \in BOOLEAN
    BY DEF Table
<1>b. ASSUME NEW w \in Worker, task[w] # NoTask
      PROVE  task[w] \in Task /\ task[w].job \in Job /\ task[w].batch \subseteq Node
    BY <1>b DEF Task
<1>s. ASSUME NEW w \in Worker, task[w].step # "idle"
      PROVE  task[w] \in Task /\ task[w].job \in Job /\ task[w].batch \subseteq Node
    BY <1>s DEF Task, NoTask
<1>c. ASSUME NEW c \in Client, call[c].step # "idle"
      PROVE  call[c] \in Call /\ call[c].node \in Node
    BY <1>c DEF Call, NoCall
<1>i. NoCall \in Call \cup {NoCall} /\ NoTask \in Task \cup {NoTask}
    OBVIOUS
<1>1. ASSUME NEW f \in File, FileStep(f) PROVE TypeOK'
  <2>1. CASE UploadEvent(f)
      BY <2>1, <1>t, UpdateTypes, WriteTypes DEF UploadEvent, Table, Status
  <2>2. CASE TrashFile(f)
      BY <2>2, <1>t, UpdateTypes, WriteTypes, FolderTreeAssumption DEF TrashFile, UserRequest, Table
  <2>3. CASE RestoreFile(f)
      BY <2>3, <1>t, UpdateTypes, WriteTypes, FolderTreeAssumption
      DEF RestoreFile, UserRequest, Table
  <2>4. CASE PurgeFile(f)
      BY <2>4, <1>t, UpdateTypes, WriteTypes, FolderTreeAssumption DEF PurgeFile, UserRequest, Table
  <2>5. CASE FileExpires(f)
      BY <2>5, <1>t, UpdateTypes, WriteTypes DEF FileExpires, Table
  <2> QED
      BY <1>1, <2>1, <2>2, <2>3, <2>4, <2>5 DEF FileStep
<1>2. ASSUME NEW c \in Client, BeginCall(c) PROVE TypeOK'
  <2>1. ASSUME NEW n \in Node, BeginCreate(c, n) PROVE TypeOK'
      BY <2>1 DEF BeginCreate, Call
  <2>2. ASSUME NEW f \in Folder, BeginTrash(c, f) PROVE TypeOK'
      BY <2>2, FolderTreeAssumption DEF BeginTrash, UserRequest, Call, Node
  <2>3. ASSUME NEW f \in Folder, RestoreFolder(c, f) PROVE TypeOK'
    <3>1. SetStatus(Relist(row, ParentsToRestore(row, f)), {f}, "restoring") \in Table
        BY <1>t, UpdateTypes DEF Status
    <3>2. call' \in [Client -> Call \cup {NoCall}]
        BY <2>3 DEF RestoreFolder, Call, Node
    <3>3. row' \in [Node -> Row] /\ late' \subseteq Node
        BY <2>3, <3>1, WriteTypes DEF RestoreFolder, Table
    <3>4. requests' \in 0 .. MaxRequests
        BY <2>3, FolderTreeAssumption DEF RestoreFolder, UserRequest
    <3> QED
        BY <2>3, <3>2, <3>3, <3>4 DEF RestoreFolder
  <2> QED
      BY <1>2, <2>1, <2>2, <2>3 DEF BeginCall
<1>3. ASSUME NEW c \in Client, FinishCall(c) PROVE TypeOK'
  <2>1. CASE FinishCreate(c)
      BY <2>1, <1>t, <1>c, UpdateTypes, WriteTypes DEF FinishCreate, Table
  <2>2. CASE CreateRefused(c)
      BY <2>2 DEF CreateRefused
  <2>3. CASE TrashUpdate(c)
    <3>1. call[c] \in Call
        BY <2>3, <1>c DEF TrashUpdate
    <3>2. [call[c] EXCEPT !.step = "trashUpdated"] \in Call
        BY <3>1 DEF Call
    <3> QED
        BY <2>3, <3>2, <1>t, UpdateTypes, WriteTypes DEF TrashUpdate, Table, Status
  <2>4. CASE TrashDelete(c)
    <3>1. call[c] \in Call
        BY <2>4, <1>c DEF TrashDelete
    <3>2. [call[c] EXCEPT !.step = "trashDeleted"] \in Call /\ call[c].node \in Node
        BY <3>1 DEF Call
    <3> QED
        BY <2>4, <3>2, <1>t, UpdateTypes, WriteTypes DEF TrashDelete, Table
  <2>5. CASE Publish(c)
      BY <2>5, JobTypes DEF Publish
  <2> QED
      BY <1>3, <2>1, <2>2, <2>3, <2>4, <2>5 DEF FinishCall
<1>4. ASSUME NEW c \in Client, RequestFails(c) PROVE TypeOK'
    BY <1>4, JobTypes, FolderTreeAssumption DEF RequestFails, Fault
<1>5. ASSUME NEW f \in Folder, PurgeFolder(f) PROVE TypeOK'
    BY <1>5, JobTypes, FolderTreeAssumption DEF PurgeFolder, UserRequest
<1>6. ASSUME NEW w \in Worker, NEW f \in Folder, BeginTask(w, f) PROVE TypeOK'
  <2>1. ASSUME NEW j \in Job, NEW s \in {"read", "published"}, NEW b \in SUBSET Node,
               Start(w, j, s, b)
        PROVE  TypeOK'
      BY <2>1 DEF Start, Task
  <2>2. \A S \in SUBSET Node : Batches(S) \subseteq SUBSET Node
      BY DEF Batches
  <2>3. /\ Children(row, f) \cap Listed(row) \in SUBSET Node
        /\ Children(row, f) \cap Trashed(row) \in SUBSET Node
        /\ ToRestore(f) \in SUBSET Node
        /\ {} \in SUBSET Node
      BY DEF Children, Exists, ToRestore
  <2>4. CASE TrashRead(w, f)
      BY <2>4, <2>1, <2>2, <2>3, JobTypes DEF TrashRead
  <2>5. CASE RestoreRead(w, f)
      BY <2>5, <2>1, <2>2, <2>3, JobTypes DEF RestoreRead
  <2>6. CASE PurgeRead(w, f)
      BY <2>6, <2>1, <2>2, <2>3, JobTypes DEF PurgeRead
  <2> QED
      BY <1>6, <2>4, <2>5, <2>6 DEF BeginTask
<1>7. ASSUME NEW w \in Worker, FinishTask(w) PROVE TypeOK'
  <2> DEFINE Later == {"committed", "published", "counted", "childless", "checked", "final"}
  <2>1. ASSUME NEW s \in Later, task[w].step # "idle"
        PROVE  [task EXCEPT ![w].step = s] \in [Worker -> Task \cup {NoTask}]
    <3>1. [task[w] EXCEPT !.step = s] \in Task
        BY <2>1, <1>s DEF Task
    <3> QED
        BY <3>1
  <2>2. ASSUME NEW r \in Table, NEW s \in Later,
               task[w].step # "idle", Commit(w, r, s)
        PROVE  TypeOK'
      BY <2>2, <2>1, WriteTypes DEF Commit, Table
  <2>3. ASSUME NEW s \in Later,
               task[w].step # "idle", Proceed(w, s)
        PROVE  TypeOK'
      BY <2>3, <2>1 DEF Proceed
  <2>4. Ack(w) => task' \in [Worker -> Task \cup {NoTask}]
      BY DEF Ack
  <2>5. CASE TrashCommit(w)
      BY <2>5, <2>2, <1>t, UpdateTypes DEF TrashCommit, At
  <2>6. CASE PublishChildren(w)
      BY <2>6, <2>1, JobTypes DEF PublishChildren
  <2>7. CASE CountFolders(w)
      BY <2>7, <2>3 DEF CountFolders
  <2>12. CASE CountFiles(w)
    <3>1. \/ \E s \in {"childless", "checked"} : Proceed(w, s)
          \/ Ack(w) /\ UNCHANGED <<row, jobs, call, requests, faults, late, dropped>>
        BY <2>12 DEF CountFiles
    <3> QED
        BY <2>12, <3>1, <2>3, <2>4 DEF CountFiles
  <2>8. CASE RestoreCommit(w)
    <3>1. Relist(SetStatus(row, task[w].batch \cap Folder, "restoring"), task[w].batch \cap File)
            \in Table
        BY <1>t, UpdateTypes DEF Status
    <3> QED
        BY <2>8, <3>1, <2>2 DEF RestoreCommit, At
  <2>9. CASE RestoreChildless(w)
      BY <2>9, <2>3 DEF RestoreChildless, At
  <2>15. CASE RestoreChecked(w)
      BY <2>15, <2>3, <2>4 DEF RestoreChecked, At
  <2>10. CASE RestoreFinalize(w)
      BY <2>10, <2>4, <1>t, UpdateTypes, WriteTypes DEF RestoreFinalize, Table
  <2>11. CASE PurgeCommit(w)
      BY <2>11, <2>2, <1>t, UpdateTypes DEF PurgeCommit, At
  <2>13. CASE PurgeLast(w)
      BY <2>13, <2>4, <1>t, UpdateTypes, WriteTypes DEF PurgeLast, Table
  <2>14. CASE Requeue(w)
    <3>1. task[w].step # "idle"
        BY <2>14 DEF Requeue, SomeRemain, At
    <3> QED
        BY <2>14, <3>1, <2>4, <1>s DEF Requeue
  <2> QED
      BY <1>7, <2>5, <2>6, <2>7, <2>8, <2>9, <2>10, <2>11, <2>12, <2>13, <2>14, <2>15
         DEF FinishTask
<1>8. ASSUME NEW w \in Worker, WorkerFails(w) PROVE TypeOK'
    BY <1>8, <1>b, JobTypes, FolderTreeAssumption DEF WorkerFails, Fault, Ack
<1>9. ASSUME NEW w \in Worker, Redeliver(w) PROVE TypeOK'
    BY <1>9, <1>b, FolderTreeAssumption DEF Redeliver, Fault
<1>10. CASE UNCHANGED vars
    BY <1>10 DEF vars
<1> QED
    BY <1>1, <1>2, <1>3, <1>4, <1>5, <1>6, <1>7, <1>8, <1>9, <1>10 DEF Next

(* The variables of FolderTree keep their types.                           *)
THEOREM TypeCorrect == Spec => []TypeOK
BY TypeInit, TypeStep, PTL DEF Spec

-----------------------------------------------------------------------------
(* What the updates do to the folders being restored and to the items      *)
(* listed in trashed folders.                                              *)

LEMMA RestoringAfter ==
    ASSUME NEW r \in Table, NEW S
    PROVE  /\ \A s \in Status \ {"restoring"} : Restoring(SetStatus(r, S, s)) \subseteq Restoring(r)
           /\ Restoring(SetStatus(r, S, "restoring")) \subseteq Restoring(r) \cup S
           /\ Restoring(ToTrash(r, S)) \subseteq Restoring(r)
           /\ Restoring(Relist(r, S)) \subseteq Restoring(r) \ S
           /\ Restoring(Erase(r, S)) \subseteq Restoring(r)
           /\ \A n \in Node : /\ Restoring(SoftDelete(r, n)) \subseteq Restoring(r)
                              /\ Restoring(Create(r, n)) \subseteq Restoring(r)
<1>0. \A n \in Node : r[n] \in Row
    BY DEF Table
<1>1. \A s \in Status \ {"restoring"} : Restoring(SetStatus(r, S, s)) \subseteq Restoring(r)
    BY <1>0 DEF Table, SetStatus, Restoring, Row, Node
<1>2. Restoring(SetStatus(r, S, "restoring")) \subseteq Restoring(r) \cup S
    BY <1>0 DEF Table, SetStatus, Restoring, Row, Node
<1>3. Restoring(ToTrash(r, S)) \subseteq Restoring(r)
    BY <1>0 DEF Table, ToTrash, Restoring, Row, Node
<1>4. Restoring(Relist(r, S)) \subseteq Restoring(r) \ S
  <2> SUFFICES ASSUME NEW f \in Folder, Relist(r, S)[f].status = "restoring"
               PROVE  r[f].status = "restoring" /\ f \notin S
      BY DEF Restoring
  <2>1. CASE f \in S \cap Exists(r)
      BY <2>1, <1>0 DEF Relist, Row, Node
  <2>2. CASE f \notin S \cap Exists(r)
      BY <2>2, <1>0 DEF Relist, Node, Exists
  <2> QED
      BY <2>1, <2>2
<1>5. Restoring(Erase(r, S)) \subseteq Restoring(r)
  <2> SUFFICES ASSUME NEW f \in Folder, Erase(r, S)[f].status = "restoring"
               PROVE  r[f].status = "restoring"
      BY DEF Restoring
  <2>1. CASE f \in S \cap Exists(r)
      BY <2>1, <1>0 DEF Erase, Row, Node
  <2>2. CASE f \in Exists(r) \ S /\ r[f].parent \in S
      BY <2>2, <1>0 DEF Erase, Row, Node
  <2>3. CASE ~(f \in S \cap Exists(r)) /\ ~(f \in Exists(r) \ S /\ r[f].parent \in S)
      BY <2>3, <1>0 DEF Erase, Node
  <2> QED
      BY <2>1, <2>2, <2>3
<1>6. ASSUME NEW n \in Node
      PROVE  /\ Restoring(SoftDelete(r, n)) \subseteq Restoring(r)
             /\ Restoring(Create(r, n)) \subseteq Restoring(r)
    BY <1>0 DEF Table, SoftDelete, Create, Restoring, Row, Node
<1> QED
    BY <1>1, <1>2, <1>3, <1>4, <1>5, <1>6

(* What is listed stays listed when something is listed again.             *)
LEMMA RelistKeeps ==
    ASSUME NEW r \in Table, NEW S
    PROVE  Listed(r) \subseteq Listed(Relist(r, S))
<1> SUFFICES ASSUME NEW n \in Listed(r)
             PROVE  n \in Listed(Relist(r, S))
    OBVIOUS
<1>1. n \in Node /\ r[n] \in Row /\ n \in Exists(r)
    BY DEF Listed, Exists, Table
<1>2. CASE n \in S
  <2>1. Relist(r, S)[n] = [r[n] EXCEPT !.status = IF n \in Folder THEN "null" ELSE "uploaded",
                                       !.trashed = FALSE]
      BY <1>1, <1>2 DEF Relist
  <2>2. Relist(r, S)[n].status \in {"null", "uploaded"} /\ ~Relist(r, S)[n].trashed
      BY <2>1, <1>1 DEF Row
  <2> QED
      BY <2>2, <1>1 DEF Listed, Exists
<1>3. CASE n \notin S
    BY <1>1, <1>3 DEF Relist, Listed, Exists
<1> QED
    BY <1>2, <1>3

(* From r to r2, an item that was listed slips only into the folders of X. *)
SlipsInto(r, r2, X) ==
    \A n \in Slipped(r2) \cap Listed(r) :
        (n \in Slipped(r) /\ r2[n].parent = r[n].parent) \/ r2[n].parent \in X

(* An item slips when its folder comes into the trash.                     *)
LEMMA SlipsBy ==
    ASSUME NEW r \in Table, NEW r2 \in Table, NEW X,
           \A n \in Listed(r2) \cap Listed(r) : r2[n].parent \in {r[n].parent, Root},
           \A f \in Folder : InTrash(r2, f) => InTrash(r, f) \/ f \in X
    PROVE  SlipsInto(r, r2, X)
BY FolderRowsAssumption DEF SlipsInto, Slipped, Node

LEMMA SlipsAfter ==
    ASSUME NEW r \in Table, NEW S
    PROVE  /\ \A s \in Status \ {"none", "purged"} :
                 S \cap Restoring(r) \cap Trashed(r) = {} => SlipsInto(r, SetStatus(r, S, s), {})
           /\ SlipsInto(r, SetStatus(r, S, "restoring"), {})
           /\ SlipsInto(r, ToTrash(r, S), S \cap Listed(r))
           /\ SlipsInto(r, Relist(r, S), {})
           /\ SlipsInto(r, Erase(r, S), {})
           /\ \A n \in Node : /\ SlipsInto(r, SoftDelete(r, n), {n})
                              /\ n \notin Exists(r) => SlipsInto(r, Create(r, n), {})
<1>0. \A n \in Node : r[n] \in Row
    BY DEF Table
<1> USE DEF InTrash, Trashed, Listed, Exists, Restoring
<1>1. ASSUME NEW s \in Status \ {"none", "purged"},
             s = "restoring" \/ S \cap Restoring(r) \cap Trashed(r) = {}
      PROVE  SlipsInto(r, SetStatus(r, S, s), {})
  <2>1. \A n \in Node : /\ SetStatus(r, S, s)[n].parent = r[n].parent
                        /\ SetStatus(r, S, s)[n].trashed = r[n].trashed
                        /\ SetStatus(r, S, s)[n].status \in {r[n].status, s}
                        /\ n \notin S => SetStatus(r, S, s)[n] = r[n]
                        /\ n \notin Exists(r) => SetStatus(r, S, s)[n] = r[n]
      BY <1>0 DEF SetStatus, Row
  <2>2. \A f \in Folder : InTrash(SetStatus(r, S, s), f) => InTrash(r, f)
      BY <2>1, <1>1 DEF Node, Row
  <2> QED
      BY <2>1, <2>2, SlipsBy, UpdateTypes
<1>2. SlipsInto(r, ToTrash(r, S), S \cap Listed(r))
  <2>1. \A n \in Node : /\ ToTrash(r, S)[n].parent = r[n].parent
                        /\ n \notin S \cap Listed(r) => ToTrash(r, S)[n] = r[n]
      BY <1>0 DEF ToTrash, Row
  <2> QED
      BY <2>1, SlipsBy, UpdateTypes DEF Node
<1>3. SlipsInto(r, Relist(r, S), {})
  <2>1. \A n \in Node : /\ Relist(r, S)[n].parent = r[n].parent
                        /\ n \notin S \cap Exists(r) => Relist(r, S)[n] = r[n]
                        /\ n \in S \cap Exists(r) => ~Relist(r, S)[n].trashed
      BY <1>0 DEF Relist, Row
  <2> QED
      BY <2>1, SlipsBy, UpdateTypes DEF Node
<1>4. SlipsInto(r, Erase(r, S), {})
  <2>1. \A n \in Node : /\ Erase(r, S)[n].parent \in {r[n].parent, Root}
                        /\ n \in S \cap Exists(r) => Erase(r, S)[n].status = "purged"
                        /\ n \notin S \cap Exists(r) =>
                              /\ Erase(r, S)[n].status = r[n].status
                              /\ Erase(r, S)[n].trashed = r[n].trashed
    <3> SUFFICES ASSUME NEW n \in Node
                 PROVE  /\ Erase(r, S)[n].parent \in {r[n].parent, Root}
                        /\ n \in S \cap Exists(r) => Erase(r, S)[n].status = "purged"
                        /\ n \notin S \cap Exists(r) =>
                              /\ Erase(r, S)[n].status = r[n].status
                              /\ Erase(r, S)[n].trashed = r[n].trashed
        OBVIOUS
    <3>1. CASE n \in S \cap Exists(r)
      <4>1. Erase(r, S)[n] = [r[n] EXCEPT !.status = "purged", !.trashed = FALSE]
          BY <3>1 DEF Erase
      <4> QED
          BY <4>1, <3>1, <1>0 DEF Row
    <3>2. CASE n \in Exists(r) \ S /\ r[n].parent \in S
      <4>1. Erase(r, S)[n] = [r[n] EXCEPT !.parent = Root]
          BY <3>2 DEF Erase
      <4> QED
          BY <4>1, <3>2, <1>0 DEF Row
    <3>3. CASE ~(n \in S \cap Exists(r)) /\ ~(n \in Exists(r) \ S /\ r[n].parent \in S)
        BY <3>3, <1>0 DEF Erase
    <3> QED
        BY <3>1, <3>2, <3>3
  <2> QED
      BY <2>1, SlipsBy, UpdateTypes DEF Node
<1>5. ASSUME NEW n \in Node PROVE SlipsInto(r, SoftDelete(r, n), {n})
  <2>1. \A m \in Node : /\ SoftDelete(r, n)[m].parent = r[m].parent
                        /\ SoftDelete(r, n)[m].status = r[m].status
                        /\ m # n => SoftDelete(r, n)[m] = r[m]
      BY <1>0 DEF SoftDelete, Row
  <2> QED
      BY <2>1, SlipsBy, UpdateTypes DEF Node
<1>6. ASSUME NEW n \in Node, n \notin Exists(r) PROVE SlipsInto(r, Create(r, n), {})
  <2>1. \A m \in Node : /\ m # n => Create(r, n)[m] = r[m]
                        /\ ~Create(r, n)[n].trashed
      BY <1>0 DEF Create, Row, Table
  <2> QED
      BY <2>1, <1>6, SlipsBy, UpdateTypes DEF Node
<1> QED
    BY <1>1, <1>2, <1>3, <1>4, <1>5, <1>6 DEF Status

-----------------------------------------------------------------------------
(* The jobs due: pending, or lost before they were published.  A job that  *)
(* a worker runs counts unless it has come to a step of X: what the worker *)
(* has counted already it will not see any more.                           *)
Holds(w, X) == {j \in Job : task[w].job = j /\ task[w].step \notin X} \cup ChildJobs(w)

Due(X) ==
    {j \in Job : \/ j \in jobs \cup dropped
                 \/ \E c \in Client : j \in Owed(c)
                 \/ \E w \in Worker : j \in Holds(w, X)}

Past == {"counted"}

LEMMA DueMembers ==
    /\ \A j \in Job : j \in Due({}) <=> j \in Pending \cup dropped
    /\ Due(Past) \subseteq Due({})
BY DEF Due, Pending, Holds, InHand

(* The job of a callback that ends without an error, or comes to X.        *)
Leaves(j, X) ==
    \E w \in Worker :
        /\ task[w].job = j
        /\ task[w].step \notin X
        /\ \/ CountFiles(w) /\ j.kind = "trash"
           \/ RestoreChecked(w) /\ j.folder \notin Restoring(row)
           \/ RestoreFinalize(w)
           \/ PurgeLast(w)
           \/ CountFolders(w) /\ X # {}

(* A step that changes only what this names keeps a job due.               *)
LEMMA StillDue ==
    ASSUME NEW X, NEW j \in Job, j \in Due(X), jobs \subseteq jobs', dropped \subseteq dropped',
           \A c \in Client : j \in Owed(c) => j \in Owed(c)' \/ j \in jobs' \/ j \in dropped',
           \A w \in Worker : j \in Holds(w, X) => \/ j \in Holds(w, X)'
                                                 \/ j \in jobs' \/ j \in dropped'
    PROVE  j \in Due(X)'
BY DEF Due

(* A job stays due until a callback ends without an error.                 *)
LEMMA DueKept ==
    ASSUME TypeOK, [Next]_vars, NEW X \in {{}, Past}, NEW j \in Job, j \in Due(X)
    PROVE  j \in Due(X)' \/ Leaves(j, X)
<1> USE DEF TypeOK
<1>x. X \subseteq Past
    OBVIOUS
<1>q. ASSUME UNCHANGED <<call, task>>, jobs \subseteq jobs', dropped \subseteq dropped'
      PROVE  j \in Due(X)'
    BY <1>q, StillDue DEF Owed, Holds, ChildJobs
<1>t. ASSUME UNCHANGED task, jobs \subseteq jobs', dropped \subseteq dropped',
             NEW c \in Client, \E k : call' = [call EXCEPT ![c] = k],
             Owed(c) \subseteq Owed(c)' \cup jobs' \cup dropped'
      PROVE  j \in Due(X)'
  <2>1. \A d \in Client \ {c} : Owed(d)' = Owed(d)
      BY <1>t DEF Owed
  <2> QED
      BY <1>t, <2>1, StillDue DEF Holds, ChildJobs
<1>w. ASSUME UNCHANGED call, dropped \subseteq dropped',
             NEW w \in Worker, \E k : task' = [task EXCEPT ![w] = k],
             jobs \subseteq jobs' \cup Holds(w, X)',
             Holds(w, X) \subseteq Holds(w, X)' \cup jobs' \cup dropped'
      PROVE  j \in Due(X)'
  <2>1. \A v \in Worker \ {w} : Holds(v, X)' = Holds(v, X)
      BY <1>w DEF Holds, ChildJobs
  <2> QED
      BY <1>w, <2>1 DEF Due, Owed
<1>1. ASSUME NEW f \in File, FileStep(f) PROVE j \in Due(X)'
    BY <1>1, <1>q DEF FileStep, UploadEvent, TrashFile, RestoreFile, PurgeFile, FileExpires
<1>2. ASSUME NEW c \in Client, BeginCall(c) PROVE j \in Due(X)'
  <2>1. Owed(c) = {}
    <3>1. call[c] = NoCall
        BY <1>2 DEF BeginCall, BeginCreate, BeginTrash, RestoreFolder
    <3> QED
        BY <3>1 DEF Owed, NoCall
  <2>2. \E k : call' = [call EXCEPT ![c] = k]
      BY <1>2 DEF BeginCall, BeginCreate, BeginTrash, RestoreFolder
  <2>3. UNCHANGED <<jobs, task, dropped>>
      BY <1>2 DEF BeginCall, BeginCreate, BeginTrash, RestoreFolder
  <2> QED
      BY <2>1, <2>2, <2>3, <1>t
<1>3. ASSUME NEW c \in Client, FinishCall(c) PROVE j \in Due(X)'
  <2>1. CASE Publish(c)
      BY <2>1, <1>t DEF Publish
  <2>2. CASE FinishCreate(c) \/ CreateRefused(c) \/ TrashUpdate(c) \/ TrashDelete(c)
    <3>1. Owed(c) = {}
        BY <2>2 DEF Owed, FinishCreate, CreateRefused, TrashUpdate, TrashDelete
    <3>2. \E k : call' = [call EXCEPT ![c] = k]
        BY <2>2 DEF FinishCreate, CreateRefused, TrashUpdate, TrashDelete
    <3>3. UNCHANGED <<jobs, task, dropped>>
        BY <2>2 DEF FinishCreate, CreateRefused, TrashUpdate, TrashDelete
    <3> QED
        BY <3>1, <3>2, <3>3, <1>t
  <2> QED
      BY <1>3, <2>1, <2>2 DEF FinishCall
<1>4. ASSUME NEW c \in Client, RequestFails(c) PROVE j \in Due(X)'
    BY <1>4, <1>t DEF RequestFails
<1>5. ASSUME NEW f \in Folder, PurgeFolder(f) PROVE j \in Due(X)'
    BY <1>5, <1>q DEF PurgeFolder
<1>6. ASSUME NEW w \in Worker, NEW f \in Folder, BeginTask(w, f) PROVE j \in Due(X)'
  <2>1. PICK i \in Job, s \in {"read", "published"}, b \in SUBSET Node : Start(w, i, s, b)
    <3>1. CASE TrashRead(w, f)
        BY <3>1, JobTypes DEF TrashRead, Batches, Children, Exists
    <3>2. CASE RestoreRead(w, f)
      <4>1. ToRestore(f) \subseteq Node
          BY DEF ToRestore, Children, Exists
      <4> QED
          BY <3>2, <4>1, JobTypes DEF RestoreRead, Batches
    <3>3. CASE PurgeRead(w, f)
        BY <3>3, JobTypes DEF PurgeRead, Batches, Children, Exists
    <3> QED
        BY <1>6, <3>1, <3>2, <3>3 DEF BeginTask
  <2>2. Holds(w, X) = {}
      BY <2>1, FolderTreeAssumption DEF Start, Holds, ChildJobs, NoTask
  <2>3. i \in Holds(w, X)'
      BY <2>1, <1>x DEF Start, Holds, Past
  <2> QED
      BY <2>1, <2>2, <2>3, <1>w DEF Start
<1>7. ASSUME NEW w \in Worker, FinishTask(w) PROVE j \in Due(X)' \/ Leaves(j, X)
  <2>1. ASSUME NEW s, s \notin X, task' = [task EXCEPT ![w].step = s],
               task[w].step # "committed", UNCHANGED <<jobs, call, dropped>>
        PROVE  j \in Due(X)'
    <3>1. Holds(w, X) \subseteq Holds(w, X)'
      <4>1. task'[w].job = task[w].job /\ (task[w] # NoTask => task'[w].step = s)
          BY <2>1 DEF Task, NoTask
      <4>2. ChildJobs(w) = {} /\ Nothing \notin Job
          BY <2>1, FolderTreeAssumption DEF ChildJobs
      <4> QED
          BY <2>1, <4>1, <4>2 DEF Holds, NoTask
    <3>2. \E k : task' = [task EXCEPT ![w] = k]
        BY <2>1
    <3> QED
        BY <2>1, <3>1, <3>2, <1>w
  <2>2. ASSUME Ack(w), UNCHANGED <<jobs, call, dropped>>, task[w].step # "committed",
               j \notin Holds(w, X)
        PROVE  j \in Due(X)'
    <3>1. task' = [task EXCEPT ![w] = NoTask]
        BY <2>2 DEF Ack
    <3>2. \A v \in Worker \ {w} : Holds(v, X)' = Holds(v, X)
        BY <3>1 DEF Holds, ChildJobs
    <3> QED
        BY <2>2, <3>2 DEF Due, Owed
  <2>3. task[w].step # "committed" => \/ task[w].job = j /\ task[w].step \notin X
                                     \/ j \notin Holds(w, X)
      BY DEF Holds, ChildJobs
  <2>4. CASE TrashCommit(w) \/ RestoreCommit(w) \/ PurgeCommit(w)
      BY <2>4, <2>1, <1>x DEF TrashCommit, RestoreCommit, PurgeCommit, At, Commit, Past
  <2>5. CASE CountFolders(w)
    <3>1. task[w].step # "committed" /\ UNCHANGED <<jobs, call, dropped>>
          /\ task' = [task EXCEPT ![w].step = "counted"]
        BY <2>5 DEF CountFolders, Proceed
    <3>2. CASE X = {}
        BY <3>1, <3>2, <2>1
    <3>3. CASE j \notin Holds(w, X)
      <4>1. \A v \in Worker \ {w} : Holds(v, X)' = Holds(v, X)
          BY <3>1 DEF Holds, ChildJobs
      <4> QED
          BY <3>1, <3>3, <4>1 DEF Due, Owed
    <3>4. CASE X # {} /\ task[w].job = j /\ task[w].step \notin X
        BY <2>5, <3>4 DEF Leaves
    <3> QED
        BY <2>3, <3>1, <3>2, <3>3, <3>4
  <2>6. CASE CountFiles(w)
    <3>1. \/ \E s \in {"childless", "checked"} : Proceed(w, s)
          \/ /\ task[w].job.kind = "trash" /\ Ack(w)
             /\ UNCHANGED <<row, jobs, call, requests, faults, late, dropped>>
        BY <2>6 DEF CountFiles
    <3>2. task[w].step # "committed"
        BY <2>6 DEF CountFiles
    <3>3. ASSUME NEW s \in {"childless", "checked"}, Proceed(w, s) PROVE j \in Due(X)'
        BY <3>2, <3>3, <2>1, <1>x DEF Proceed, Past
    <3>4. CASE /\ task[w].job.kind = "trash" /\ Ack(w)
               /\ UNCHANGED <<row, jobs, call, requests, faults, late, dropped>>
        BY <2>2, <2>3, <2>6, <3>2, <3>4 DEF Leaves
    <3> QED
        BY <3>1, <3>3, <3>4
  <2>7. CASE RestoreChildless(w)
    <3>1. task[w].step # "committed" /\ Proceed(w, "checked")
        BY <2>7 DEF RestoreChildless, At
    <3>2. "checked" \notin X
        BY <1>x DEF Past
    <3>3. task' = [task EXCEPT ![w].step = "checked"] /\ UNCHANGED <<jobs, call, dropped>>
        BY <3>1 DEF Proceed
    <3> QED
        BY <3>1, <3>2, <3>3, <2>1
  <2>8. CASE RestoreChecked(w)
    <3>1. CASE Proceed(w, "final")
      <4>1. task[w].step # "committed"
          BY <2>8 DEF RestoreChecked, At
      <4>2. "final" \notin X
          BY <1>x DEF Past
      <4>3. task' = [task EXCEPT ![w].step = "final"] /\ UNCHANGED <<jobs, call, dropped>>
          BY <3>1 DEF Proceed
      <4> QED
          BY <4>1, <4>2, <4>3, <2>1
    <3>2. CASE /\ task[w].job.folder \notin Restoring(row) /\ Ack(w)
               /\ UNCHANGED <<row, jobs, call, requests, faults, late, dropped>>
        BY <2>2, <2>3, <2>8, <3>2 DEF Leaves, RestoreChecked, At
    <3> QED
        BY <2>8, <3>1, <3>2 DEF RestoreChecked
  <2>9. CASE RestoreFinalize(w) \/ PurgeLast(w)
    <3>1. Ack(w) /\ UNCHANGED <<jobs, call, dropped>> /\ task[w].step # "committed"
        BY <2>9 DEF RestoreFinalize, PurgeLast, At
    <3> QED
        BY <2>2, <2>3, <2>9, <3>1 DEF Leaves
  <2>10. CASE PublishChildren(w)
    <3>1. task'[w].job = task[w].job /\ task'[w].step = "published"
        BY <2>10 DEF PublishChildren, Task, NoTask
    <3>2. Holds(w, X) \subseteq Holds(w, X)' \cup jobs'
        BY <2>10, <3>1, <1>x DEF PublishChildren, Holds, Past
    <3>3. \E k : task' = [task EXCEPT ![w] = k]
        BY <2>10 DEF PublishChildren
    <3> QED
        BY <2>10, <3>2, <3>3, <1>w DEF PublishChildren
  <2>11. CASE Requeue(w)
    <3>1. ChildJobs(w) = {}
        BY <2>11 DEF Requeue, SomeRemain, At, ChildJobs
    <3>2. Holds(w, X) \subseteq jobs'
        BY <2>11, <3>1 DEF Requeue, Holds
    <3> QED
        BY <2>11, <3>2, <1>w DEF Requeue, Ack
  <2> QED
      BY <1>7, <2>4, <2>5, <2>6, <2>7, <2>8, <2>9, <2>10, <2>11 DEF FinishTask
<1>8. ASSUME NEW w \in Worker, WorkerFails(w) PROVE j \in Due(X)'
  <2>1. Holds(w, X) \subseteq jobs' \cup dropped'
      BY <1>8 DEF WorkerFails, Holds
  <2> QED
      BY <1>8, <2>1, <1>w DEF WorkerFails, Ack
<1>9. ASSUME NEW w \in Worker, Redeliver(w) PROVE j \in Due(X)'
    BY <1>9, <1>q DEF Redeliver
<1>10. CASE UNCHANGED vars
    BY <1>10, <1>q DEF vars
<1> QED
    BY <1>1, <1>2, <1>3, <1>4, <1>5, <1>6, <1>7, <1>8, <1>9, <1>10 DEF Next

-----------------------------------------------------------------------------
(* A step that puts a folder in the restoring state leaves its job due.    *)
LEMMA NewRestoring ==
    ASSUME TypeOK, [Next]_vars, NEW f \in Folder, f \in Restoring(row)', f \notin Restoring(row)
    PROVE  RestoreJob(f) \in Due({})'
<1> USE DEF TypeOK
<1>t. row \in Table
    BY DEF Table
<1>r. \A r : Write(r) => f \in Restoring(r)
    BY DEF Write
<1>u. row' # row
    OBVIOUS
<1>n. Folder \subseteq Node /\ File \subseteq Node
    BY DEF Node
<1>1. ASSUME NEW g \in File, FileStep(g) PROVE FALSE
  <2>1. Write(SetStatus(row, {g}, "uploaded")) => FALSE
    <3>1. "uploaded" \in Status \ {"restoring"}
        BY DEF Status
    <3>2. Restoring(SetStatus(row, {g}, "uploaded")) \subseteq Restoring(row)
        BY <3>1, <1>t, RestoringAfter
    <3> QED
        BY <3>2, <1>r
  <2>2. \A S : (Write(ToTrash(row, S)) \/ Write(Relist(row, S)) \/ Write(Erase(row, S))) => FALSE
      BY <1>r, <1>t, RestoringAfter
  <2> QED
      BY <1>1, <2>1, <2>2 DEF FileStep, UploadEvent, TrashFile, RestoreFile, PurgeFile, FileExpires
<1>2. ASSUME NEW c \in Client, BeginCall(c) PROVE RestoreJob(f) \in Due({})'
  <2>1. PICK g \in Folder : RestoreFolder(c, g)
      BY <1>2, <1>u DEF BeginCall, BeginCreate, BeginTrash
  <2>2. f = g
    <3> DEFINE r == Relist(row, ParentsToRestore(row, g))
    <3>1. r \in Table /\ Restoring(r) \subseteq Restoring(row)
        BY <1>t, UpdateTypes, RestoringAfter
    <3>2. Restoring(SetStatus(r, {g}, "restoring")) \subseteq Restoring(r) \cup {g}
        BY <3>1, RestoringAfter
    <3> QED
        BY <2>1, <3>1, <3>2, <1>r DEF RestoreFolder
  <2>3. RestoreJob(f) \in Owed(c)'
      BY <2>1, <2>2 DEF RestoreFolder, Owed, RestoreJob, Job
  <2> QED
      BY <2>3, JobTypes DEF Due
<1>3. ASSUME NEW c \in Client, FinishCall(c) PROVE FALSE
  <2>1. CASE FinishCreate(c)
    <3>1. call[c].node \in Node
        BY <2>1 DEF FinishCreate, Call, NoCall
    <3> QED
        BY <2>1, <3>1, <1>r, <1>t, RestoringAfter DEF FinishCreate
  <2>2. CASE TrashUpdate(c)
    <3>1. "deleted" \in Status \ {"restoring"}
        BY DEF Status
    <3>2. \A S : Restoring(SetStatus(row, S, "deleted")) \subseteq Restoring(row)
        BY <3>1, <1>t, RestoringAfter
    <3> QED
        BY <2>2, <3>2, <1>r DEF TrashUpdate
  <2>3. CASE TrashDelete(c)
    <3>1. call[c].node \in Node
        BY <2>3 DEF TrashDelete, Call, NoCall
    <3> QED
        BY <2>3, <3>1, <1>r, <1>t, RestoringAfter DEF TrashDelete
  <2>4. CASE CreateRefused(c) \/ Publish(c)
      BY <2>4, <1>u DEF CreateRefused, Publish
  <2> QED
      BY <1>3, <2>1, <2>2, <2>3, <2>4 DEF FinishCall
<1>4. ASSUME NEW w \in Worker, FinishTask(w) PROVE RestoreJob(f) \in Due({})'
  <2> DEFINE b == task[w].batch
  <2>1. CASE RestoreCommit(w)
    <3> DEFINE r == SetStatus(row, b \cap Folder, "restoring")
    <3>1. r \in Table /\ Restoring(r) \subseteq Restoring(row) \cup (b \cap Folder)
        BY <1>t, UpdateTypes, RestoringAfter DEF Status
    <3>2. Restoring(Relist(r, b \cap File)) \subseteq Restoring(r)
        BY <3>1, RestoringAfter
    <3>3. f \in b
        BY <2>1, <3>1, <3>2, <1>r DEF RestoreCommit, Commit
    <3>4. /\ task'[w].step = "committed"
          /\ task'[w].job.kind = "restore"
          /\ f \in task'[w].batch
        BY <2>1, <3>3 DEF RestoreCommit, Commit, At, Task, NoTask
    <3>5. RestoreJob(f) \in Holds(w, {})'
        BY <3>4, JobTypes DEF Holds, ChildJobs, RestoreJob
    <3> QED
        BY <3>5, JobTypes DEF Due
  <2>2. CASE RestoreFinalize(w)
      BY <2>2, <1>r, <1>t, RestoringAfter DEF RestoreFinalize
  <2>3. CASE TrashCommit(w)
      BY <2>3, <1>r, <1>t, RestoringAfter DEF TrashCommit, Commit
  <2>4. CASE PurgeCommit(w)
      BY <2>4, <1>r, <1>t, RestoringAfter DEF PurgeCommit, Commit
  <2>5. CASE PurgeLast(w)
      BY <2>5, <1>r, <1>t, RestoringAfter DEF PurgeLast
  <2>6. CASE \/ PublishChildren(w) \/ CountFolders(w) \/ CountFiles(w)
             \/ RestoreChildless(w) \/ RestoreChecked(w) \/ Requeue(w)
    <3>1. UNCHANGED <<row, late>>
        BY <2>6 DEF PublishChildren, CountFolders, CountFiles, RestoreChildless, RestoreChecked,
                    Requeue, Proceed
    <3> QED
        BY <3>1, <1>u
  <2> QED
      BY <1>4, <2>1, <2>2, <2>3, <2>4, <2>5, <2>6 DEF FinishTask
<1>5. ASSUME NEW w \in Worker, NEW g \in Folder, BeginTask(w, g) PROVE FALSE
    BY <1>5, <1>u DEF BeginTask, TrashRead, RestoreRead, PurgeRead, Start
<1> QED
    BY <1>1, <1>2, <1>3, <1>4, <1>5, <1>u
       DEF Next, RequestFails, PurgeFolder, WorkerFails, Redeliver, vars

(* An item that slips late counts as late; another slips because its       *)
(* folder was just trashed, and leaves a trash job due.                    *)
LEMMA NewSlips ==
    ASSUME TypeOK, [Next]_vars, NEW n \in Slipped(row)', n \notin late'
    PROVE  \/ n \in Slipped(row) \ late /\ row'[n].parent = row[n].parent
           \/ TrashJob(row'[n].parent) \in Due(Past)'
<1> USE DEF TypeOK
<1>t. row \in Table
    BY DEF Table
<1>p. row'[n].parent \in Folder
    BY DEF Slipped
<1>w. ASSUME NEW r, NEW X, Write(r), SlipsInto(row, r, X), row'[n].parent \notin X
      PROVE  n \in Slipped(row) \ late /\ row'[n].parent = row[n].parent
    BY <1>w DEF Write, SlipsInto
<1>u. UNCHANGED <<row, late>> => n \in Slipped(row) \ late /\ row'[n].parent = row[n].parent
    BY DEF Slipped, Listed, Exists, InTrash, Trashed, Restoring
<1>0. \A S : /\ SlipsInto(row, Relist(row, S), {})
             /\ SlipsInto(row, Erase(row, S), {})
             /\ SlipsInto(row, ToTrash(row, S), S \cap Listed(row))
    BY <1>t, SlipsAfter
<1>1. ASSUME NEW g \in File, FileStep(g)
      PROVE  n \in Slipped(row) \ late /\ row'[n].parent = row[n].parent
  <2>1. CASE UploadEvent(g)
    <3>1. SlipsInto(row, SetStatus(row, {g}, "uploaded"), {})
      <4>1. {g} \cap Restoring(row) \cap Trashed(row) = {}
          BY FolderRowsAssumption DEF Restoring
      <4>2. "uploaded" \in Status \ {"none", "purged"}
          BY DEF Status
      <4> QED
          BY <4>1, <4>2, <1>t, SlipsAfter
    <3> QED
        BY <2>1, <3>1, <1>w DEF UploadEvent
  <2>2. CASE TrashFile(g)
    <3>1. row'[n].parent \notin {g} \cap Listed(row)
        BY <1>p, FolderRowsAssumption
    <3>2. SlipsInto(row, ToTrash(row, {g}), {g} \cap Listed(row))
        BY <1>0
    <3> QED
        BY <2>2, <3>1, <3>2, <1>w DEF TrashFile
  <2>3. CASE RestoreFile(g)
      BY <2>3, <1>0, <1>w DEF RestoreFile
  <2>4. CASE PurgeFile(g) \/ FileExpires(g)
      BY <2>4, <1>0, <1>w DEF PurgeFile, FileExpires
  <2> QED
      BY <1>1, <2>1, <2>2, <2>3, <2>4 DEF FileStep
<1>2. ASSUME NEW c \in Client, BeginCall(c)
      PROVE  n \in Slipped(row) \ late /\ row'[n].parent = row[n].parent
  <2>1. ASSUME NEW g \in Folder, RestoreFolder(c, g)
        PROVE  n \in Slipped(row) \ late /\ row'[n].parent = row[n].parent
    <3> DEFINE r == Relist(row, ParentsToRestore(row, g))
               r2 == SetStatus(r, {g}, "restoring")
    <3>1. r \in Table /\ Listed(row) \subseteq Listed(r)
        BY <1>t, UpdateTypes, RelistKeeps
    <3>2. SlipsInto(row, r, {}) /\ SlipsInto(r, r2, {})
        BY <3>1, <1>0, SlipsAfter
    <3>3. SlipsInto(row, r2, {})
        BY <3>1, <3>2 DEF SlipsInto, Slipped
    <3> QED
        BY <2>1, <3>3, <1>w DEF RestoreFolder
  <2> QED
      BY <1>2, <2>1, <1>u DEF BeginCall, BeginCreate, BeginTrash
<1>3. ASSUME NEW c \in Client, FinishCall(c)
      PROVE  \/ n \in Slipped(row) \ late /\ row'[n].parent = row[n].parent
             \/ TrashJob(row'[n].parent) \in Due(Past)'
  <2> DEFINE m == call[c].node
  <2>m. call[c].step # "idle" => m \in Node
      BY DEF Call, NoCall
  <2>1. CASE FinishCreate(c)
      BY <2>1, <2>m, <1>t, <1>w, SlipsAfter DEF FinishCreate
  <2>2. CASE TrashUpdate(c)
    <3>1. SlipsInto(row, SetStatus(row, {m} \cap Listed(row), "deleted"), {})
      <4>1. {m} \cap Listed(row) \cap Restoring(row) \cap Trashed(row) = {}
          BY DEF Listed, Trashed
      <4> QED
          BY <4>1, <1>t, SlipsAfter DEF Status
    <3> QED
        BY <2>2, <3>1, <1>w DEF TrashUpdate
  <2>3. CASE TrashDelete(c)
    <3>1. SlipsInto(row, SoftDelete(row, m), {m})
        BY <2>3, <2>m, <1>t, SlipsAfter DEF TrashDelete
    <3>2. CASE row'[n].parent = m
      <4>1. call'[c] = [step |-> "trashDeleted", node |-> m]
          BY <2>3 DEF TrashDelete, Call, NoCall
      <4>2. TrashJob(m) \in Owed(c)'
          BY <4>1, <3>2, <1>p DEF Owed, TrashJob, Job
      <4> QED
          BY <4>2, <3>2, <1>p, JobTypes DEF Due
    <3> QED
        BY <2>3, <3>1, <3>2, <1>w DEF TrashDelete
  <2>4. CASE CreateRefused(c) \/ Publish(c)
      BY <2>4, <1>u DEF CreateRefused, Publish
  <2> QED
      BY <1>3, <2>1, <2>2, <2>3, <2>4 DEF FinishCall
<1>4. ASSUME NEW w \in Worker, FinishTask(w)
      PROVE  \/ n \in Slipped(row) \ late /\ row'[n].parent = row[n].parent
             \/ TrashJob(row'[n].parent) \in Due(Past)'
  <2> DEFINE b == task[w].batch
  <2>1. CASE TrashCommit(w)
    <3>1. CASE row'[n].parent \in b
      <4>1. /\ task'[w].step = "committed"
            /\ task'[w].job.kind = "trash"
            /\ row'[n].parent \in task'[w].batch
          BY <2>1, <3>1 DEF TrashCommit, Commit, At, Task, NoTask
      <4>2. TrashJob(row'[n].parent) \in Holds(w, Past)'
          BY <4>1, <1>p, JobTypes DEF Holds, ChildJobs, TrashJob
      <4> QED
          BY <4>2, <1>p, JobTypes DEF Due
    <3> QED
        BY <2>1, <3>1, <1>0, <1>w DEF TrashCommit, Commit
  <2>2. CASE RestoreCommit(w)
    <3> DEFINE r == SetStatus(row, b \cap Folder, "restoring")
               r2 == Relist(r, b \cap File)
    <3>1. r \in Table /\ Listed(row) \subseteq Listed(r)
        BY <1>t, UpdateTypes DEF Listed, Exists, SetStatus, Status, Table, Row
    <3>2. SlipsInto(row, r, {}) /\ SlipsInto(r, r2, {})
        BY <3>1, <1>t, SlipsAfter
    <3>3. SlipsInto(row, r2, {})
        BY <3>1, <3>2 DEF SlipsInto, Slipped
    <3> QED
        BY <2>2, <3>3, <1>w DEF RestoreCommit, Commit
  <2>3. CASE RestoreFinalize(w)
      BY <2>3, <1>0, <1>w DEF RestoreFinalize
  <2>4. CASE PurgeCommit(w)
      BY <2>4, <1>0, <1>w DEF PurgeCommit, Commit
  <2>5. CASE PurgeLast(w)
      BY <2>5, <1>0, <1>w DEF PurgeLast
  <2>6. CASE \/ PublishChildren(w) \/ CountFolders(w) \/ CountFiles(w)
             \/ RestoreChildless(w) \/ RestoreChecked(w) \/ Requeue(w)
    <3>1. UNCHANGED <<row, late>>
        BY <2>6 DEF PublishChildren, CountFolders, CountFiles, RestoreChildless, RestoreChecked,
                    Requeue, Proceed
    <3> QED
        BY <3>1, <1>u
  <2> QED
      BY <1>4, <2>1, <2>2, <2>3, <2>4, <2>5, <2>6 DEF FinishTask
<1>5. ASSUME NEW w \in Worker, NEW g \in Folder, BeginTask(w, g) PROVE UNCHANGED <<row, late>>
    BY <1>5 DEF BeginTask, TrashRead, RestoreRead, PurgeRead, Start
<1> QED
    BY <1>1, <1>2, <1>3, <1>4, <1>5, <1>u
       DEF Next, RequestFails, PurgeFolder, WorkerFails, Redeliver, vars

-----------------------------------------------------------------------------
(* A folder being restored always has its job due: RestoringHasJob.        *)
THEOREM RestoreIsPending == Spec => []RestoringHasJob
<1>1. Init => RestoringHasJob
    BY DEF Init, RestoringHasJob, Restoring, NoRows, Node
<1>2. TypeOK /\ RestoringHasJob /\ [Next]_vars => RestoringHasJob'
  <2> SUFFICES ASSUME TypeOK, RestoringHasJob, [Next]_vars, NEW f \in Folder,
                      f \in Restoring(row)'
               PROVE  RestoreJob(f) \in Due({})'
      BY DEF RestoringHasJob, Restoring, Due, Pending, Holds, InHand
  <2>1. CASE f \notin Restoring(row)
      BY <2>1, NewRestoring
  <2>2. CASE f \in Restoring(row)
    <3>1. RestoreJob(f) \in Due({}) /\ RestoreJob(f) \in Job
        BY <2>2, JobTypes, DueMembers DEF RestoringHasJob
    <3>2. ~Leaves(RestoreJob(f), {})
      <4> SUFFICES ASSUME NEW w \in Worker, task[w].job = RestoreJob(f),
                          RestoreFinalize(w) \/ PurgeLast(w)
                   PROVE  FALSE
          BY <2>2 DEF Leaves, RestoreJob
      <4>1. task[w].job.kind = "restore" /\ task[w].job.folder = f
          BY DEF RestoreJob
      <4>2. row' = Relist(row, {f})
          BY <4>1 DEF RestoreFinalize, PurgeLast, At, Write
      <4>3. f \notin Restoring(Relist(row, {f}))
          BY RestoringAfter DEF TypeOK, Table
      <4> QED
          BY <4>2, <4>3
    <3> QED
        BY <3>1, <3>2, DueKept
  <2> QED
      BY <2>1, <2>2
<1> QED
    BY <1>1, <1>2, TypeCorrect, PTL DEF Spec

(* Whatever is listed in a trashed folder is late or has its job due:      *)
(* TrashReaches.  It is not inductive: a worker that has counted the child *)
(* folders and found none will not see one that comes later, so for them   *)
(* the job must be due elsewhere.                                          *)
FoldersReached ==
    \A n \in Slipped(row) : n \in Folder => n \in late \/ TrashJob(row[n].parent) \in Due(Past)

THEOREM TrashIsPending == Spec => []TrashReaches
<1>1. Init => TrashReaches /\ FoldersReached
    BY DEF Init, TrashReaches, FoldersReached, Slipped, Listed, Exists, NoRows
<1>2. TypeOK /\ TrashReaches /\ FoldersReached /\ [Next]_vars => (TrashReaches /\ FoldersReached)'
  <2> SUFFICES ASSUME TypeOK, TrashReaches, FoldersReached, [Next]_vars,
                      NEW n \in Slipped(row)', n \notin late'
               PROVE  /\ TrashJob(row'[n].parent) \in Due({})'
                      /\ n \in Folder => TrashJob(row'[n].parent) \in Due(Past)'
      BY DEF TrashReaches, FoldersReached, Due, Pending, Holds, InHand
  <2>1. Due(Past)' \subseteq Due({})'
      BY DEF Due, Holds
  <2>2. CASE n \in Slipped(row) \ late /\ row'[n].parent = row[n].parent
    <3> DEFINE f == row[n].parent
    <3>1. f \in Folder /\ n \in TrashRemains(f)
        BY <2>2 DEF Slipped, Children, Listed, TrashRemains
    <3>2. TrashJob(f) \in Due({}) /\ TrashJob(f) \in Job
        BY <2>2, <3>1, JobTypes, DueMembers DEF TrashReaches
    <3>3. ASSUME NEW w \in Worker, task[w].job = TrashJob(f)
          PROVE  ~(RestoreChecked(w) \/ RestoreFinalize(w) \/ PurgeLast(w))
        BY <3>3 DEF RestoreChecked, RestoreFinalize, PurgeLast, At, TrashJob
    <3>4. ASSUME NEW w \in Worker, task[w].job = TrashJob(f)
          PROVE  Remains(task[w].job) = TrashRemains(f)
        BY <3>4 DEF Remains, TrashJob
    <3>5. CASE n \in Folder
      <4>1. ~Leaves(TrashJob(f), Past)
        <5> SUFFICES ASSUME NEW w \in Worker, task[w].job = TrashJob(f),
                            task[w].step \notin Past, CountFiles(w) \/ CountFolders(w)
                     PROVE  FALSE
            BY <3>3 DEF Leaves
        <5> QED
            BY <3>1, <3>4, <3>5 DEF CountFiles, CountFolders, Past
      <4>2. TrashJob(f) \in Due(Past)
          BY <2>2, <3>5 DEF FoldersReached
      <4> QED
          BY <2>1, <2>2, <3>2, <4>1, <4>2, DueKept
    <3>6. CASE n \in File
      <4>1. ~Leaves(TrashJob(f), {})
        <5> SUFFICES ASSUME NEW w \in Worker, task[w].job = TrashJob(f), CountFiles(w)
                     PROVE  FALSE
            BY <3>3 DEF Leaves
        <5> QED
            BY <3>1, <3>4, <3>6 DEF CountFiles
      <4>2. n \notin Folder
          BY <3>6, FolderRowsAssumption
      <4> QED
          BY <2>2, <3>2, <4>1, <4>2, DueKept
    <3> QED
        BY <2>2, <3>5, <3>6 DEF Slipped, Listed, Exists, Node
  <2>3. CASE TrashJob(row'[n].parent) \in Due(Past)'
      BY <2>1, <2>3
  <2> QED
      BY <2>2, <2>3, NewSlips
<1> QED
    BY <1>1, <1>2, TypeCorrect, PTL DEF Spec
=============================================================================
