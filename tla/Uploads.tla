------------------------------- MODULE Uploads -------------------------------
(***************************************************************************)
(* The uploads of one page: the list of UploadProvider, the mutation that  *)
(* creates the file and posts it to the object storage, its abort          *)
(* controllers and timers (web/src/components/upload).                     *)
(*                                                                         *)
(* A callback runs to its next await in one step; a promise that settles   *)
(* takes everything that awaited it along.  Requests end in any order.     *)
(* cancelUpload is offered by the context; no button calls it yet.         *)
(***************************************************************************)
CONSTANTS
    File,       \* files a user picks or drops, each once
    Folder,     \* places of the bucket a file can be uploaded to
    Root        \* the top of the bucket, what no folder id stands for

ASSUME UploadsAssumption == Root \in Folder

VARIABLES
    row,        \* the entry of each upload in the list
    progress,   \* the percentage an uploading row shows is above 0
    mutation,   \* how far mutationFn is
    controller, \* abortControllersRef has an entry
    aborted,    \* the signal of a running mutation
    target,     \* the folder named in the request that creates the file
    stored,     \* the object storage has the file
    timers,     \* timers set by onSuccess and not yet run
    announced   \* "Upload completed" was shown

uploadVars == <<row, progress, mutation, controller, aborted, target, stored, timers, announced>>

UploadStatus == {"uploading", "success", "error"}
Running == {"creating", "posting"}

UploadsTypeOK ==
    /\ row \in [File -> UploadStatus \cup {"none"}]
    /\ progress \in [File -> BOOLEAN]
    /\ mutation \in [File -> Running \cup {"none", "success", "error"}]
    /\ controller \in [File -> BOOLEAN]
    /\ aborted \in [File -> BOOLEAN]
    /\ target \in [File -> Folder]
    /\ stored \in [File -> BOOLEAN]
    /\ timers \in [File -> SUBSET {"toast", "remove"}]
    /\ announced \in SUBSET File

UploadsInit ==
    /\ row = [f \in File |-> "none"]
    /\ progress = [f \in File |-> FALSE]
    /\ mutation = [f \in File |-> "none"]
    /\ controller = [f \in File |-> FALSE]
    /\ aborted = [f \in File |-> FALSE]
    /\ target = [f \in File |-> Root]
    /\ stored = [f \in File |-> FALSE]
    /\ timers = [f \in File |-> {}]
    /\ announced = {}

-----------------------------------------------------------------------------
NotYet == {f \in File : mutation[f] = "none"}

Set(fn, F, v) == [f \in File |-> IF f \in F THEN v ELSE fn[f]]

(* startUpload of the files F, each to the folder at[f].                   *)
StartUpload(F, at) ==
    /\ F \subseteq NotYet
    /\ row' = Set(row, F, "uploading")
    /\ mutation' = Set(mutation, F, "creating")
    /\ controller' = Set(controller, F, TRUE)
    /\ target' = [f \in File |-> IF f \in F THEN at[f] ELSE target[f]]
    /\ UNCHANGED <<progress, aborted, stored, timers, announced>>

(* Mutant: a row that was taken off the list is put back.                  *)
SetStatusAlways(f, s) == row' = [row EXCEPT ![f] = s]

(* The rows are mapped over: a status is only given to a row still there.  *)
SetStatus(f, s) == row' = [row EXCEPT ![f] = IF @ = "none" THEN "none" ELSE s]

(* Mutant: the controller is not dropped.                                  *)
SettleKeepsController(f, outcome) ==
    /\ SetStatus(f, outcome)
    /\ progress' = [progress EXCEPT ![f] = FALSE]
    /\ mutation' = [mutation EXCEPT ![f] = outcome]
    /\ aborted' = [aborted EXCEPT ![f] = FALSE]
    /\ UNCHANGED <<controller, target, announced>>

(* mutationFn is over, its controller dropped; onSuccess or onError runs.  *)
Settle(f, outcome) ==
    /\ SetStatus(f, outcome)
    /\ progress' = [progress EXCEPT ![f] = FALSE]
    /\ mutation' = [mutation EXCEPT ![f] = outcome]
    /\ controller' = [controller EXCEPT ![f] = FALSE]
    /\ aborted' = [aborted EXCEPT ![f] = FALSE]
    /\ UNCHANGED <<target, announced>>

(* api_createFile has its answer, the form of the presigned post.          *)
FileCreated(f) ==
    /\ mutation[f] = "creating"
    /\ mutation' = [mutation EXCEPT ![f] = "posting"]
    /\ UNCHANGED <<row, progress, controller, aborted, target, stored, timers, announced>>

(* Mutant: a status the list does not know.                                *)
CreateFileRefused(f) ==
    /\ mutation[f] = "creating"
    /\ Settle(f, "failed")
    /\ UNCHANGED <<stored, timers>>

CreateFileFails(f) ==
    /\ mutation[f] = "creating"
    /\ Settle(f, "error")
    /\ UNCHANGED <<stored, timers>>

Progress(f) ==
    /\ mutation[f] = "posting"
    /\ row[f] # "none"
    /\ progress' = [progress EXCEPT ![f] = TRUE]
    /\ UNCHANGED <<row, mutation, controller, aborted, target, stored, timers, announced>>

(* Mutant: no timer removes the row.                                       *)
PostSucceedsStays(f) ==
    /\ mutation[f] = "posting"
    /\ Settle(f, "success")
    /\ stored' = [stored EXCEPT ![f] = TRUE]
    /\ timers' = [timers EXCEPT ![f] = {"toast"}]

(* loadend with a status between 200 and 299.                              *)
PostSucceeds(f) ==
    /\ mutation[f] = "posting"
    /\ Settle(f, "success")
    /\ stored' = [stored EXCEPT ![f] = TRUE]
    /\ timers' = [timers EXCEPT ![f] = {"toast", "remove"}]

(* Mutant: loadend resolves the promise, whatever the status.              *)
PostEnds(f) ==
    /\ mutation[f] = "posting"
    /\ Settle(f, "success")
    /\ timers' = [timers EXCEPT ![f] = {"toast", "remove"}]
    /\ UNCHANGED stored

(* Another status, or the connection breaks.  The storage may have taken   *)
(* the file all the same, which the page never learns.                     *)
PostFails(f) ==
    /\ mutation[f] = "posting"
    /\ Settle(f, "error")
    /\ UNCHANGED <<stored, timers>>

(* The post is aborted only through the listener uploadToStorage adds: a   *)
(* signal aborted before that is never looked at.                          *)
CancelUpload(f) ==
    /\ row[f] # "none"
    /\ row' = [row EXCEPT ![f] = "none"]
    /\ progress' = [progress EXCEPT ![f] = FALSE]
    /\ controller' = [controller EXCEPT ![f] = FALSE]
    /\ aborted' = [aborted EXCEPT ![f] = mutation[f] = "creating"]
    /\ mutation' = [mutation EXCEPT ![f] = IF @ = "posting" THEN "error" ELSE @]
    /\ UNCHANGED <<target, stored, timers, announced>>

(* One second and three seconds after the success.                         *)
ToastTimer(f) ==
    /\ "toast" \in timers[f]
    /\ timers' = [timers EXCEPT ![f] = @ \ {"toast"}]
    /\ announced' = announced \cup {f}
    /\ UNCHANGED <<row, progress, mutation, controller, aborted, target, stored>>

RemoveTimer(f) ==
    /\ timers[f] = {"remove"}
    /\ timers' = [timers EXCEPT ![f] = {}]
    /\ row' = [row EXCEPT ![f] = "none"]
    /\ UNCHANGED <<progress, mutation, controller, aborted, target, stored, announced>>

UploadEnds(f) == CreateFileFails(f) \/ PostSucceeds(f) \/ PostFails(f)

UploadStep(f) ==
    \/ FileCreated(f)
    \/ UploadEnds(f)
    \/ Progress(f)
    \/ CancelUpload(f)
    \/ ToastTimer(f)
    \/ RemoveTimer(f)

(* Requests are answered or fail, timers run; nobody has to cancel.        *)
UploadFairness ==
    \A f \in File :
        /\ WF_uploadVars(UploadEnds(f))
        /\ WF_uploadVars(ToastTimer(f) \/ RemoveTimer(f))

-----------------------------------------------------------------------------
StatusText(f) ==
    CASE row[f] = "success" -> "completed"
      [] row[f] = "error" -> "failed"
      [] row[f] = "uploading" /\ ~progress[f] -> "preparing"
      [] row[f] = "uploading" /\ progress[f] -> "percent"
      [] OTHER -> "unknown"

(* Leaving the page is asked about while a file is on its way: the only    *)
(* upload that runs unseen is one cancelled before its URL was there,      *)
(* which the abort never reaches.                                          *)
RunningIsSeen ==
    \A f \in File :
        /\ mutation[f] \in Running => row[f] = "uploading" \/ (row[f] = "none" /\ aborted[f])
        /\ row[f] = "uploading" => mutation[f] \in Running /\ controller[f]
        /\ controller[f] => mutation[f] \in Running /\ ~aborted[f]

(* What the list or a toast calls completed is in the storage, and what    *)
(* it calls failed was not called completed before.                        *)
CompletedIsStored ==
    \A f \in File :
        /\ StatusText(f) = "completed" \/ f \in announced => stored[f]
        /\ StatusText(f) = "failed" => f \notin announced /\ timers[f] = {}

(* The popover lists an upload for as long as it is under way or failed.   *)
Seen ==
    [f \in File |->
        IF row[f] # "none" THEN row[f] ELSE IF mutation[f] = "none" THEN "absent" ELSE "gone"]
List == INSTANCE UploadRow WITH seen <- Seen
ListSpec == List!Spec

=============================================================================
