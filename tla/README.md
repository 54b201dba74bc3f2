# Safebucket in TLA+

Safebucket shares files kept in an object store (S3, GCS, RustFS, MinIO). A Go
server (`src/internal`) keeps the catalogue in PostgreSQL, talks to the object
store, and hands the slow work (trashing, restoring and purging folders and
buckets) to itself through message queues; a React client (`src/web`) drives it.
Any number of server instances may run. This directory holds the TLA+ model of
that system, the TLC runs that check it on small instances and the TLAPS proofs
of what matters most for all instances.

## 1. Inventory

| component | source | state it keeps | operations |
|---|---|---|---|
| object store | `storage/` | contents, trash markers, notifications of both | post, mark, unmark, remove, lifecycle expiry |
| files | `services/bucket_file.go`, `events/trash_expiration.go` | rows of `files` | upload, trash, restore, purge, download; upload and deletion notifications |
| folders | `services/bucket_folder.go`, `events/folder_*.go`, `helpers/folder.go` | rows of `folders`, the jobs of the `object_deletion` queue | create, rename, trash, restore, purge; the three jobs |
| buckets | `services/bucket.go`, `events/bucket_purge.go` | rows of `buckets` | create, update, delete; the purge job |
| members | `services/bucket_member.go`, `middlewares/authorizer.go` | `memberships`, `invites` | update the members, authorize a request |
| users and invites | `sql/users.go`, `services/user.go`, `services/invite.go` | `users`, `invites`, `challenges` | sign-up, invite challenges |
| authentication | `services/auth.go`, `helpers/token.go`, `middlewares/authenticator.go` | `users`, `challenges`, tokens | log in, refresh, password reset, MFA |
| rate limiter | `middlewares/ratelimiter.go`, `cache/` | counters with a time to live | count a request |
| event delivery | `events/handler.go`, `messaging/`, `core/event_*.go` | messages of a queue | publish, deliver, ack, nack |
| access rules | `rbac/` | none | rank of a role, of a group |
| web session | `web/src/lib/auth-service.ts`, `api.ts` | session, refresh promise | refresh, retry, log out |
| web uploads | `web/src/components/upload` | upload list, abort controllers, timers, folders of a drop | drop, pick, start, progress, cancel, finish |
| web bucket page | `bucket-view`, `queries/bucket.ts`, `usePermissions.ts` | the cached answers of three queries, the folder and view, open dialogs | navigate, fetch, invalidate, mutate, ask and confirm |
| web activity | `activity-view`, `BucketActivityView.tsx` | the cached feed | search and show the log |
| web sign-in | `routes/auth`, `reset-password`, `invites`, `route-guards.ts` | the form on screen, requests and timers it left behind | log in, reset, accept an invite, guard a page |
| web forms and settings | `settings-view`, `bucket-members`, `app-sidebar`, `theme` | drafts of the members, of a name, of a profile; the style sheet | edit, save, share, delete, choose a theme |

How they interact. A request runs through the middlewares and one service
method; a service method makes calls to the database (with or without a
transaction and row locks), to the object store and to the queue, in that
order or another, and any of them can fail. The object store publishes a notification for every content posted and every key
removed, whoever removed it. Handlers of notifications and of jobs run in
goroutines of every instance, one message at a time each; a job whose callback
fails is nacked and delivered again, a notification is acknowledged before it
is processed. The parts of the web client meet in TanStack Query's cache: a
mutation invalidates queries, and every component that shows one is rendered
again when its data changes, whatever the user was typing or asked.

What is hard:

- the database and the object store are updated one after the other, without a
  common transaction, by request handlers, job handlers and notification
  handlers at once;
- a restore removes the trash marker, and so publishes exactly the notification
  that an expiry publishes;
- jobs are repeated, out of order, and spawn jobs for the children;
- checks are made on rows read without a lock;
- a crash leaves half of a sequence of calls done;
- in the browser, answers, timers and events come when the user has moved on:
  another folder or page is open, the session is another one, a draft is half
  typed, the row a question was about is gone.

What makes each component correct:

- files: a listed file can be downloaded; a trashed file ends somehow; nothing is deleted that was not in the trash;
- folders: a job converges, the tree keeps its shape, siblings have distinct names;
- members: a bucket keeps an owner, an invite becomes one membership;
- challenges: at most three attempts, used once;
- rate limiter: no more than the limit in a window, whatever becomes of the calls that set the window;
- web session: one refresh at a time, one retry, no loop;
- web uploads: what the list says of an upload is true, and a dropped tree ends up whole and where it was dropped;
- web bucket page: it shows its own changes, offers what the server would accept as far as a row tells, and acts on the item it asked about;
- web sign-in: a guarded page needs a session, a login leads to the page that was wanted, no form posts twice at once;
- web forms and settings: what is saved is what was edited, and a fetch does not undo an edit.

## 2. Plan

Modules, most important behaviour first. The first six groups are written; the
others follow in this order.

| # | modules | what they settle |
|---|---|---|
| 1 | `ObjectStorage`, `FileTrash`, `FileLifecycle`, `FileTrashProofs` | one row and one stored object, updated without a common transaction |
| 2 | `FolderRows`, `FolderTree`, `FolderTreeProofs` | the jobs that carry a folder's fate down its tree |
| 3 | `WebSession`, `WebSessionProofs` | the single refresh of a browser page |
| 4 | `Members`, `MembersProofs` | members, invites and sign-ups |
| 5 | `UploadRow`, `Uploads`, `DropZone`, `DropZoneProofs`, `DragOverlay` | uploads of a page, drops of whole trees; refines the list a user sees |
| 6 | `BucketPage`, `Listing`, `RowDialogs`, `ActivityFeed`, `SignIn`, `MembersForm`, `BucketSettings`, `ShareDialog`, `Profile`, `Theme`; `BucketPageProofs`, `PageProofs`; `MCWebParts`, `WebPartsProofs` | the pages, each against answers that come late |
| 7 | `BucketPurge` over `FolderTree` | deletion of a bucket against uploads and folder jobs; refines "every row of a deleted bucket goes" |
| 8 | `Challenges` and an abstract `Attempts` | the attempts and the single use of a code, one challenge of an invite |
| 9 | `RateLimit` over an abstract store with times to live | the limit of a window when one of three calls fails |
| 10 | `Delivery`, one instance per broker | acknowledgement and redelivery in JetStream, SQS and Pub/Sub against one abstract queue |
| 11 | `Rbac` | the order of roles and groups as operators, against a reference definition |

Runs are kept few: one for the safety and one for the liveness of a group where
its states do not allow both at once, one for each statement of the code that a
run refutes. As groups are added, refuted statements that a later module covers
more directly give up their run.

Theorems still worth proving: that `FolderTree` keeps its names distinct and its
graph acyclic, and the refinements of groups 7 to 10.

## 3. How the models correspond to the code

All models share these conventions. An action is one transaction, or one
statement or call outside a transaction; between two actions of one handler
anything else may happen. What a handler remembers between two of them is the
record in `call` or `task`. Isolation is PostgreSQL's READ COMMITTED: only a row
read FOR UPDATE is protected. A request that is refused before it changes
anything is not an action. Primary keys are random UUIDs and never reused, so
every constant set of items names the items that ever exist. Variables marked
"history" in a module are read by properties only.

### Files: `ObjectStorage`, `FileTrash`

| state | code |
|---|---|
| `object`, `marker` | keys `buckets/<bucket>/<file>` and `trash/<bucket>/files/<file>` of the store |
| `events` | notifications of the store in the `bucket_events` queue |
| `status`, `deleted` | columns `status` and `deleted_at` of `files` |
| `policy` | presigned POST policies that have not expired |
| `tx` | the open transaction that holds the row's lock and how far it has come |
| `unmarks` | restores that committed and have yet to call `UnmarkAsTrashed` |
| `task` | what the goroutine of `HandleBucketEvents` of an instance is doing |
| `spent` | history: notifications consumed without their effect |
| `doomed` | history: files whose deletion was decided while they were in the trash |

`TrashFile`, `TrashMark`, `TrashCommit` are the three parts of
`BucketFileService.TrashFile`, `PurgeFile` ... `PurgeCommit` the four of
`PurgeFile`; `TxRollback` ends either at any point, as an error of the store, of
the database or of the activity log, or a crash. `RestoreFile` is the whole
transaction of the restore and `UnmarkRestored` the call after it.
`TrashExpiration.callback` is `FindTrashedFile` (the first read),
`RecheckFile` (the second), `HandleFileDeletion` and `DeleteRow`; `WorkerFails`
may end it anywhere.

The module is about a file at the root of its bucket. A file in a folder goes to the
trash with it too, by the job of `events/folder_trash.go:171-175`, which goes on with
a warning when the marker cannot be written: that file then stays in the trash until
somebody purges it. This way into the trash is in `FolderTree`, which has no markers,
and not in `FileTrash`.

`FileLifecycle` is what a user is promised of a file: it moves from uploading to
uploaded, to the trash and back, and is deleted (row or content) only after its
deletion was decided while it was in the trash. `FileTrash` implements it under
the mapping `Phase`, with the stored objects as content.

### Folders: `FolderRows`, `FolderTree`

`row` holds the rows of `folders` and `files` of one bucket, `jobs` the messages
of the `object_deletion` queue. `FolderRows` has the updates and the queries with
a limit (`Batches`), the partial unique indexes (`NamesDistinct`) and the foreign
key's ON DELETE SET NULL (`Erase`).

| actions | code |
|---|---|
| `BeginCreate`, `FinishCreate`, `CreateRefused` | `CreateFolder`, `UploadFile`: look-up, then insertion |
| `BeginTrash`, `TrashUpdate`, `TrashDelete`, `Publish` | `PatchFolder` and `TrashFolder`: read, status, deletion, job |
| `RestoreFolder`, `Publish` | `RestoreFolder`: one transaction, then the job |
| `PurgeFolder` | `PurgeFolder`: checks and publishes |
| `TrashRead`, `TrashCommit`, `PublishChildren` | `FolderTrash.callback`: read, batch, commit, jobs of the children |
| `CountFolders`, `CountFiles`, `SomeRemain` | the two counts at the end of trash and restore: what is left is met by `Requeue` |
| `RestoreRead`, `RestoreCommit`, `RestoreChildless`, `RestoreChecked`, `RestoreFinalize` | `FolderRestore.callback` and `finalizeFolderRestore`: batch, the counts, the last read without a lock, the update by key |
| `PurgeRead` ... `PurgeLast` | `FolderPurge.callback` |
| `Requeue` | the error a callback returns to be delivered again |
| `WorkerFails`, `RequestFails`, `Redeliver` | failed call or crash; `AckWaitTimeout` of 5 s |

One thing is coarser than the code: `ParentsToRestore` reads the folders above in one
step, where `helpers/folder.go:28-50` reads them one by one. A parent trashed in the
middle of the climb, behind it, is a case the model does not have.

### Members: `Members`

`member` holds the memberships that are not soft deleted, `invites` the rows of
`invites`. `UpdateBucketMembers` looks at the provider of the caller and at the bucket,
`BucketRead`, `MembershipsRead` and `InvitesRead` are the three reads of
`GetBucketMembers`, and the last computes the differences (`Compare`), without the
addresses of domains the provider may not share with (`Shareable`); each `AddMember`, `UpdateMember`, `DeleteMember` is one transaction,
in the order additions, updates, deletions (`Turn`), additions looking up the
account first (`AddMemberRead`). `SignUpRead` and `SignUpCommit` are the two parts
of `CreateUserWithInvites`. Accounts and buckets are soft deleted, and since a
soft deletion is an UPDATE no foreign key cascades: memberships stay.

### Browser: `WebSession`

JavaScript runs one callback at a time: an action is what runs between two
awaits. `promise` is the module variable `refreshPromise`, which can be null,
pending, or settled to false and never cleared: with no refresh token the async
body ends, its `finally` included, before the promise is stored. `access` and
`refresh` are cookies with the age of their token, `session` the context of the
router, `call` what each `fetchApi` awaits, `posted` the token a refresh request
carries. The server may answer anything the code distinguishes.

### Uploads: `UploadRow`, `Uploads`, `DropZone`, `DragOverlay`

| state | code |
|---|---|
| `row` | status of a file in the list of `UploadProvider` |
| `mutation` | where `useUploadFileMutation` is: creating the file, posting it, over |
| `controller`, `aborted` | `abortControllersRef` and the signal of the mutation |
| `timers` | the toast and the removal of a finished row |
| `stored` | the content is in the object store |
| `drop` | `handleDrop` of each drop: reading, creating folders, waiting for the list, started |
| `folders`, `folderId` | folders of the bucket, known by their path; the folder of the address |
| `dragCounter`, `isDragOver` | the same names in `DragDropZone.tsx`; `over` counts the nested elements the pointer is in |

`Uploads` is `UploadProvider.tsx` with the mutation it starts: `FileCreated` and
`CreateFileRefused`/`CreateFileFails` end the first request, `PostSucceeds` and
`PostFails` the second; `CancelUpload` removes the row at once and aborts what
listens. `DropZone` adds the walk over the dropped entries (`HandleDrop`,
`ReadFile`, `ReadFails`), the folders created one after the other
(`CreateFolder...`) and the start of the uploads, while the user opens other
folders (`OpenFolder`) and drops again. `UploadRow` is what the list promises to
who looks at it; `Uploads` implements it with `Seen` for its state.

### Pages: the modules of group 6

| module | code | what it takes of the rest |
|---|---|---|
| `BucketPage` | the two item queries of a bucket, its membership query, the mutations and what each invalidates | the server as a state of every item, files still uploading, names taken since, and folders kept too long included; jobs and other users change it without a word |
| `Listing` | rows of a folder, breadcrumbs, original locations | the answers, any set of things |
| `RowDialogs` | the questions before a row is trashed or deleted, and the key React keeps a row by | rows fetched again in any order |
| `ActivityFeed` | entries from the service to the view | the log, in which entries arrive in any order |
| `SignIn` | login, reset, invites, guards, with late answers and timers | two kinds of account |
| `MembersForm`, `BucketSettings`, `Profile` | drafts against saves and fetches of the same data | a server that answers, wholly or in part, or refuses |
| `ShareDialog` | a bucket created and then shared | a server that skips whomever it may not add and answers success all the same |
| `Theme` | `loadTheme`: a style sheet taken away, another one imported | imports that end in any order |

TanStack Query is external and modelled from how the pages use it: invalidating
marks data stale and starts a mounted query again, unless it has never had data;
a fetch whose page was left goes on; data fetched equal to the former is the same
object. `unseen` (history) holds the queries whose answer changed without the page
being told. `MCWebParts` composes the parts that share no state and moves one of
them in a behaviour, so that their states add up.

## 4. Runs

| run | bounds | what it shows |
|---|---|---|
| `FileTrash_two_workers` | 1 file, 2 event workers, 2 pending unmarks | types; a listed file keeps its content; a trashed file will expire; an upload is noticed; `FileLifecycle` is implemented |
| `FileTrash_live` | 1 file, 1 worker, 1 pending unmark | a stay in the trash and an upload end |
| `FileTrash_RestoreSkipsDeletion` | the same | refuted: `trash_expiration.go:205` |
| `FolderTree_chain` | folder in folder with a file, batches of 1, 2 clients, 2 workers, 3 requests, one of which may be a fault instead | types; a restoring folder has a job; a trashed folder will be emptied |
| `FolderTree_live` | the chain, 1 client, 1 worker, the same of requests and faults | trash, restore and purge jobs end |
| `WebSession_page` | 3 calls, 2 users, 3 visits | types, single flight, the refresh token is dropped for a cause, calls end |
| `WebSession_RefreshIsTried` | 2 calls, 1 user, 2 visits | refuted: the promise is cleared after completion |
| `Members_bucket` | 2 accounts, 2 addresses, 1 bucket, 2 levels, 2 callers, 3 requests, 1 fault | types; levels were asked for; an undisturbed update achieves its list |
| `Members_HasOwner` | the same, no fault | refuted: there is always an owner |
| `Drop_page` | 2 files, 3 drops (a tree two deep with a file beside it, its upper part again, an empty folder), files picked in the dialog, 6 paths, 2 folders to open | types; a running upload is seen and a completed one stored; files and trees end up whole and in place; `UploadRow` is implemented; every drop and upload settles |
| `Drop_AllItemsProcessed` | the same | refuted: all items of a drop are processed |
| `Web_parts` | below | types; one or two properties of each part of group 6 and of `DragOverlay` |

`CHECK_DEADLOCK FALSE` throughout: every file may be gone, every account deleted,
every bounded request made, and then nothing remains to be done.

Why the bounds suffice for what is asked. Files share nothing but the workers, so
one file meets every interleaving of its own calls, and a second worker is what a
duplicate or the second kind of notification of the same file needs; two pending
unmarks let a restore overtake another. Two folders and a file are the least tree
in which a job has a child job which has work of its own; batches of one
(`Limit = 1`) make every job requeue; three requests allow trash, restore and
purge of one folder to overlap. Two callers are the least that race; the third
request of `Members` creates what they race about or deletes it. `InviteId` has
three keys, two rival invites of one address and one more; an addition that finds
no key left is cut off. `Shareable` lets one caller of `Members_bucket` add everybody
and the other its own domain only. In `WebSession` three
calls are one that refreshes, one that waits and one that comes late. In
`DropZone` two drops of overlapping trees meet in one folder, a third has nothing to
upload, and a path of two names is the least that has a folder to be
created in one created before. Symmetry is
used over clients and workers of `FolderTree` and callers of `Members`, which no
property tells apart, and only in runs without a liveness property.

In `Web_parts`: a file or a folder and one request of the page at a time
(`MaxRequests`), a contributor who may become a viewer and back, a name that another
item takes and gives up; two nested
elements, and a count of those entered of up to `MaxEntered` = 5; `MaxLoads` = 3 style sheets, the least
with one in the middle; two fields and two values of a profile; two accounts, two
targets and `MaxSent` = 2 requests of the sign-in forms, one late and one on time;
two names and `MaxPatches` = 2 saves of a bucket; a person and two rights,
`MaxBuckets` = 2 creations at once; two folders and a file in every tree, one row
to a page (`PageSize`); `MaxStamp` = 3 entries of the log and `SearchLimit` = 2 of
them found, so that the search cuts one off; three rows with dialogs.
`ListingShown` is `ListingHolds` in the states of its part, since it is slow to
evaluate in those of the others.

What some properties leave out. `OffersHold` compares what a page offers with what
the server would accept, for trash, restore and purge (the dialogs of the header take
any name, so a creation is always offered). It lets through what a row does not show
(`NotInRow`): a file whose content has not arrived is listed and refused when it is
trashed, a restore is refused when the name is taken or the retention over. And a
folder whose restore is under way has no row, though it could be purged.
`ShareHolds` says that a bucket is shared with nobody but those chosen for it, with
the rights chosen; not that it is shared with all of them, since the server skips
whom it may not or cannot add and answers success. `DroppedForCause` names the three
ways a refresh token goes, one of which is the settled promise of finding 2.

Every bound is a constant of its specification, and the theorems hold for all its
values.

## 5. Fairness

- `FileTrash`: an open transaction ends, the call after a restore is made, a
  marker expires (the store applies its lifecycle rule), the broker delivers what
  is in the queue, a worker goes on. The two actions that wait for a row lock get
  strong fairness, since PostgreSQL grants a lock in turn; so does the delivery,
  since a busy worker may be found idle only now and then. No user action and no
  failure is fair; a client need never post.
- `FolderTree`: a request and a job that have begun go on. A job in the queue is
  taken up again and again (strong fairness): a nacked job is redelivered, and a
  worker serves the queue in turn.
- `WebSession`: every request the page sends ends in an answer or an error.
- `DropZone`: every request of an upload ends in an answer or an error, timers fire
  (`UploadFairness`), and a drop that began goes on, each of its awaits ending one
  way or the other. The user need neither drop, move nor cancel.
- `Members` and the modules of group 6 have no liveness property and no fairness:
  what they wait for is the user or a request that may be the last.

The liveness properties except what the code cannot promise: `spent` and
`dropped` (a notification or job lost by a crash, there is no other copy) and, for
restores, a taken name.

## 6. What is proved

For every value of the constants, from the named assumptions alone:

- `FileTrashProofs`: `TypeCorrect`, `ContentIsKept`, `ExpiryIsPending`,
  `LifecycleImplemented`, `UploadIsNoticed`. `ContentKept` is not inductive: a file in the trash must
  have its content to be restored with it, and a worker past its check may remove
  content later. The invariant `IInv` therefore says that a file not doomed has
  content in the trash too and that a pending upload notification announces content
  that is there (`ContentInv`), that the two columns agree (`StatusInv`), that
  whoever holds the lock finds the row as it was and whoever is past the check
  works on a doomed file (`LockInv`), and that nothing is doomed before it was
  uploaded (`DoomInv`). The refinement uses the same invariant, one abstract step
  or stutter for each action, and so does `UploadNoticed`: whoever leaves a row at
  "uploading" while its content is there has published its notification, and only a
  worker takes one away, having activated the row or having spent it.
- `FolderTreeProofs`: `TypeCorrect`, `RestoreIsPending`, `TrashIsPending`. A job is
  due (`Due`) while it is queued, in the hand of a worker, or owed by a request or
  by a worker that committed a batch; a job that was never published counts too. The step to prove is that whoever lets
  go of a job leaves nothing behind: a worker acknowledges only after it read that
  nothing remains, and what is listed or restored since has a job of its own or is
  `late`. A worker counts the folders first and the files after, and does not see a
  folder that comes in between, so that for child folders the job must be due
  elsewhere than with a worker past that count (`FoldersReached`, `Due(Past)`). It
  holds for every tree and every batch limit.
- `WebSessionProofs`: `TypeCorrect`, `FlightIsSingle`, `DropHasCause`;
  `TypeOK /\ SingleFlight` is inductive as it stands; with `PosterWaits`, that
  whoever posted a refresh waits for its answer, the action property
  `DroppedForCause` holds of every step: a token that goes was dropped by a log-out,
  by the failure of a refresh that was posted, for whichever user, or by a call that
  found the promise settled. The refuted `RefreshIsTried` would exclude the last.
- `MembersProofs`: `TypeCorrect`, `LevelsWereAsked`, `UpdatesAchieve`. A level reaches a membership by
  way of an invite, of the invites a sign-up has read or of a difference waiting to
  be applied, so that `AllAsked` says of each of these that its level was
  asked for, and `FoundAddressed` that the memberships a caller has read and not yet
  compared name the addresses of their accounts.
  `UpdateAchieves` speaks of the end of an undisturbed update; `QuietInv` says of
  every point of it that an address has one row at most, in whichever of the two
  tables (`OneRow`), that the rows of an address are what its next difference
  expects (`Fits`) or already what the list asks for (`Steady`), that an account
  looked up is still the one its address has (`LookedUp`); between the reads of
  memberships and invites, that what was read is still so (`HasRead`); and that no two
  accounts that are live or signing up share an address (`OneAccount`).
- `DropZoneProofs`: `PageTypeCorrect`, `RunningSeen`, `CompletedStored`,
  `UploadsImplementList`, `DropsInPlace`, `DropsAreWhole`. For the uploads the
  invariant `UploadsInv` adds to what is shown what the row, the timers and the
  toast tell of a mutation that is over (`OutcomeInv`), and each action maps to a
  step of `UploadRow` or a stutter. For the drops `DropInv` says that no file is in
  two drops (`DisjointInv`), that the folder of a path a drop has in its map is there
  and was made by that drop (`MapInv`), and where the uploads of a drop were
  sent once it has started them (`StartedInv`). The assumptions are those of
  `DropZoneAssumption`: paths are sequences of names, closed under taking the front.
- `BucketPageProofs`: `PageShowsItsChanges`, `PageOffersWhatHolds`. `ToldIsShown` speaks of quiet moments;
  `CacheInv` says what makes up for data no longer true until then: it is stale, or
  a fetch has read the truth since, or an answer is owed that will invalidate it
  (`Owed`). What a page offers follows from what it shows: a page that has seen
  everything offers all the server would accept, and beyond it only `NotInRow`.
- `PageProofs`: `OverlayFollows`, `SharedAsChosen`, `RenameIsKept`, `DialogsHold`,
  `SignInIsSound`, each from an invariant of its own: the drag counter is behind
  only for elements that went away (`OverlayInv`), how far the creation of a bucket
  is tells who its members may be (`ShareInv`), while nothing comes across a rename one
  PATCH is under way and cache and draft differ from the server by that one at most
  (`RenameInv`), a question belongs to a component that is rendered, and only in the
  list can that change its item (`DialogInv`), and requests whose form is on screen
  are of that form, and of the page that was refused (`SignInInv`).

- `WebPartsProofs`: `FormSaves`, `SavesAreOrdered`, `ThemeIsApplied`,
  `FeedShowsTheLog`, `ListingIsShown`, again each from an invariant of its own: rows
  left alone are the list, or what is being saved, or the members it has become
  (`FormInv`); the one save of a profile holds what its disabled input holds
  (`ProfileInv`); as long as imports did not overlap there is one import or one
  style (`ThemeInv`); no two entries of the log have the same time, so that the rank
  of an entry is its own and a search with a limit finds an initial segment
  (`FeedInv`). `ListingHolds` compares walks up a tree with closures of sets, for
  every finite tree (`Tree`: no folder is above itself, and no folder moves). The
  walk is a recursive function of its steps; that it exists and ends is shown by
  induction, which `EveryNatural` provides for sets of numbers: it rests on the
  strict subsets of finite sets, a well-founded order of the library. By the
  pigeonhole principle a walk that took all its steps inside the tree would have met
  a folder twice, above itself (`ClimbEnds`). `PartsTypeCorrect` is the type
  invariant of all parts, with the bound on the requests of a page and the folder
  that is open only with its items; and `PartsBehaveAlone` says that in the run of
  all the parts each behaves as its own specification, so that what is proved of a
  part holds there.

The assumptions are those of the modules, all evaluated by the runs: finite sets of
people, folders and files, no field of a profile called "password" (which has a form
of its own), nothing logged but the messages of `activity/constants.go`, and the
deletion of a bucket only by the action that models it.

Every invariant and every action property of a passing run is a theorem. Only
model-checked are the liveness properties (`TrashEnds`, `UploadEnds`, `RestoreEnds`,
`PurgeEnds`, `CallEnds`, `AllSettles`), since liveness under fairness is out of the
prover's reach, and the refuted statements, which are counterexamples.

## 7. Disagreements between the code and its comments

Four runs find a statement of the code refuted by what it does (`findings` in
`PROJECT.json` quotes each):

1. A restore that commits between the second read of `TrashExpiration` and its
   DELETE is lost: the row is deleted by its key.
2. `refreshPromise` is not cleared if there is no refresh token, and every later
   call of the page logs out.
3. Two owners who update the members at once can leave none.
4. Of several items dropped together only the first is uploaded: the list is read
   after an await, when the browser has emptied it.

Seen while modelling, part of the models, and without a run of their own: the
removal of a marker by a restore is taken for an expiry if it is handled after
the file was trashed again; a restore job that meets a taken name reverts the
status inside the transaction it then rolls back; two updates of the members at
once can leave two invites of one address to one bucket; the activity view of a
bucket takes the null of a bucket to which nothing happened for a list; the
question of a list row goes over to another item when rows, keyed by their index,
are fetched again; a bucket is announced as created and shared although the server
skipped some of the people chosen; a file still uploading is offered for the trash
and refused; an answer to a log-in, and the timer that closes a reset or an invite,
take the user from wherever they are by then.

## 8. Not modelled

Ages: a marker, a policy or a token may expire whenever it may at all. Names and
contents beyond equality. Renaming of folders (a single statement, refused by the
unique index). `FolderPurge`'s removal of markers and objects of a batch:
`FileTrash` treats those of one file. The order in which a table sorts its rows,
wording, icons and layout; the vendored UI primitives and the generated route
tree. The homepage and its statistics, which only show queries. Mail, static
files, configuration, event routing, cache connections, migrations and the
parsing of requests have no state that outlives a call.

Left to the plan: the job of a bucket's deletion, the challenges, the rate limiter,
the differences of the three brokers, the order of roles as an operator.

Hazards without a property, and why:

- `events/folder_purge.go:111`, folders deleted before their children, which move
  to the root: modelled (`Erase`), but the code promises nothing of the orphans;
- `services/user.go:181`, memberships that outlive a soft deletion: modelled, and
  refuted by every deletion without any interleaving;
- `services/invite.go:173`, a decrement of attempts that is lost, and
  `cache/common.go:82`, a counter left without expiry, by which the limit no longer
  holds: the modules are left to the plan;
- what the models do and their properties except, since the code promises nothing
  better: a lost notification (`events/handler.go:121`, `spent`), the restore of a
  folder whose name is taken (`folder_restore.go:170`), child jobs lost by a crash
  (`folder_restore.go:270`, `folder_trash.go:201`, `dropped`), an item created in a
  folder trashed meanwhile (`bucket_folder.go:81`, `late`), updates of the members
  that cross or half fail (`bucket_member.go:167`, `207`, `270`, `sql/users.go:25`),
  a late refresh that drops the token of the next user (`auth-service.ts:200`, for
  which `CallEnds` only says that the calls end), a dropped file that cannot be read
  (`DragDropZone.tsx:154`), rows keyed by their index (`DataTable.tsx:111`), renames
  and saves that overlap (`useBucketInformation.ts:34`), edits of another owner undone
  (`useBucketMembersData.ts:103`), imports of style sheets that overlap
  (`themes.ts:155`), and the activity view that breaks on a null
  (`BucketActivityView.tsx:21`, part of what `FeedHolds` describes);
- `routes/auth/login/index.tsx:64`, late answers and timers that move the user:
  modelled (`LoginAnswered` of a form that was left, `TimerFires`); `SignInHolds` says
  only that they lead where the guards allow;
- the file of a folder trashed without its marker (`folder_trash.go:171`): not in
  `FileTrash`.

`PROJECT.json` lists every component with what is left out.
