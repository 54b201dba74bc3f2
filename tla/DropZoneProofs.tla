--------------------------- MODULE DropZoneProofs ----------------------------
(***************************************************************************)
(* What the page shows of its uploads, and where the files of a drop end   *)
(* up, for any files, drops, items and folders.                            *)
(*                                                                         *)
(* First the uploads: each step of the page is a step of Uploads or leaves *)
(* them alone, whatever drops are under way.  Then the drops.              *)
(***************************************************************************)
EXTENDS DropZone, TLAPS

UploadsTyped ==
    /\ row \in [File -> UploadStatus \cup {"none"}]
    /\ mutation \in [File -> Running \cup {"none", "success", "error"}]
    /\ controller \in [File -> BOOLEAN]
    /\ aborted \in [File -> BOOLEAN]
    /\ stored \in [File -> BOOLEAN]
    /\ timers \in [File -> SUBSET {"toast", "remove"}]

(* What the row, the timers and the toast tell of a mutation that is over, *)
(* and that nothing is left of an upload that has not begun.               *)
OutcomeInv ==
    \A f \in File :
        /\ row[f] \in {"success", "error"} => mutation[f] = row[f]
        /\ mutation[f] = "success" => stored[f]
        /\ timers[f] # {} \/ f \in announced => mutation[f] = "success"
        /\ mutation[f] = "none" => row[f] = "none" /\ ~aborted[f]

UploadsInv == UploadsTyped /\ OutcomeInv /\ RunningIsSeen

-----------------------------------------------------------------------------
(* What the page does to its uploads.                                      *)
LEMMA PageStep ==
    ASSUME [Next]_vars
    PROVE  \/ \E F \in SUBSET File : \E at : StartUpload(F, at)
           \/ \E f \in File : UploadStep(f)
           \/ UNCHANGED uploadVars
<1>1. CASE UNCHANGED vars
    BY <1>1 DEF vars
<1>2. ASSUME NEW d \in Drop, HandleDrop(d) \/ ReadFails(d) PROVE UNCHANGED uploadVars
    BY <1>2 DEF HandleDrop, ReadFails
<1>3. ASSUME NEW d \in Drop, StartFlat(d) \/ StartNested(d)
      PROVE  \E F \in SUBSET File : \E at : StartUpload(F, at)
  <2>1. PICK at : StartUpload(drop[d].read, at)
      BY <1>3 DEF StartFlat, StartNested, StartAll
  <2>2. drop[d].read \in SUBSET File
      BY <2>1 DEF StartUpload, NotYet
  <2> QED
      BY <2>1, <2>2
<1>4. ASSUME NEW d \in Drop, DropStep(d), ~StartFlat(d), ~StartNested(d)
      PROVE  UNCHANGED uploadVars
    BY <1>4 DEF DropStep, ReadFile, BeginFolders, CreateFolder, CreateFolderFails, AllCreated
<1>5. ASSUME NEW F \in SUBSET File, PickFiles(F)
      PROVE  \E G \in SUBSET File : \E at : StartUpload(G, at)
    BY <1>5 DEF PickFiles
<1>6. ASSUME NEW p \in Folder, OpenFolder(p) PROVE UNCHANGED uploadVars
    BY <1>6 DEF OpenFolder
<1> QED
    BY <1>1, <1>2, <1>3, <1>4, <1>5, <1>6 DEF Next

LEMMA UploadsInvInit == Init => UploadsInv
BY DEF Init, UploadsInit, UploadsInv, UploadsTyped, OutcomeInv, RunningIsSeen,
       UploadStatus, Running

LEMMA UploadsStep == UploadsInv /\ [Next]_vars => UploadsInv'
<1> SUFFICES ASSUME UploadsInv, [Next]_vars PROVE UploadsInv'
    OBVIOUS
<1> USE DEF UploadsInv, UploadsTyped, OutcomeInv, RunningIsSeen, UploadStatus, Running
<1>1. ASSUME NEW F \in SUBSET File, NEW at, StartUpload(F, at) PROVE UploadsInv'
    BY <1>1 DEF StartUpload, Set, NotYet
<1>2. ASSUME NEW f \in File, UploadStep(f) PROVE UploadsInv'
  <2>1. CASE FileCreated(f)
      BY <2>1 DEF FileCreated
  <2>2. CASE CreateFileFails(f)
      BY <2>2 DEF CreateFileFails, Settle, SetStatus
  <2>3. CASE PostSucceeds(f)
      BY <2>3 DEF PostSucceeds, Settle, SetStatus
  <2>4. CASE PostFails(f)
      BY <2>4 DEF PostFails, Settle, SetStatus
  <2>5. CASE Progress(f)
      BY <2>5 DEF Progress
  <2>6. CASE CancelUpload(f)
      BY <2>6 DEF CancelUpload
  <2>7. CASE ToastTimer(f)
      BY <2>7 DEF ToastTimer
  <2>8. CASE RemoveTimer(f)
      BY <2>8 DEF RemoveTimer
  <2> QED
      BY <1>2, <2>1, <2>2, <2>3, <2>4, <2>5, <2>6, <2>7, <2>8 DEF UploadStep, UploadEnds
<1>3. CASE UNCHANGED uploadVars
    BY <1>3 DEF uploadVars
<1> QED
    BY <1>1, <1>2, <1>3, PageStep

(* An upload under way is in the list, with a controller to cancel it, or  *)
(* was cancelled before there was a post to abort (UploadProvider.tsx,     *)
(* useUploadMutation.ts).                                                  *)
THEOREM RunningSeen == Spec => []RunningIsSeen
<1>1. UploadsInv => RunningIsSeen
    BY DEF UploadsInv
<1> QED
    BY <1>1, UploadsInvInit, UploadsStep, PTL DEF Spec

(* What is called completed, in the list or by a toast, is stored, and is  *)
(* never called failed as well.                                            *)
THEOREM CompletedStored == Spec => []CompletedIsStored
<1>1. UploadsInv => CompletedIsStored
    BY DEF UploadsInv, UploadsTyped, OutcomeInv, CompletedIsStored, StatusText, UploadStatus
<1> QED
    BY <1>1, UploadsInvInit, UploadsStep, PTL DEF Spec

-----------------------------------------------------------------------------
(* A step of the page shows the list a step of UploadRow, or no step.      *)
LEMMA ListStep ==
    ASSUME UploadsInv, [Next]_vars
    PROVE  List!Next \/ UNCHANGED Seen
<1> USE DEF UploadsInv, UploadsTyped, OutcomeInv, RunningIsSeen, UploadStatus, Running
<1>1. ASSUME NEW F \in SUBSET File, NEW at, StartUpload(F, at) PROVE List!Next
  <2>1. List!Appear(F)
      BY <1>1 DEF List!Appear, StartUpload, Set, NotYet, Seen
  <2> QED
      BY <2>1 DEF List!Next
<1>2. ASSUME NEW f \in File, UploadStep(f) PROVE List!Next \/ UNCHANGED Seen
  <2>1. CASE FileCreated(f)
      BY <2>1 DEF FileCreated, Seen
  <2>2. ASSUME NEW s \in {"success", "error"}, Settle(f, s), mutation[f] \in Running
        PROVE  List!Next \/ UNCHANGED Seen
    <3>1. CASE row[f] = "none"
        BY <2>2, <3>1 DEF Settle, SetStatus, Seen
    <3>2. CASE row[f] # "none"
      <4>1. List!End(f)
          BY <2>2, <3>2 DEF List!End, List!Becomes, Settle, SetStatus, Seen
      <4> QED
          BY <4>1 DEF List!Next
    <3> QED
        BY <3>1, <3>2
  <2>3. CASE UploadEnds(f)
      BY <2>2, <2>3 DEF UploadEnds, CreateFileFails, PostSucceeds, PostFails
  <2>4. CASE Progress(f)
      BY <2>4 DEF Progress, Seen
  <2>5. CASE CancelUpload(f)
    <3>1. List!Go(f)
        BY <2>5 DEF List!Go, List!Becomes, List!Shown, CancelUpload, Seen
    <3> QED
        BY <3>1 DEF List!Next
  <2>6. CASE ToastTimer(f)
      BY <2>6 DEF ToastTimer, Seen
  <2>7. CASE RemoveTimer(f)
    <3>1. mutation[f] = "success"
        BY <2>7 DEF RemoveTimer
    <3>2. CASE row[f] = "none"
        BY <2>7, <3>1, <3>2 DEF RemoveTimer, Seen
    <3>3. CASE row[f] # "none"
      <4>1. List!Go(f)
          BY <2>7, <3>1, <3>3 DEF List!Go, List!Becomes, List!Shown, RemoveTimer, Seen
      <4> QED
          BY <4>1 DEF List!Next
    <3> QED
        BY <3>2, <3>3
  <2> QED
      BY <1>2, <2>1, <2>3, <2>4, <2>5, <2>6, <2>7 DEF UploadStep
<1>3. CASE UNCHANGED uploadVars
    BY <1>3 DEF uploadVars, Seen
<1> QED
    BY <1>1, <1>2, <1>3, PageStep

(* The list of uploads keeps the promises of UploadRow: an upload appears  *)
(* once, ends once, and never comes back.                                  *)
THEOREM UploadsImplementList == Spec => ListSpec
<1>1. Init => List!Init
    BY DEF Init, UploadsInit, List!Init, Seen
<1>2. UploadsInv /\ [Next]_vars => [List!Next]_Seen
    BY ListStep
<1> QED
    BY <1>1, <1>2, UploadsInvInit, UploadsStep, PTL DEF Spec, ListSpec, List!Spec
-----------------------------------------------------------------------------
(* The drops.                                                              *)

DropTyped ==
    /\ folderId \in Open
    /\ DOMAIN folders \subseteq Folder
    /\ drop \in [Drop -> [phase : {"none", "reading", "stuck", "creating", "refreshing",
                                   "started", "failed"},
                          at : Open, read : SUBSET File, left : SUBSET File, map : SUBSET Folder]]
    /\ target \in [File -> Folder]
    /\ mutation \in [File -> Running \cup {"none", "success", "error"}]

(* Two drops never have a file in common, and what a drop under way has is *)
(* not being uploaded.                                                     *)
Has(d) == drop[d].read \cup drop[d].left
DisjointInv ==
    /\ \A d \in Drop : drop[d].phase \in UnderWay => Has(d) \subseteq NotYet
    /\ \A d, e \in Drop :
          drop[d].phase \in UnderWay /\ drop[e].phase \in UnderWay /\ d # e => Has(d) \cap Has(e) = {}

(* The folder of a path of the map is there, made by the drop itself.      *)
Made(d, p) == drop[d].at \o p \in DOMAIN folders /\ folders[drop[d].at \o p] = d
MapInv ==
    \A d \in Drop :
        drop[d].phase \in {"creating", "refreshing"} =>
            /\ <<>> \in drop[d].map
            /\ \A p \in drop[d].map \ {<<>>} : Made(d, p)
            /\ drop[d].phase = "refreshing" => FolderPaths(drop[d].read) \subseteq drop[d].map

(* The files of a drop that is over are on their way, and in their place.  *)
StartedInv ==
    \A d \in Drop : drop[d].phase = "started" =>
        /\ \A f \in drop[d].read : mutation[f] # "none" /\ target[f] = drop[d].at \o PathIn[f]
        /\ \A p \in FolderPaths(drop[d].read) : Made(d, p)

DropInv == DropTyped /\ DisjointInv /\ MapInv /\ StartedInv

-----------------------------------------------------------------------------
(* The folder above a path is a path of the same files, or the drop's own. *)
LEMMA FrontIsPath ==
    ASSUME NEW F \in SUBSET File, NEW p \in FolderPaths(F)
    PROVE  /\ p \in Seq(STRING) /\ Len(p) \in Nat \ {0}
           /\ Front(p) = <<>> \/ Front(p) \in FolderPaths(F)
           /\ Len(Front(p)) = Len(p) - 1
           /\ \A at \in Open : (at \o Front(p)) \o <<Last(p)>> = at \o p
           /\ \A at \in Open : at \o p \in Folder
<1>1. PICK f \in F : \E n \in 1 .. Len(PathIn[f]) : p = SubSeq(PathIn[f], 1, n)
    BY DEF FolderPaths
<1>n. PICK n \in 1 .. Len(PathIn[f]) : p = SubSeq(PathIn[f], 1, n)
    BY <1>1
<1>2. PathIn[f] \in Seq(STRING) /\ n \in Nat /\ n >= 1 /\ n <= Len(PathIn[f])
    BY DropZoneAssumption
<1>3. p \in Seq(STRING) /\ Len(p) = n /\ \A i \in 1 .. n : p[i] = PathIn[f][i]
    BY <1>n, <1>2
<1>4. Front(p) = SubSeq(PathIn[f], 1, n - 1) /\ Len(Front(p)) = n - 1
  <2>1. Front(p) = SubSeq(p, 1, n - 1)
      BY <1>3 DEF Front
  <2> QED
      BY <1>2, <1>3, <2>1
<1>5. Front(p) = <<>> \/ Front(p) \in FolderPaths(F)
  <2>1. CASE n = 1
      BY <1>2, <1>4, <2>1
  <2>2. CASE n # 1
    <3>1. n - 1 \in 1 .. Len(PathIn[f])
        BY <1>2, <2>2
    <3> QED
        BY <1>4, <3>1 DEF FolderPaths
  <2> QED
      BY <2>1, <2>2
<1>6. ASSUME NEW at \in Open PROVE (at \o Front(p)) \o <<Last(p)>> = at \o p
  <2>1. at \in Seq(STRING) /\ Front(p) \in Seq(STRING) /\ Last(p) = p[n] /\ p[n] \in STRING
      BY <1>2, <1>3, <1>4, DropZoneAssumption DEF Last
  <2>2. \A i \in 1 .. n - 1 : Front(p)[i] = p[i]
      BY <1>2, <1>3, <1>4
  <2> DEFINE a == at \o Front(p)
             s == a \o <<Last(p)>>
             t == at \o p
  <2>3. /\ a \in Seq(STRING) /\ Len(a) = Len(at) + (n - 1)
        /\ \A i \in 1 .. Len(a) : a[i] = t[i]
      BY <1>2, <1>3, <1>4, <2>1, <2>2
  <2>4. t \in Seq(STRING) /\ Len(t) = Len(at) + n /\ t[Len(at) + n] = p[n]
    <3>1. Len(at) \in Nat /\ Len(at) + n \in 1 .. Len(at) + Len(p) /\ Len(at) + n > Len(at)
          /\ (Len(at) + n) - Len(at) = n
        BY <1>2, <1>3, <2>1
    <3>2. t \in Seq(STRING) /\ Len(t) = Len(at) + Len(p)
      <4>1. p \in Seq(STRING) /\ at \in Seq(STRING)
          BY <1>3, <2>1
      <4>2. at \o p \in Seq(STRING)
          BY <4>1
      <4>3. Len(at \o p) = Len(at) + Len(p)
          BY <4>1
      <4> QED
          BY <4>2, <4>3
    <3>3. t[Len(at) + n] = p[(Len(at) + n) - Len(at)]
        BY <1>3, <2>1, <3>1
    <3> QED
        BY <1>3, <3>1, <3>2, <3>3
  <2> HIDE DEF a, t
  <2>5. s \in Seq(STRING) /\ Len(s) = Len(t) /\ \A i \in 1 .. Len(s) : s[i] = t[i]
      BY <1>2, <2>1, <2>3, <2>4
  <2> HIDE DEF s
  <2>6. s = t
      BY <2>4, <2>5
  <2> QED
      BY <2>6 DEF s, t, a
<1>7. ASSUME NEW at \in Open PROVE at \o p \in Folder
    BY <1>n, DropZoneAssumption
<1>8. Len(p) \in Nat \ {0} /\ Len(Front(p)) = Len(p) - 1
    BY <1>2, <1>3, <1>4
<1> QED
    BY <1>3, <1>5, <1>6, <1>7, <1>8
(* Uploads that go on, none begun: the drops are as they were.             *)
LEMMA UploadsGoOn ==
    ASSUME DropInv, UNCHANGED <<dropVars, target>>,
           mutation' \in [File -> Running \cup {"none", "success", "error"}],
           \A f \in File : mutation'[f] = "none" <=> mutation[f] = "none"
    PROVE  DropInv'
<1>1. UNCHANGED <<folderId, folders, drop, target>> /\ NotYet' = NotYet
    BY DEF dropVars, NotYet
<1>2. DropTyped'
    BY <1>1 DEF DropInv, DropTyped
<1>3. DisjointInv' /\ MapInv'
    BY <1>1 DEF DropInv, DisjointInv, MapInv, Has, Made
<1>4. StartedInv'
  <2>1. ASSUME NEW d \in Drop, drop[d].phase = "started", NEW f \in drop[d].read
        PROVE  mutation'[f] # "none" /\ target[f] = drop[d].at \o PathIn[f]
      BY <2>1 DEF DropInv, DropTyped, StartedInv
  <2>2. ASSUME NEW d \in Drop, drop[d].phase = "started", NEW p \in FolderPaths(drop[d].read)
        PROVE  Made(d, p)'
    <3>1. Made(d, p)
        BY <2>2 DEF DropInv, StartedInv
    <3> QED
        BY <1>1, <3>1 DEF Made
  <2>3. SUFFICES ASSUME NEW d \in Drop, drop'[d].phase = "started"
                 PROVE  /\ \A f \in drop'[d].read :
                              mutation'[f] # "none" /\ target'[f] = drop'[d].at \o PathIn[f]
                        /\ \A p \in FolderPaths(drop'[d].read) : Made(d, p)'
      BY DEF StartedInv
  <2> QED
      BY <1>1, <2>1, <2>2, <2>3
<1> QED
    BY <1>2, <1>3, <1>4 DEF DropInv

LEMMA UploadBegun ==
    ASSUME NEW f \in File, UploadStep(f), DropTyped
    PROVE  /\ UNCHANGED target
           /\ mutation' \in [File -> Running \cup {"none", "success", "error"}]
           /\ \A g \in File : mutation'[g] = "none" <=> mutation[g] = "none"
<1> USE DEF DropTyped, Running
<1>1. CASE FileCreated(f)
    BY <1>1 DEF FileCreated
<1>2. CASE UploadEnds(f)
    BY <1>2 DEF UploadEnds, CreateFileFails, PostSucceeds, PostFails, Settle
<1>3. CASE CancelUpload(f)
    BY <1>3 DEF CancelUpload
<1>4. CASE Progress(f) \/ ToastTimer(f) \/ RemoveTimer(f)
    BY <1>4 DEF Progress, ToastTimer, RemoveTimer
<1> QED
    BY <1>1, <1>2, <1>3, <1>4 DEF UploadStep

(* The files of one drop start together, each in its place.                *)
LEMMA AllStarted ==
    ASSUME DropInv, NEW d \in Drop, NEW at, StartAll(d, at),
           drop[d].phase \in {"reading", "refreshing"},
           \A f \in drop[d].read : at[f] \in Folder /\ at[f] = drop[d].at \o PathIn[f],
           \A p \in FolderPaths(drop[d].read) : Made(d, p)
    PROVE  DropInv'
<1> DEFINE F == drop[d].read
<1>1. /\ drop' = [drop EXCEPT ![d].phase = "started"] /\ UNCHANGED <<folderId, folders>>
      /\ F \subseteq NotYet
      /\ mutation' = [f \in File |-> IF f \in F THEN "creating" ELSE mutation[f]]
      /\ target' = [f \in File |-> IF f \in F THEN at[f] ELSE target[f]]
    BY DEF StartAll, StartUpload, Set
<1>2. /\ drop' \in [Drop -> [phase : {"none", "reading", "stuck", "creating", "refreshing",
                                      "started", "failed"},
                    at : Open, read : SUBSET File, left : SUBSET File, map : SUBSET Folder]]
      /\ drop'[d].phase = "started" /\ drop'[d].read = F /\ drop'[d].at = drop[d].at
      /\ \A e \in Drop \ {d} : drop'[e] = drop[e]
    BY <1>1 DEF DropInv, DropTyped
<1>3. DropTyped'
    BY <1>1, <1>2 DEF DropInv, DropTyped, Running
<1>4. ASSUME NEW e \in Drop, drop'[e].phase \in UnderWay
      PROVE  e # d /\ drop'[e] = drop[e] /\ Has(e) \subseteq NotYet /\ Has(e) \cap F = {}
    BY <1>2, <1>4 DEF DropInv, DisjointInv, Has, UnderWay
<1>5. DisjointInv'
    BY <1>1, <1>4 DEF DropInv, DisjointInv, Has, NotYet
<1>6. MapInv'
    BY <1>1, <1>2 DEF DropInv, MapInv, Made
<1>7. StartedInv'
  <2>1. ASSUME NEW e \in Drop, e # d, drop'[e].phase = "started", NEW f \in drop'[e].read
        PROVE  mutation'[f] # "none" /\ target'[f] = drop'[e].at \o PathIn[f]
    <3>1. f \in File /\ mutation[f] # "none" /\ target[f] = drop[e].at \o PathIn[f]
        BY <1>2, <2>1 DEF DropInv, DropTyped, StartedInv
    <3>2. f \notin F
        BY <1>1, <3>1 DEF NotYet
    <3> QED
        BY <1>1, <1>2, <2>1, <3>1, <3>2
  <2>2. ASSUME NEW f \in F
        PROVE  mutation'[f] # "none" /\ target'[f] = drop[d].at \o PathIn[f]
      BY <1>1 DEF NotYet
  <2>3. ASSUME NEW e \in Drop, drop'[e].phase = "started",
               NEW p \in FolderPaths(drop'[e].read)
        PROVE  Made(e, p)'
    <3>1. Made(e, p)' <=> Made(e, p)
        BY <1>1, <1>2 DEF Made
    <3>2. CASE e = d
        BY <1>2, <2>3, <3>1, <3>2
    <3>3. CASE e # d
        BY <1>2, <2>3, <3>1, <3>3 DEF DropInv, StartedInv
    <3> QED
        BY <3>2, <3>3
  <2> QED
      BY <1>2, <2>1, <2>2, <2>3 DEF StartedInv
<1> QED
    BY <1>3, <1>5, <1>6, <1>7 DEF DropInv

-----------------------------------------------------------------------------
LEMMA DropInvInit == Init => DropInv
<1> SUFFICES ASSUME Init PROVE DropInv
    OBVIOUS
<1>1. /\ folderId \in Open /\ drop = [d \in Drop |-> NoDrop]
      /\ DOMAIN folders \subseteq Folder
      /\ target = [f \in File |-> Root] /\ mutation = [f \in File |-> "none"]
    BY DropZoneAssumption DEF Init, UploadsInit
<1>2. NoDrop \in [phase : {"none", "reading", "stuck", "creating", "refreshing",
                           "started", "failed"},
                  at : Open, read : SUBSET File, left : SUBSET File, map : SUBSET Folder]
    BY DropZoneAssumption DEF NoDrop
<1>3. DropTyped
    BY <1>1, <1>2, UploadsAssumption DEF DropTyped
<1>4. \A d \in Drop : drop[d].phase = "none"
    BY <1>1 DEF NoDrop
<1> QED
    BY <1>3, <1>4 DEF DropInv, DisjointInv, MapInv, StartedInv, UnderWay

(* One drop goes on, and may create a folder; the others do not notice.    *)
LEMMA OneDrop ==
    ASSUME DropInv, NEW d \in Drop, DropTyped', UNCHANGED <<mutation, target>>,
           \A e \in Drop \ {d} : drop'[e] = drop[e],
           \A x \in DOMAIN folders : x \in DOMAIN folders' /\ folders'[x] = folders[x],
           drop'[d].phase # "started",
           drop'[d].phase \in UnderWay =>
               /\ Has(d)' \subseteq NotYet
               /\ \A e \in Drop \ {d} : drop[e].phase \in UnderWay => Has(d)' \cap Has(e) = {},
           drop'[d].phase \in {"creating", "refreshing"} =>
               /\ <<>> \in drop'[d].map
               /\ \A p \in drop'[d].map \ {<<>>} : Made(d, p)'
               /\ drop'[d].phase = "refreshing" => FolderPaths(drop'[d].read) \subseteq drop'[d].map
    PROVE  DropInv'
<1>1. NotYet' = NotYet /\ \A e \in Drop \ {d} : Has(e)' = Has(e)
    BY DEF NotYet, Has
<1>2. ASSUME NEW e \in Drop \ {d}, NEW p, Made(e, p) PROVE Made(e, p)'
    BY <1>2 DEF Made
<1>3. DisjointInv'
    BY <1>1 DEF DropInv, DisjointInv, UnderWay
<1>4. MapInv'
    BY <1>2 DEF DropInv, MapInv
<1>5. StartedInv'
    BY <1>2 DEF DropInv, StartedInv
<1> QED
    BY <1>3, <1>4, <1>5 DEF DropInv

LEMMA WalkedFiles == ASSUME NEW d \in Drop PROVE Walked(d) \in SUBSET File
<1>1. Items[d] \in Seq(SUBSET File)
    BY DropZoneAssumption
<1> QED
    BY <1>1 DEF Walked

(* A folder is created below the one the drop made before, or its place.   *)
LEMMA PlaceIsBelow ==
    ASSUME DropInv, NEW d \in Drop, drop[d].phase = "creating", NEW p, NextPath(d, p)
    PROVE  Place(d, p) = drop[d].at \o p /\ drop[d].at \o p \in Folder /\ p # <<>>
<1>1. /\ drop[d].read \in SUBSET File /\ drop[d].at \in Open /\ <<>> \in drop[d].map
      /\ p \in FolderPaths(drop[d].read)
    BY DEF DropInv, DropTyped, MapInv, NextPath, Missing
<1>2. Front(p) \in drop[d].map
  <2>1. Len(p) \in Nat \ {0} /\ Len(Front(p)) = Len(p) - 1
      BY <1>1, FrontIsPath
  <2>2. Front(p) \notin Missing(d)
      BY <2>1 DEF NextPath
  <2> QED
      BY <1>1, <2>2, FrontIsPath DEF Missing
<1>3. Place(d, p) = (drop[d].at \o Front(p)) \o <<Last(p)>>
    BY <1>2 DEF Place, Lookup, Base
<1>4. p # <<>>
  <2>1. Len(p) # 0
      BY <1>1, FrontIsPath
  <2> QED
      BY <2>1
<1> QED
    BY <1>1, <1>3, <1>4, FrontIsPath
-----------------------------------------------------------------------------
LEMMA DropInvStep == DropInv /\ [Next]_vars => DropInv'
<1> SUFFICES ASSUME DropInv, [Next]_vars PROVE DropInv'
    OBVIOUS
<1>1. ASSUME NEW d \in Drop, HandleDrop(d) PROVE DropInv'
  <2>1. /\ Walked(d) \in SUBSET File /\ Walked(d) \subseteq NotYet \ Taken
        /\ drop' = [drop EXCEPT ![d] = [phase |-> "reading", at |-> folderId,
                                        read |-> {}, left |-> Walked(d), map |-> {}]]
        /\ UNCHANGED <<folderId, folders, mutation, target>>
      BY <1>1, WalkedFiles DEF HandleDrop, uploadVars
  <2>2. /\ DropTyped' /\ \A e \in Drop \ {d} : drop'[e] = drop[e]
        /\ drop'[d].phase = "reading" /\ Has(d)' = Walked(d)
      BY <2>1 DEF DropInv, DropTyped, Has
  <2>3. \A e \in Drop : drop[e].phase \in UnderWay => Has(e) \subseteq Taken
      BY DEF Taken, Has
  <2> QED
      BY <2>1, <2>2, <2>3, OneDrop
<1>2. ASSUME NEW d \in Drop, NEW f \in File, ReadFile(d, f) PROVE DropInv'
    BY <1>2 DEF ReadFile, uploadVars, DropInv, DropTyped, DisjointInv, MapInv, StartedInv,
                Has, Made, NotYet, UnderWay
<1>3. ASSUME NEW d \in Drop, ReadFails(d) PROVE DropInv'
  <2>1. /\ DropTyped' /\ \A e \in Drop \ {d} : drop'[e] = drop[e]
        /\ drop'[d].phase = "stuck" /\ UNCHANGED <<mutation, target, folders>>
      BY <1>3 DEF ReadFails, uploadVars, DropInv, DropTyped
  <2> QED
      BY <2>1, OneDrop DEF UnderWay
<1>4. ASSUME NEW d \in Drop, StartFlat(d) PROVE DropInv'
  <2> DEFINE at == [f \in drop[d].read |-> Base(d)]
  <2>1. drop[d].phase = "reading" /\ drop[d].at \in Open /\ drop[d].read \in SUBSET File
        /\ \A f \in drop[d].read : PathIn[f] = <<>>
      BY <1>4 DEF StartFlat, AllRead, IsNested, DropInv, DropTyped
  <2>2. \A f \in drop[d].read : at[f] \in Folder /\ at[f] = drop[d].at \o PathIn[f]
    <3>1. drop[d].at \in Seq(STRING) /\ drop[d].at \in Folder
        BY <2>1, DropZoneAssumption
    <3>2. drop[d].at \o <<>> = drop[d].at
        BY <3>1
    <3> QED
        BY <2>1, <3>1, <3>2 DEF Base
  <2>3. FolderPaths(drop[d].read) = {}
      BY <2>1 DEF FolderPaths
  <2>4. StartAll(d, at)
      BY <1>4 DEF StartFlat
  <2> HIDE DEF at
  <2> QED
      BY <2>1, <2>2, <2>3, <2>4, AllStarted
<1>5. ASSUME NEW d \in Drop, BeginFolders(d) PROVE DropInv'
  <2>1. /\ drop[d].phase = "reading"
        /\ DropTyped' /\ \A e \in Drop \ {d} : drop'[e] = drop[e]
        /\ drop'[d].phase = "creating" /\ drop'[d].map = {<<>>} /\ Has(d)' = Has(d)
        /\ UNCHANGED <<mutation, target, folders>>
      BY <1>5, DropZoneAssumption DEF BeginFolders, AllRead, uploadVars, DropInv, DropTyped, Has
  <2>2. /\ Has(d) \subseteq NotYet
        /\ \A e \in Drop \ {d} : drop[e].phase \in UnderWay => Has(d) \cap Has(e) = {}
      BY <2>1 DEF DropInv, DisjointInv, UnderWay
  <2> QED
      BY <2>1, <2>2, OneDrop
<1>6. ASSUME NEW d \in Drop, NEW p \in Folder, CreateFolder(d, p) PROVE DropInv'
  <2>1. /\ drop[d].phase = "creating" /\ NextPath(d, p) /\ Place(d, p) \notin DOMAIN folders
        /\ Created(d, p) /\ drop' = [drop EXCEPT ![d].map = @ \cup {p}]
        /\ UNCHANGED <<mutation, target, folderId>>
      BY <1>6 DEF CreateFolder, uploadVars
  <2>2. Place(d, p) = drop[d].at \o p /\ drop[d].at \o p \in Folder
      BY <2>1, PlaceIsBelow
  <2>3. /\ DOMAIN folders' = DOMAIN folders \cup {drop[d].at \o p}
        /\ folders'[drop[d].at \o p] = d
        /\ \A x \in DOMAIN folders : folders'[x] = folders[x]
      BY <2>1, <2>2 DEF Created
  <2>4. /\ DropTyped' /\ \A e \in Drop \ {d} : drop'[e] = drop[e]
        /\ drop'[d].phase = "creating" /\ drop'[d].map = drop[d].map \cup {p}
        /\ drop'[d].at = drop[d].at /\ Has(d)' = Has(d)
      BY <2>1, <2>2, <2>3 DEF DropInv, DropTyped, Has
  <2>5. /\ Has(d) \subseteq NotYet
        /\ \A e \in Drop \ {d} : drop[e].phase \in UnderWay => Has(d) \cap Has(e) = {}
      BY <2>1 DEF DropInv, DisjointInv, UnderWay
  <2>6. <<>> \in drop[d].map /\ \A q \in drop[d].map \ {<<>>} : Made(d, q)
      BY <2>1 DEF DropInv, MapInv
  <2>7. \A q \in drop'[d].map \ {<<>>} : Made(d, q)'
      BY <2>3, <2>4, <2>6 DEF Made
  <2> QED
      BY <2>1, <2>3, <2>4, <2>5, <2>6, <2>7, OneDrop
<1>7. ASSUME NEW d \in Drop, NEW p \in Folder, CreateFolderFails(d, p) PROVE DropInv'
  <2>1. /\ drop[d].phase = "creating" /\ NextPath(d, p)
        /\ folders' = folders \/ (Place(d, p) \notin DOMAIN folders /\ Created(d, p))
        /\ drop' = [drop EXCEPT ![d].phase = "failed"]
        /\ UNCHANGED <<mutation, target, folderId>>
      BY <1>7 DEF CreateFolderFails, uploadVars
  <2>2. Place(d, p) \in Folder
      BY <2>1, PlaceIsBelow
  <2>3. /\ DOMAIN folders \subseteq DOMAIN folders' /\ DOMAIN folders' \subseteq Folder
        /\ \A x \in DOMAIN folders : folders'[x] = folders[x]
      BY <2>1, <2>2 DEF Created, DropInv, DropTyped
  <2>4. /\ DropTyped' /\ \A e \in Drop \ {d} : drop'[e] = drop[e]
        /\ drop'[d].phase = "failed"
      BY <2>1, <2>3 DEF DropInv, DropTyped
  <2> QED
      BY <2>1, <2>3, <2>4, OneDrop DEF UnderWay
<1>8. ASSUME NEW d \in Drop, AllCreated(d) PROVE DropInv'
  <2>1. /\ drop[d].phase = "creating" /\ FolderPaths(drop[d].read) \subseteq drop[d].map
        /\ DropTyped' /\ \A e \in Drop \ {d} : drop'[e] = drop[e]
        /\ drop'[d].phase = "refreshing" /\ Has(d)' = Has(d) /\ drop'[d].map = drop[d].map
        /\ drop'[d].read = drop[d].read /\ drop'[d].at = drop[d].at
        /\ UNCHANGED <<mutation, target, folders>>
      BY <1>8 DEF AllCreated, Missing, uploadVars, DropInv, DropTyped, Has
  <2>2. /\ Has(d) \subseteq NotYet
        /\ \A e \in Drop \ {d} : drop[e].phase \in UnderWay => Has(d) \cap Has(e) = {}
      BY <2>1 DEF DropInv, DisjointInv, UnderWay
  <2>3. <<>> \in drop[d].map /\ \A q \in drop[d].map \ {<<>>} : Made(d, q) /\ Made(d, q)'
      BY <2>1 DEF DropInv, MapInv, Made
  <2> QED
      BY <2>1, <2>2, <2>3, OneDrop
<1>9. ASSUME NEW d \in Drop, StartNested(d) PROVE DropInv'
  <2> DEFINE at == [f \in drop[d].read |-> Lookup(d, PathIn[f])]
  <2>1. /\ drop[d].phase = "refreshing" /\ drop[d].at \in Open /\ drop[d].read \in SUBSET File
        /\ <<>> \in drop[d].map /\ FolderPaths(drop[d].read) \subseteq drop[d].map
        /\ \A p \in drop[d].map \ {<<>>} : Made(d, p)
      BY <1>9 DEF StartNested, DropInv, DropTyped, MapInv
  <2>2. ASSUME NEW f \in drop[d].read
        PROVE  at[f] \in Folder /\ at[f] = drop[d].at \o PathIn[f]
    <3>1. drop[d].at \in Seq(STRING) /\ drop[d].at \in Folder /\ PathIn[f] \in Seq(STRING)
        BY <2>1, DropZoneAssumption
    <3>2. PathIn[f] \in drop[d].map /\ drop[d].at \o PathIn[f] \in Folder
      <4>1. CASE PathIn[f] = <<>>
        <5>1. drop[d].at \o <<>> = drop[d].at
            BY <3>1
        <5> QED
            BY <2>1, <3>1, <4>1, <5>1
      <4>2. CASE PathIn[f] # <<>>
        <5>1. Len(PathIn[f]) \in 1 .. Len(PathIn[f])
            BY <3>1, <4>2
        <5>2. SubSeq(PathIn[f], 1, Len(PathIn[f])) = PathIn[f]
            BY <3>1
        <5>3. PathIn[f] \in FolderPaths(drop[d].read)
            BY <5>1, <5>2 DEF FolderPaths
        <5> QED
            BY <2>1, <5>3, FrontIsPath
      <4> QED
          BY <4>1, <4>2
    <3> QED
        BY <3>2 DEF Lookup, Base
  <2>3. \A p \in FolderPaths(drop[d].read) : Made(d, p)
    <3>1. \A p \in FolderPaths(drop[d].read) : Len(p) # 0
        BY <2>1, FrontIsPath
    <3> QED
        BY <2>1, <3>1
  <2>4. StartAll(d, at)
      BY <1>9 DEF StartNested
  <2> HIDE DEF at
  <2> QED
      BY <2>1, <2>2, <2>3, <2>4, AllStarted
<1>10. ASSUME NEW F \in SUBSET File, PickFiles(F) PROVE DropInv'
  <2>1. /\ F \subseteq NotYet /\ F \cap Taken = {} /\ UNCHANGED <<folderId, folders, drop>>
        /\ mutation' = [f \in File |-> IF f \in F THEN "creating" ELSE mutation[f]]
        /\ target' = [f \in File |-> IF f \in F THEN folderId ELSE target[f]]
      BY <1>10 DEF PickFiles, StartUpload, Set, dropVars
  <2>2. DropTyped'
      BY <2>1, DropZoneAssumption DEF DropInv, DropTyped, Running
  <2>3. \A e \in Drop : drop[e].phase \in UnderWay => Has(e) \subseteq Taken
      BY DEF Taken, Has
  <2>4. DisjointInv'
    <3>1. \A e \in Drop : Has(e)' = Has(e)
        BY <2>1 DEF Has
    <3> QED
        BY <2>1, <2>3, <3>1 DEF DropInv, DisjointInv, NotYet
  <2>5. MapInv'
      BY <2>1 DEF DropInv, MapInv, Made
  <2>6. StartedInv'
    <3>1. ASSUME NEW d \in Drop, drop[d].phase = "started", NEW f \in drop[d].read
          PROVE  mutation'[f] # "none" /\ target'[f] = drop[d].at \o PathIn[f]
      <4>1. f \in File /\ mutation[f] # "none" /\ target[f] = drop[d].at \o PathIn[f]
          BY <3>1 DEF DropInv, DropTyped, StartedInv
      <4>2. f \notin F
          BY <2>1, <4>1 DEF NotYet
      <4> QED
          BY <2>1, <4>1, <4>2
    <3>2. ASSUME NEW d \in Drop, drop[d].phase = "started", NEW p \in FolderPaths(drop[d].read)
          PROVE  Made(d, p)'
      <4>1. Made(d, p)
          BY <3>2 DEF DropInv, StartedInv
      <4> QED
          BY <2>1, <4>1 DEF Made
    <3> QED
        BY <2>1, <3>1, <3>2 DEF StartedInv
  <2> QED
      BY <2>2, <2>4, <2>5, <2>6 DEF DropInv
<1>11. ASSUME NEW p \in Folder, OpenFolder(p) PROVE DropInv'
  <2>1. UNCHANGED <<folders, drop, mutation, target>> /\ folderId' \in Open
      BY <1>11 DEF OpenFolder, uploadVars
  <2>2. DropTyped' /\ DisjointInv'
      BY <2>1 DEF DropInv, DropTyped, DisjointInv, Has, NotYet
  <2>3. MapInv' /\ StartedInv'
      BY <2>1 DEF DropInv, MapInv, StartedInv, Made
  <2> QED
      BY <2>2, <2>3 DEF DropInv
<1>12. ASSUME NEW f \in File, UploadStep(f), UNCHANGED dropVars PROVE DropInv'
    BY <1>12, UploadBegun, UploadsGoOn DEF DropInv
<1>13. CASE UNCHANGED vars
    BY <1>13, UploadsGoOn DEF vars, uploadVars, DropInv, DropTyped
<1> QED
    BY <1>1, <1>2, <1>3, <1>4, <1>5, <1>6, <1>7, <1>8, <1>9, <1>10, <1>11, <1>12, <1>13
       DEF Next, DropStep

(* Drops and uploads never leave their types.                              *)
THEOREM PageTypeCorrect == Spec => []TypeOK
<1> DEFINE Rest == progress \in [File -> BOOLEAN] /\ announced \in SUBSET File
<1>1. Init => Rest
    BY DEF Init, UploadsInit
<1>2. Rest /\ [Next]_vars => Rest'
  <2> SUFFICES ASSUME Rest, [Next]_vars PROVE Rest'
      OBVIOUS
  <2>1. ASSUME NEW F \in SUBSET File, NEW at, StartUpload(F, at) PROVE Rest'
      BY <2>1 DEF StartUpload
  <2>2. ASSUME NEW f \in File, UploadStep(f) PROVE Rest'
      BY <2>2 DEF UploadStep, UploadEnds, FileCreated, CreateFileFails, PostSucceeds, PostFails,
                  Settle, Progress, CancelUpload, ToastTimer, RemoveTimer
  <2>3. CASE UNCHANGED uploadVars
      BY <2>3 DEF uploadVars
  <2> QED
      BY <2>1, <2>2, <2>3, PageStep
<1>3. UploadsInv /\ DropInv /\ Rest => TypeOK
    BY DEF TypeOK, UploadsInv, UploadsTyped, DropInv, DropTyped, UploadsTypeOK
<1> QED
    BY <1>1, <1>2, <1>3, UploadsInvInit, UploadsStep, DropInvInit, DropInvStep, PTL DEF Spec

(* Every file of a drop goes to the folder it lay in, below the one the    *)
(* page showed at the drop (uploadWithFolders in DragDropZone.tsx).        *)
THEOREM DropsInPlace == Spec => []FilesInPlace
<1>1. DropInv => FilesInPlace
    BY DEF DropInv, StartedInv, FilesInPlace
<1> QED
    BY <1>1, DropInvInit, DropInvStep, PTL DEF Spec

(* No file of a drop is uploaded before every folder of it was created, by *)
(* the drop itself.                                                        *)
THEOREM DropsAreWhole == Spec => []WholeTree
<1>1. DropInv => WholeTree
    BY DEF DropInv, StartedInv, DisjointInv, Has, Made, WholeTree
<1> QED
    BY <1>1, DropInvInit, DropInvStep, PTL DEF Spec
=============================================================================
