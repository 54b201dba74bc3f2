----------------------------- MODULE PageProofs ------------------------------
(***************************************************************************)
(* Parts of the pages whose state is small and whose order of events is    *)
(* not: for any items, names, people and pages, and any number of requests *)
(* under way.  Each theorem names the invariant it needs and goes through  *)
(* the actions of one part.                                                *)
(***************************************************************************)
EXTENDS DragOverlay, RowDialogs, ShareDialog, BucketSettings, SignIn, TLAPS

OverlaySpec == OverlayInit /\ [][OverlayNext]_overlayVars
DialogSpec == DialogInit /\ [][DialogNext]_dialogVars
ShareSpec == ShareInit /\ [][ShareNext]_shareVars
SettingsSpec == SettingsInit /\ [][SettingsNext]_settingsVars
SignInSpec == SignInInit /\ [][SignInNext]_signInVars

-----------------------------------------------------------------------------
(* The counter is behind only for elements that went away.                 *)
OverlayInv ==
    /\ OverlayTypeOK /\ OverlayWhileOver
    /\ dragCounter >= over
    /\ dragCounter > over => vanished
    /\ isDragOver => dragCounter > 0

LEMMA OverlayInvInit == OverlayInit => OverlayInv
<1> USE DragOverlayAssumption DEF OverlayInv, OverlayTypeOK, OverlayWhileOver
<1> SUFFICES ASSUME OverlayInit PROVE OverlayInv
    OBVIOUS
<1>1. over = 0 /\ dragCounter = 0 /\ carriesFiles = FALSE /\ isDragOver = FALSE /\ vanished = FALSE
    BY DEF OverlayInit
<1>2. over \in 0 .. 2 /\ dragCounter \in 0 .. MaxEntered /\ ~(over > 0) /\ ~(dragCounter > over)
      /\ dragCounter >= over
    BY <1>1
<1> QED
    BY <1>1, <1>2

LEMMA OverlayInvStep == OverlayInv /\ [OverlayNext]_overlayVars => OverlayInv'
<1> USE DragOverlayAssumption DEF OverlayInv, OverlayTypeOK, OverlayWhileOver
<1> SUFFICES ASSUME OverlayInv, [OverlayNext]_overlayVars PROVE OverlayInv'
    OBVIOUS
<1>1. CASE DragEnter
    BY <1>1 DEF DragEnter
<1>2. CASE DragLeave
  <2>1. /\ over' = over - 1 /\ dragCounter' = dragCounter - 1 /\ carriesFiles' = carriesFiles
        /\ isDragOver' = (isDragOver /\ dragCounter' > 0)
        /\ vanished' = (vanished /\ dragCounter' > 0) /\ over > 0
      BY <1>2 DEF DragLeave
  <2>2. over' \in 0 .. 2 /\ dragCounter' \in 0 .. MaxEntered /\ dragCounter' >= over'
      BY <2>1
  <2>3. CASE dragCounter' > 0
    <3>1. isDragOver' = isDragOver /\ vanished' = vanished
        BY <2>1, <2>3
    <3>2. over > 0 /\ (dragCounter' > over' => dragCounter > over) /\ (over' = 0 => dragCounter > over)
        BY <2>1, <2>2, <2>3
    <3> QED
        BY <2>1, <2>2, <2>3, <3>1, <3>2
  <2>4. CASE ~(dragCounter' > 0)
    <3>1. isDragOver' = FALSE /\ vanished' = FALSE
        BY <2>1, <2>4
    <3>2. ~(over' > 0) /\ ~(dragCounter' > over')
        BY <2>2, <2>4
    <3> QED
        BY <2>1, <2>2, <3>1, <3>2
  <2> QED
      BY <2>3, <2>4
<1>3. CASE Vanish
    BY <1>3 DEF Vanish
<1>4. CASE DropReset
  <2>1. /\ over' = 0 /\ dragCounter' = 0 /\ carriesFiles' = carriesFiles
        /\ isDragOver' = FALSE /\ vanished' = FALSE
      BY <1>4 DEF DropReset
  <2>2. over' \in 0 .. 2 /\ dragCounter' \in 0 .. MaxEntered /\ ~(over' > 0)
        /\ ~(dragCounter' > over') /\ dragCounter' >= over'
      BY <2>1
  <2> QED
      BY <2>1, <2>2
<1>5. CASE UNCHANGED overlayVars
    BY <1>5 DEF overlayVars
<1> QED
    BY <1>1, <1>2, <1>3, <1>4, <1>5 DEF OverlayNext

(* The overlay of DragDropZone.tsx is there while files are over the zone. *)
THEOREM OverlayFollows == OverlaySpec => []OverlayWhileOver
<1>1. OverlayInv => OverlayWhileOver
    BY DEF OverlayInv
<1> QED
    BY <1>1, OverlayInvInit, OverlayInvStep, PTL DEF OverlaySpec

-----------------------------------------------------------------------------
(* What happened to a bucket by how far its creation is, and that it is    *)
(* listed after a success unless the list is about to be fetched.          *)
ShareInv ==
    /\ shareWith \in Shares /\ cardShareWith \in Shares
    /\ creations \in [Bucket -> Creation]
    /\ bucketMembers \in [Bucket -> Shares]
    /\ ShareHolds
    /\ \A b \in Bucket :
          /\ creations[b].step \in {"none", "post", "put"} => bucketMembers[b] = Nobody
          /\ creations[b].step = "done" => \A i \in Invitee : creations[b].members[i] # "remove"
          /\ creations[b].step \in {"put", "done", "success"} => b \in created

(* What the dialog of AppSidebar.tsx sends is what it showed, and a bucket *)
(* is shared with nobody but those chosen for it, at the right chosen;     *)
(* those UpdateBucketMembers skips are missing without a word.             *)
THEOREM SharedAsChosen == ShareSpec => []ShareHolds
<1> USE DEF ShareInv, ShareHolds, Shares, Creation
<1>1. ShareInit => ShareInv
    BY DEF ShareInit, Nobody
<1>2. ShareInv /\ [ShareNext]_shareVars => ShareInv'
  <2> SUFFICES ASSUME ShareInv, [ShareNext]_shareVars PROVE ShareInv'
      OBVIOUS
  <2>1. CASE OpenDialog \/ CloseDialog
    <3>1. CASE OpenDialog
        BY <3>1 DEF OpenDialog, shareServer
    <3>2. CASE CloseDialog
      <4>1. cancelled' <=> shareWith # Nobody
          BY <3>2 DEF CloseDialog
      <4> QED
          BY <3>2, <4>1 DEF CloseDialog, shareServer
    <3> QED
        BY <2>1, <3>1, <3>2
  <2>2. ASSUME NEW i \in Invitee, NEW g \in Right \cup {"remove", "none"}, dialogOpen,
               UpdateShareWith([cardShareWith EXCEPT ![i] = g])
        PROVE  ShareInv'
      BY <2>2 DEF UpdateShareWith, shareServer
  <2>3. ASSUME NEW b \in Bucket, SubmitDialog(b) PROVE ShareInv'
      BY <2>3 DEF SubmitDialog, shareServer, Nobody
  <2>4. ASSUME NEW b \in Bucket, BucketPosted(b) PROVE ShareInv'
      BY <2>4 DEF BucketPosted, Steps, dialog
  (* Whichever of the people chosen the server takes.                      *)
  <2>s. ASSUME NEW b \in Bucket, Shared(b)
        PROVE  /\ bucketMembers' \in [Bucket -> Shares]
               /\ \A i \in Invitee :
                     /\ creations[b].members[i] # "remove"
                     /\ bucketMembers'[b][i] \in {"none", creations[b].members[i]} \ {"remove"}
               /\ \A c \in Bucket \ {b} : bucketMembers'[c] = bucketMembers[c]
    <3>1. PICK added \in SUBSET Invitee :
             bucketMembers' = [bucketMembers EXCEPT ![b] =
                 [i \in Invitee |-> IF i \in added THEN creations[b].members[i] ELSE "none"]]
        BY <2>s DEF Shared
    <3> DEFINE m == [i \in Invitee |-> IF i \in added THEN creations[b].members[i] ELSE "none"]
    <3>2. m \in Shares
        OBVIOUS
    <3>3. \A i \in Invitee : m[i] \in {"none", creations[b].members[i]}
        OBVIOUS
    <3>4. \A i \in Invitee : creations[b].members[i] # "remove"
        BY <2>s DEF Shared
    <3> HIDE DEF m
    <3> QED
        BY <3>1, <3>2, <3>3, <3>4 DEF m
  <2>5. ASSUME NEW b \in Bucket, MembersPut(b) PROVE ShareInv'
    <3>1. /\ creations' = [creations EXCEPT ![b].step = "done"] /\ creations[b].step = "put"
          /\ UNCHANGED <<dialogOpen, shareWith, cardShareWith, cancelled, created, bucketsListed,
                         bucketsFetch>>
        BY <2>5 DEF MembersPut, Steps, dialog
    <3>2. Shared(b)
        BY <2>5 DEF MembersPut
    <3>3. /\ creations' \in [Bucket -> Creation]
          /\ creations'[b].step = "done" /\ creations'[b].members = creations[b].members
          /\ \A c \in Bucket \ {b} : creations'[c] = creations[c]
        BY <3>1
    <3>4. /\ bucketMembers' \in [Bucket -> Shares]
          /\ \A c \in Bucket \ {b} : bucketMembers'[c] = bucketMembers[c]
          /\ \A i \in Invitee :
                bucketMembers'[b][i] \in {"none", creations[b].members[i]} \ {"remove"}
        BY <2>s, <3>2
    <3>5. ShareHolds'
        BY <3>1, <3>3, <3>4, <2>s, <3>2
    <3> QED
        BY <3>1, <3>3, <3>4, <3>5, <2>s, <3>2
  <2>6. ASSUME NEW b \in Bucket, CreationFails(b) PROVE ShareInv'
    <3>1. /\ creations' = [creations EXCEPT ![b].step = "error"]
          /\ creations[b].step \in {"post", "put"} /\ created \subseteq created'
          /\ UNCHANGED <<dialogOpen, shareWith, cardShareWith, cancelled, bucketsListed, bucketsFetch>>
        BY <2>6 DEF CreationFails, Steps, dialog
    <3>2. Shared(b) \/ UNCHANGED bucketMembers
        BY <2>6 DEF CreationFails
    <3>3. /\ creations' \in [Bucket -> Creation]
          /\ creations'[b].step = "error" /\ creations'[b].members = creations[b].members
          /\ \A c \in Bucket \ {b} : creations'[c] = creations[c]
        BY <3>1
    <3>4. /\ bucketMembers' \in [Bucket -> Shares]
          /\ \A c \in Bucket \ {b} : bucketMembers'[c] = bucketMembers[c]
          /\ \A i \in Invitee :
                bucketMembers'[b][i] \in {"none", creations[b].members[i]} \ {"remove"}
        BY <2>s, <3>2
    <3>5. ShareHolds'
        BY <3>1, <3>3, <3>4
    <3> QED
        BY <3>1, <3>3, <3>4, <3>5
  <2>7. ASSUME NEW b \in Bucket, CreationSucceeds(b) PROVE ShareInv'
      BY <2>7 DEF CreationSucceeds, Steps, dialog
  <2>8. CASE BucketsFetched
      BY <2>8 DEF BucketsFetched, dialog
  <2>9. CASE UNCHANGED shareVars
      BY <2>9 DEF shareVars
  <2> QED
      BY <2>1, <2>2, <2>3, <2>4, <2>5, <2>6, <2>7, <2>8, <2>9
         DEF ShareNext, AddEmail, SetGroup, RemoveFromList
<1>3. ShareInv => ShareHolds
    OBVIOUS
<1> QED
    BY <1>1, <1>2, <1>3, PTL DEF ShareSpec

-----------------------------------------------------------------------------
(* Without strays there is one PATCH at a time, of the name saved last;    *)
(* what was read is true unless that PATCH has changed it; and the draft   *)
(* is the name saved last or the one the cache still has.                  *)
RenameInv ==
    /\ patches \subseteq Patch /\ bucketName \in BucketName
    /\ {cachedName, readName} \subseteq BucketName /\ name \in BucketName \cup {"gone"}
    /\ nameFetch \in {"idle", "sent", "read"}
    /\ name = "gone" => deletion = "done"
    /\ deletion # "done" /\ ~strayName =>
          /\ \A p, q \in patches : p = q
          /\ \A p \in patches : p.to = lastSaved /\ (p.phase = "done" => name = lastSaved)
          /\ patches # {} => bucketName \in {lastSaved, cachedName}
          /\ patches = {} =>
                /\ name = lastSaved
                /\ nameFetch = "read" => readName = name
                /\ nameFetch = "idle" => cachedName = name
                /\ ~isEditingName => bucketName \in {name, cachedName}

(* A rename that nothing came across is what server and settings page have *)
(* once all is quiet (useBucketInformation.ts).                            *)
THEOREM RenameIsKept == SettingsSpec => []RenameKept
<1> USE DEF RenameInv, Patch
<1>1. SettingsInit => RenameInv
  <2> SUFFICES ASSUME SettingsInit PROVE RenameInv
      OBVIOUS
  <2>1. name \in BucketName /\ name = lastSaved /\ cachedName = name /\ bucketName = name
        /\ readName = name /\ patches = {} /\ nameFetch = "idle" /\ deletion = "no"
      BY BucketSettingsAssumption DEF SettingsInit
  <2>2. name # "gone"
      BY <2>1, BucketSettingsAssumption
  <2> QED
      BY <2>1, <2>2
<1>2. RenameInv /\ [SettingsNext]_settingsVars => RenameInv'
  <2> SUFFICES ASSUME RenameInv, [SettingsNext]_settingsVars PROVE RenameInv'
      OBVIOUS
  <2>1. CASE EditName \/ HandleCancelName
      BY <2>1 DEF EditName, HandleCancelName, deleting
  <2>2. ASSUME NEW v \in BucketName, TypeName(v) \/ RenamedElsewhere(v) \/ TypeConfirmation(v)
        PROVE  RenameInv'
    <3>1. CASE TypeName(v)
      <4>1. strayName' <=> strayName \/ patches # {}
          BY <3>1 DEF TypeName
      <4> QED
          BY <3>1, <4>1 DEF TypeName, deleting
    <3>2. CASE RenamedElsewhere(v)
        BY <3>2, BucketSettingsAssumption DEF RenamedElsewhere, deleting
    <3>3. CASE TypeConfirmation(v)
        BY <3>3 DEF TypeConfirmation
    <3> QED
        BY <2>2, <3>1, <3>2, <3>3
  <2>3. ASSUME NEW n \in 1 .. MaxPatches, HandleSaveName(n) PROVE RenameInv'
    <3>1. CASE bucketName = cachedName
        BY <2>3, <3>1 DEF HandleSaveName, deleting
    <3>2. CASE bucketName # cachedName
      <4>1. strayName' <=> strayName \/ patches # {}
          BY <2>3, <3>2 DEF HandleSaveName
      <4> DEFINE sent == [n |-> n, to |-> bucketName, phase |-> "sent"]
      <4>2. sent \in Patch /\ sent.to = bucketName /\ sent.phase = "sent"
          BY DEF Patch
      <4>3. /\ patches' = patches \cup {sent} /\ lastSaved' = bucketName
            /\ UNCHANGED <<name, cachedName, bucketName, isEditingName, nameFetch, readName, deletion>>
          BY <2>3, <3>2 DEF HandleSaveName, deleting
      <4> HIDE DEF sent
      <4> QED
          BY <4>1, <4>2, <4>3
    <3> QED
        BY <3>1, <3>2
  <2>4. ASSUME NEW p \in patches, PatchServed(p) PROVE RenameInv'
    <3>1. [p EXCEPT !.phase = "done"] \in Patch /\ [p EXCEPT !.phase = "done"].to = p.to
          /\ p.to \in BucketName
        BY DEF Patch
    <3> DEFINE done == [p EXCEPT !.phase = "done"]
    <3>2. /\ name' = p.to /\ patches' = (patches \ {p}) \cup {done} /\ done \in Patch
          /\ done.to = p.to /\ name # "gone"
          /\ UNCHANGED <<cachedName, bucketName, isEditingName, nameFetch, readName, deletion,
                         lastSaved, strayName>>
        BY <2>4, <3>1 DEF PatchServed, deleting
    <3> HIDE DEF done
    <3> QED
        BY <3>1, <3>2, BucketSettingsAssumption
  <2>5. ASSUME NEW p \in patches, PatchFails(p) \/ PatchAnswered(p) PROVE RenameInv'
      BY <2>5 DEF PatchFails, PatchAnswered, deleting
  <2>6. CASE NameRead \/ NameFetched
      BY <2>6 DEF NameRead, NameFetched, deleting
  <2>7. CASE deletion # "done" /\ (HandleDeleteBucket \/ DeletionAnswered)
      BY <2>7 DEF HandleDeleteBucket, DeletionAnswered
  <2>8. CASE UNCHANGED settingsVars
      BY <2>8 DEF settingsVars
  <2> QED
      BY <2>1, <2>2, <2>3, <2>4, <2>5, <2>6, <2>7, <2>8 DEF SettingsNext
<1>3. RenameInv => RenameKept
    BY DEF RenameKept
<1> QED
    BY <1>1, <1>2, <1>3, PTL DEF SettingsSpec
-----------------------------------------------------------------------------
(* A dialog belongs to a component that is rendered: a place of the list,  *)
(* an item of the grid, or the trash; only the first can change its item.  *)
DialogInv ==
    /\ asked # NoDialog =>
          /\ viewMode \in Mode
          /\ viewMode = "trash" => asked.key = <<"view">>
          /\ viewMode # "trash" => \E n \in DOMAIN tableRows : Key(tableRows, n) = asked.key
          /\ viewMode = "grid" => asked.key = <<"item", asked.chosen>>
          /\ viewMode = "list" /\ ~moved =>
                \E n \in DOMAIN tableRows : asked.key = <<"row", n>> /\ tableRows[n] = asked.chosen
    /\ viewMode \in Mode
    /\ confirmed # NoDialog =>
          (confirmed.item # confirmed.chosen => confirmed.in = "list" /\ confirmed.moved)

LEMMA DialogInvInit == DialogInit => DialogInv
    BY DEF DialogInit, DialogInv, Mode

(* The name a dialog shows is that of its row, which is there; the item it *)
(* was opened for is another one only where the rows of a list have moved. *)
LEMMA DialogNames ==
    ASSUME DialogInv, Visible
    PROVE  /\ asked # NoDialog
           /\ viewMode # "trash" =>
                \E n \in DOMAIN tableRows : Key(tableRows, n) = asked.key /\ Named = tableRows[n]
           /\ Named # asked.chosen => viewMode = "list" /\ moved
<1> USE DEF DialogInv, Mode
<1>1. asked # NoDialog
    BY DEF Visible
<1>2. CASE viewMode = "trash"
    BY <1>1, <1>2 DEF Named
<1>3. CASE viewMode # "trash"
  <2> DEFINE n == CHOOSE n \in DOMAIN tableRows : Key(tableRows, n) = asked.key
  <2>1. n \in DOMAIN tableRows /\ Key(tableRows, n) = asked.key
      BY <1>1, <1>3
  <2>2. Named = tableRows[n]
      BY <1>3 DEF Named
  <2> HIDE DEF n
  <2>3. CASE viewMode = "grid"
    <3>1. <<"item", tableRows[n]>> = <<"item", asked.chosen>>
        BY <1>1, <2>1, <2>3 DEF Key
    <3> QED
        BY <1>1, <1>3, <2>1, <2>2, <3>1
  <2>4. CASE viewMode = "list" /\ ~moved
    <3>1. PICK m \in DOMAIN tableRows : asked.key = <<"row", m>> /\ tableRows[m] = asked.chosen
        BY <1>1, <2>4
    <3>2. <<"row", n>> = <<"row", m>>
        BY <2>1, <2>4, <3>1 DEF Key
    <3> QED
        BY <1>1, <1>3, <2>1, <2>2, <3>1, <3>2
  <2> QED
      BY <1>1, <1>3, <2>1, <2>2, <2>3, <2>4
<1> QED
    BY <1>2, <1>3

LEMMA DialogInvStep == DialogInv /\ [DialogNext]_dialogVars => DialogInv'
<1> USE DEF DialogInv, Mode
<1> SUFFICES ASSUME DialogInv, [DialogNext]_dialogVars PROVE DialogInv'
    OBVIOUS
<1>1. ASSUME NEW n \in DOMAIN tableRows, Ask(n) PROVE DialogInv'
  <2>1. /\ asked' = [key |-> Key(tableRows, n), chosen |-> tableRows[n]]
        /\ asked'.key = Key(tableRows, n) /\ asked'.chosen = tableRows[n]
        /\ UNCHANGED <<viewMode, tableRows, confirmed>>
      BY <1>1 DEF Ask
  <2>2. /\ viewMode = "list" => Key(tableRows, n) = <<"row", n>>
        /\ viewMode = "grid" => Key(tableRows, n) = <<"item", tableRows[n]>>
        /\ viewMode = "trash" => Key(tableRows, n) = <<"view">>
        /\ Key(tableRows, n)' = Key(tableRows, n)
      BY <2>1 DEF Key
  <2> QED
      BY <2>1, <2>2
<1>2. CASE Cancel
    BY <1>2 DEF Cancel
<1>3. CASE Confirm
  <2>1. /\ confirmed' = [item |-> Named, chosen |-> asked.chosen, in |-> viewMode, moved |-> moved]
        /\ asked' = NoDialog /\ UNCHANGED viewMode /\ Visible
      BY <1>3 DEF Confirm
  <2> QED
      BY DialogNames, <2>1
<1>4. CASE PermissionChanges
    BY <1>4 DEF PermissionChanges, Key
<1>5. ASSUME NEW s \in Arrangements, RowsChange(s) PROVE DialogInv'
  <2>1. /\ tableRows' = s /\ UNCHANGED <<viewMode, confirmed>>
        /\ moved' = (asked' # NoDialog)
        /\ asked' # NoDialog => asked' = asked /\ asked # NoDialog
      BY <1>5 DEF RowsChange
  <2>2. ASSUME asked' # NoDialog, viewMode # "trash"
        PROVE  \E n \in DOMAIN s : Key(s, n) = asked.key
    <3>1. asked.key # <<"view">>
      <4>1. PICK n \in DOMAIN tableRows : Key(tableRows, n) = asked.key
          BY <2>1, <2>2
      <4>2. \A a, b : <<a, b>> # <<"view">>
          OBVIOUS
      <4>3. asked.key = <<"row", n>> \/ asked.key = <<"item", tableRows[n]>>
          BY <2>2, <4>1 DEF Key
      <4> QED
          BY <4>2, <4>3
    <3> QED
        BY <1>5, <2>2, <3>1 DEF RowsChange
  <2>3. \A n : Key(s, n)' = Key(s, n)
      BY <2>1 DEF Key
  <2> QED
      BY <2>1, <2>2, <2>3
<1>6. ASSUME NEW v \in Mode, ShowView(v) PROVE DialogInv'
    BY <1>6 DEF ShowView
<1>7. CASE UNCHANGED dialogVars
    BY <1>7 DEF dialogVars, Key
<1> QED
    BY <1>1, <1>2, <1>3, <1>4, <1>5, <1>6, <1>7 DEF DialogNext

(* What FileActions.tsx and BucketTrashView.tsx delete is what they asked  *)
(* about, except after the rows of the list have moved.                    *)
THEOREM DialogsHold == DialogSpec => []DialogHolds
<1>1. DialogInv => DialogHolds
    BY DialogNames DEF DialogHolds, DialogInv
<1> QED
    BY <1>1, DialogInvInit, DialogInvStep, PTL DEF DialogSpec

-----------------------------------------------------------------------------
(* Posts that are mounted are of the form that is shown, which is busy for *)
(* all but the invite's; and the page that was refused is with the login   *)
(* page and with what it posted, until the user does something else.       *)
Form == [step : {"first", "password", "success"}, email : Email,
         edited : BOOLEAN, busy : BOOLEAN]

LeftBehind(P) ==
    /\ P \subseteq Post
    /\ \A p \in P : /\ p.mounted = FALSE /\ p.at \in {"login", "reset", "code", "invite", "accept"}
                    /\ p.at = "login" /\ p.email = "provider" => p.edited

SignInInv ==
    /\ SignInHolds
    /\ posts \subseteq Post /\ form \in Form
    /\ place \in [at : Route, target : Target \cup {NoTarget}]
    /\ \A p \in posts :
          p.at \in {"login", "reset", "code", "invite", "accept"}
          /\ (p.mounted => p.at = place.at /\ (p.at # "invite" => form.busy))
    /\ wanted # NoTarget =>
          /\ place.at \in {"login", "home"} /\ place.target = wanted
          /\ \A p \in posts : p.mounted => p.target = wanted
    /\ form.step = "password" /\ form.email = "provider" => form.edited
(* A page behind the guard of route-guards.ts needs a session, a login     *)
(* leads to the page that was refused, and no form but the invite's posts  *)
(* twice at once.                                                          *)
THEOREM SignInIsSound == SignInSpec => []SignInHolds
<1> USE DEF SignInInv, SignInHolds
<1>1. SignInInit => SignInInv
    BY SignInAssumption DEF SignInInit, Blank, Form, Email, Route
<1>2. SignInInv /\ [SignInNext]_signInVars => SignInInv'
  <2> SUFFICES ASSUME SignInInv, [SignInNext]_signInVars PROVE SignInInv'
      OBVIOUS
  (* Whoever is sent elsewhere leaves the posts of the page behind.        *)
  <2>0. ASSUME NEW P \in SUBSET posts, Unmounted(P) PROVE LeftBehind(posts')
    <3> DEFINE U(q) == [q EXCEPT !.mounted = FALSE]
    <3>1. ASSUME NEW q \in P
          PROVE  /\ U(q) \in Post /\ U(q).mounted = FALSE
                 /\ U(q).at = q.at /\ U(q).email = q.email /\ U(q).edited = q.edited
      <4>1. q \in Post
          BY <3>1
      <4>2. U(q) \in Post
          BY <4>1 DEF Post
      <4>3. U(q).mounted = FALSE /\ U(q).at = q.at /\ U(q).email = q.email
          BY <4>1 DEF Post
      <4>4. U(q).edited = q.edited
          BY <4>1 DEF Post
      <4> QED
          BY <4>2, <4>3, <4>4
    <3>2. posts' = {U(q) : q \in P}
        BY <2>0 DEF Unmounted
    <3>3. \A q \in P : /\ q.at \in {"login", "reset", "code", "invite", "accept"}
                       /\ q.at = "login" /\ q.email = "provider" => q.edited
        OBVIOUS
    <3> HIDE DEF U
    <3>4. ASSUME NEW p \in posts'
          PROVE  /\ p \in Post
                 /\ p.mounted = FALSE /\ p.at \in {"login", "reset", "code", "invite", "accept"}
                 /\ p.at = "login" /\ p.email = "provider" => p.edited
      <4>1. PICK q \in P : p = U(q)
          BY <3>2
      <4> QED
          BY <3>1, <3>3, <4>1
    <3> QED
        BY <3>4 DEF LeftBehind
  <2>e. ASSUME NEW r \in Route, NEW t \in Target \cup {NoTarget}, Enter(r, t), LeftBehind(posts'),
               r = "home" => context',
               wanted' # NoTarget => r \in {"login", "home"} /\ t = wanted'
        PROVE  SignInInv'
    <3>1. /\ place' = [at |-> r, target |-> t] /\ place'.at = r /\ place'.target = t
          /\ place' \in [at : Route, target : Target \cup {NoTarget}]
          /\ form' = Blank /\ form' \in Form /\ form'.step = "first"
        BY <2>e DEF Enter, Blank, Form, Email
    <3> QED
        BY <2>e, <3>1 DEF LeftBehind
  <2>g. ASSUME NEW t \in Target, Guard(t), LeftBehind(posts') PROVE SignInInv'
    <3>1. CASE context'
        BY <2>e, <2>g, <3>1 DEF Guard, Route
    <3>2. CASE ~context'
        BY <2>e, <2>g, <3>2 DEF Guard, Route
    <3> QED
        BY <3>1, <3>2
  <2>1. ASSUME NEW t \in Target, Open(t) PROVE SignInInv'
      BY <2>0, <2>g, <2>1 DEF Open
  <2>2. CASE LoadPage
      BY <2>e, <2>g, <2>2 DEF LoadPage, LeftBehind, Route
  <2>3. CASE FollowLink
      BY <2>0, <2>e, <2>3 DEF FollowLink, Route
  <2>4. CASE LeaveHome
      BY <2>4 DEF LeaveHome, Enter, Blank, Form, Email, Route
  <2>5. CASE ToProvider
      BY <2>e, <2>5 DEF ToProvider, LeftBehind, Route
  <2>6. CASE CompleteAuth
      BY <2>6, SignInAssumption DEF CompleteAuth, Enter, Blank, Form, Email, Route
  <2>7. ASSUME NEW e \in Email, TypeEmail(e) PROVE SignInInv'
      BY <2>7 DEF TypeEmail, Form
  <2>8. CASE ContinueLogin /\ ~ToProvider
      BY <2>8 DEF ContinueLogin, Form
  <2>9. ASSUME NEW n \in 1 .. MaxSent, NEW busy \in BOOLEAN, Submits(n, busy),
               place.at \in {"login", "reset", "code", "accept", "invite"},
               place.at # "invite" => busy,
               place.at = "login" => form.step = "password"
        PROVE  SignInInv'
    <3> DEFINE new == [n |-> n, at |-> place.at, target |-> place.target,
                       email |-> form.email, edited |-> form.edited, mounted |-> TRUE]
    <3>1. place.at \in Route /\ place.target \in Target \cup {NoTarget}
          /\ form.email \in Email /\ form.edited \in BOOLEAN
        BY DEF Form
    <3>2. new \in Post
        BY <3>1 DEF Post
    <3>3. new.at = place.at /\ new.target = place.target /\ new.email = form.email /\ new.mounted = TRUE
        OBVIOUS
    <3>4. new.edited = form.edited
        OBVIOUS
    <3>5. form' \in Form /\ form'.busy = busy /\ form'.step = form.step /\ form'.email = form.email
        BY <2>9 DEF Submits, Form
    <3>6. form'.edited = form.edited
        BY <2>9 DEF Submits, Form
    <3>7. posts' = posts \cup {new} /\ ~form.busy
          /\ UNCHANGED <<place, cookies, context, timer, wanted>>
        BY <2>9 DEF Submits
    <3> HIDE DEF new
    <3>8. \A p \in posts : p.mounted => p.at = "invite" /\ place.at = "invite"
        BY <3>7
    <3>9. new.at = "login" /\ new.email = "provider" => new.edited
        BY <2>9, <3>3, <3>4
    <3>10. \A p, q \in posts' : p.mounted /\ q.mounted /\ p.at # "invite" => p = q
        BY <3>3, <3>7, <3>8
    <3>11. SignInHolds'
        BY <3>7, <3>9, <3>10
    <3> QED
        BY <2>9, <3>2, <3>3, <3>5, <3>6, <3>7, <3>8, <3>11
  <2>10. ASSUME NEW p \in posts, LoginAnswered(p) PROVE SignInInv'
      BY <2>0, <2>e, <2>10, SignInAssumption DEF LoginAnswered, SignedIn, Route, Post
  <2>11. ASSUME NEW p \in posts, FormAnswered(p) PROVE SignInInv'
      BY <2>11 DEF FormAnswered, Form
  <2>12. ASSUME NEW p \in posts, FormFails(p) PROVE SignInInv'
      BY <2>12 DEF FormFails, Form
  <2>13. CASE TimerFires
      BY <2>0, <2>g, <2>13, SignInAssumption DEF TimerFires
  <2>14. CASE UNCHANGED signInVars
      BY <2>14 DEF signInVars
  <2> QED
      BY <2>1, <2>2, <2>3, <2>4, <2>5, <2>6, <2>7, <2>8, <2>9, <2>10, <2>11, <2>12, <2>13, <2>14
         DEF SignInNext, ProviderButton, ContinueLogin, SubmitLogin, SubmitReset, SubmitCode,
             SubmitInvite, SubmitAccept
<1>3. SignInInv => SignInHolds
    OBVIOUS
<1> QED
    BY <1>1, <1>2, <1>3, PTL DEF SignInSpec
=============================================================================
