--------------------------- MODULE WebPartsProofs ---------------------------
(***************************************************************************)
(* The other parts of the pages, for any people, fields, themes, entries   *)
(* and trees: what a form saves, what a save leaves, which style is there, *)
(* what a feed and the views of a bucket show; and the types of the parts. *)
(***************************************************************************)
EXTENDS MCWebParts, PageProofs, BucketPageProofs, FiniteSetTheorems, TLAPS

MembersFormSpec == MembersFormInit /\ [][MembersFormNext]_membersFormVars
ProfileSpec == ProfileInit /\ [][ProfileNext]_profileVars
ThemeSpec == ThemeInit /\ [][ThemeNext]_themeVars
ListingSpec == ListingInit /\ [][ListingNext]_listingVars
FeedSpec == FeedInit /\ [][FeedNext]_feedVars

-----------------------------------------------------------------------------
(* The members of a bucket.  Unless others changed them or a save failed,  *)
(* what was read after the last save is what the server has; and rows left *)
(* alone are the list, or the list that is being saved, or the members     *)
(* that this list has become.                                              *)
Same(r, s) == \A p \in Person \ {Me} : r[p] = s[p]

FormInv ==
    /\ ~astray /\ save # "done" /\ query = "read" => readRows = members
    /\ ~astray /\ save # "done" /\ query = "idle" => listed = members
    /\ ~astray /\ ~touched => \/ Same(rows, listed)
                              \/ save = "sent" /\ Same(rows, sentRows)
                              \/ save # "sent" /\ Same(rows, members)

LEMMA FormTypeInit == MembersFormInit => MembersFormTypeOK
<1> SUFFICES ASSUME MembersFormInit PROVE MembersFormTypeOK
    OBVIOUS
<1>1. members \in Rows /\ NoRows \in Rows
    BY MembersFormAssumption DEF MembersFormInit, Rows, NoRows
<1> QED
    BY <1>1 DEF MembersFormInit, MembersFormTypeOK

LEMMA FormTypeStep ==
    MembersFormTypeOK /\ [MembersFormNext]_membersFormVars => MembersFormTypeOK'
<1> SUFFICES ASSUME MembersFormTypeOK, [MembersFormNext]_membersFormVars
             PROVE  MembersFormTypeOK'
    OBVIOUS
<1> USE MembersFormAssumption DEF MembersFormTypeOK, Rows, remote
<1>1. CASE UserFetchedForForm
    BY <1>1 DEF UserFetchedForForm
<1>2. ASSUME NEW p \in Person, NEW g \in Level, AddMember(p, g) PROVE MembersFormTypeOK'
    BY <1>2 DEF AddMember
<1>3. ASSUME NEW p \in Person, NEW g \in Level \cup {"none"}, UpdateMemberRole(p, g)
      PROVE  MembersFormTypeOK'
    BY <1>3 DEF UpdateMemberRole
<1>4. ASSUME NEW p \in Person, NEW g \in Level \cup {"none"}, MembersElsewhere(p, g)
      PROVE  MembersFormTypeOK'
    BY <1>4 DEF MembersElsewhere
<1>5. CASE HandleUpdateMembers
    BY <1>5 DEF HandleUpdateMembers
<1>6. CASE MembersServed
    BY <1>6 DEF MembersServed, NoRows
<1>7. CASE MembersRefused \/ MembersAnswered \/ MembersRead \/ MembersFetched
    BY <1>7 DEF MembersRefused, MembersAnswered, MembersRead, MembersFetched, NoRows
<1>8. CASE UNCHANGED membersFormVars
    BY <1>8 DEF membersFormVars
<1> QED
    BY <1>1, <1>2, <1>3, <1>4, <1>5, <1>6, <1>7, <1>8 DEF MembersFormNext

(* A row that differs, or one more or less: the comparison of the form     *)
(* misses no difference.                                                   *)
LEMMA DifferenceIsSeen ==
    ASSUME MembersFormTypeOK, rows # listed
    PROVE  HasChanges
<1> DEFINE R == {p \in Person : rows[p] # "none"}
           L == {p \in Person : listed[p] # "none"}
<1>1. PICK p \in Person : rows[p] # listed[p]
    BY DEF MembersFormTypeOK, Rows
<1>2. CASE \E q \in Person : rows[q] # "none" /\ listed[q] # rows[q]
    BY <1>2 DEF HasChanges
<1>3. CASE \A q \in Person : rows[q] # "none" => listed[q] = rows[q]
  <2>1. R \subseteq L /\ p \in L /\ p \notin R
      BY <1>1, <1>3
  <2>2. IsFiniteSet(L)
      BY FS_Subset, MembersFormAssumption
  <2>3. Cardinality(R) # Cardinality(L)
    <3> HIDE DEF R, L
    <3> QED
        BY <2>1, <2>2, FS_Subset
  <2> QED
      BY <2>3 DEF HasChanges, RowCount
<1> QED
    BY <1>2, <1>3

LEMMA FormInit == MembersFormInit => FormInv
    BY DEF MembersFormInit, FormInv, Same

LEMMA FormStep ==
    MembersFormTypeOK /\ FormInv /\ [MembersFormNext]_membersFormVars => FormInv'
<1> SUFFICES ASSUME MembersFormTypeOK, FormInv, [MembersFormNext]_membersFormVars
             PROVE  FormInv'
    OBVIOUS
<1> USE DEF FormInv, Same, remote
<1>1. CASE UserFetchedForForm
    BY <1>1 DEF UserFetchedForForm
<1>2. ASSUME NEW p, NEW g, AddMember(p, g) \/ UpdateMemberRole(p, g) PROVE FormInv'
    BY <1>2 DEF AddMember, UpdateMemberRole
<1>3. ASSUME NEW p, NEW g, MembersElsewhere(p, g) PROVE FormInv'
    BY <1>3 DEF MembersElsewhere
<1>4. CASE HandleUpdateMembers
    BY <1>4 DEF HandleUpdateMembers
<1>5. CASE MembersServed
  <2>1. /\ save = "sent" /\ save' \in {"done", "no"}
        /\ UNCHANGED <<listed, rows, touched>>
        /\ astray' = (astray \/ save' = "no" \/ \E p \in Person \ {Me} : members'[p] # sentRows[p])
      BY <1>5 DEF MembersServed
  <2>2. CASE astray'
      BY <2>2
  <2>3. CASE ~astray'
    <3>1. ~astray /\ save' = "done" /\ Same(members', sentRows)
        BY <2>1, <2>3
    <3> QED
        BY <2>1, <3>1
  <2> QED
      BY <2>2, <2>3
<1>6. CASE MembersRefused
    BY <1>6 DEF MembersRefused
<1>7. CASE MembersAnswered
    BY <1>7 DEF MembersAnswered
<1>8. CASE MembersRead
    BY <1>8 DEF MembersRead
<1>9. CASE MembersFetched
  <2>1. CASE readRows = listed
      BY <1>9, <2>1 DEF MembersFetched
  <2>2. CASE readRows # listed
      BY <1>9, <2>2 DEF MembersFetched
  <2> QED
      BY <2>1, <2>2
<1>10. CASE UNCHANGED membersFormVars
    BY <1>10 DEF membersFormVars
<1> QED
    BY <1>1, <1>2, <1>3, <1>4, <1>5, <1>6, <1>7, <1>8, <1>9, <1>10 DEF MembersFormNext

(* The form of BucketMembers.tsx offers a save for every difference, and   *)
(* after it list, server and untouched rows agree.                         *)
THEOREM FormSaves == MembersFormSpec => []FormIsSaved
<1>1. MembersFormTypeOK /\ FormInv => FormIsSaved
    BY DifferenceIsSeen DEF FormInv, FormIsSaved, Same
<1> QED
    BY <1>1, FormTypeInit, FormTypeStep, FormInit, FormStep, PTL DEF MembersFormSpec

-----------------------------------------------------------------------------
(* The profile.  A save under way holds what its input holds, which is     *)
(* disabled meanwhile; and a closed field that did not stray has the value *)
(* of the server or has a save under way that will bring it there.         *)
SavePending(f, phase) == \E u \in updates : u.phase = phase /\ u.field = f

ProfileInv ==
    /\ updates = {} \/ \E u \in Update : updates = {u}
    /\ \A u \in updates : u.phase = "sent" /\ u.field \in Field => u.value = editValue[u.field]
    /\ \A f \in Field \ strayed :
          user[f] = profile[f] \/ fetching \/ SavePending(f, "done")
    /\ \A f \in Field \ (editing \cup strayed) :
          editValue[f] = profile[f] \/ SavePending(f, "sent")

LEMMA ProfileTypeInit == ProfileInit => ProfileTypeOK
    BY ProfileAssumption DEF ProfileInit, ProfileTypeOK

LEMMA ProfileTypeStep == ProfileTypeOK /\ [ProfileNext]_profileVars => ProfileTypeOK'
<1> SUFFICES ASSUME ProfileTypeOK, [ProfileNext]_profileVars PROVE ProfileTypeOK'
    OBVIOUS
<1> USE DEF ProfileTypeOK
<1>1. ASSUME NEW f \in Field, EditField(f) \/ CancelField(f) PROVE ProfileTypeOK'
    BY <1>1 DEF EditField, CancelField, Outdated
<1>2. ASSUME NEW f \in Field, SaveField(f) PROVE ProfileTypeOK'
    BY <1>2 DEF SaveField, Outdated, Mutated, Update
<1>3. ASSUME NEW f \in Field, NEW v \in Value, TypeField(f, v) \/ ProfileElsewhere(f, v)
      PROVE  ProfileTypeOK'
    BY <1>3 DEF TypeField, ProfileElsewhere
<1>4. CASE PasswordForm
    BY <1>4 DEF PasswordForm, Mutated, Update
<1>5. ASSUME NEW u \in updates, UpdateServed(u) PROVE ProfileTypeOK'
    BY <1>5 DEF UpdateServed, Update
<1>6. ASSUME NEW u \in updates, UpdateFails(u) \/ UpdateAnswered(u) PROVE ProfileTypeOK'
    BY <1>6 DEF UpdateFails, UpdateAnswered, Update
<1>7. CASE UserFetched \/ UNCHANGED profileVars
    BY <1>7 DEF UserFetched, profileVars
<1> QED
    BY <1>1, <1>2, <1>3, <1>4, <1>5, <1>6, <1>7 DEF ProfileNext

LEMMA ProfileInvInit == ProfileInit => ProfileInv
    BY DEF ProfileInit, ProfileInv

LEMMA ProfileStep == ProfileTypeOK /\ ProfileInv /\ [ProfileNext]_profileVars => ProfileInv'
<1> SUFFICES ASSUME ProfileTypeOK, ProfileInv, [ProfileNext]_profileVars PROVE ProfileInv'
    OBVIOUS
<1> USE DEF ProfileTypeOK, ProfileInv, SavePending, IsLoading
<1>1. ASSUME NEW f \in Field, EditField(f) PROVE ProfileInv'
    BY <1>1 DEF EditField
<1>2. ASSUME NEW f \in Field, CancelField(f) PROVE ProfileInv'
    BY <1>2 DEF CancelField, Outdated
<1>3. ASSUME NEW f \in Field, SaveField(f) PROVE ProfileInv'
  <2>1. updates = {} /\ editing' = editing \ {f}
        /\ strayed' = strayed \cup Outdated(f) /\ UNCHANGED <<editValue, user, profile, fetching>>
      BY <1>3 DEF SaveField
  <2>2. CASE editValue[f] = user[f]
      BY <1>3, <2>1, <2>2 DEF SaveField, Outdated
  <2>3. CASE editValue[f] # user[f]
    <3> DEFINE u == [field |-> f, value |-> editValue[f], phase |-> "sent"]
    <3>1. updates' = {u} /\ u \in Update
        BY <1>3, <2>1, <2>3 DEF SaveField, Mutated, Update
    <3>2. SavePending(f, "sent")'
        BY <3>1
    <3> QED
        BY <2>1, <3>1, <3>2
  <2> QED
      BY <2>2, <2>3
<1>4. ASSUME NEW f \in Field, NEW v \in Value, TypeField(f, v) PROVE ProfileInv'
    BY <1>4 DEF TypeField
<1>5. ASSUME NEW f \in Field, NEW v \in Value, ProfileElsewhere(f, v) PROVE ProfileInv'
    BY <1>5 DEF ProfileElsewhere
<1>6. CASE PasswordForm
  <2>1. UNCHANGED <<editing, editValue, user, profile, fetching, strayed>>
      BY <1>6 DEF PasswordForm
  <2>2. CASE updates' = updates
      BY <2>1, <2>2
  <2>3. CASE updates' # updates
    <3>1. PICK v \in Value : updates' = {[field |-> "password", value |-> v, phase |-> "sent"]}
                             /\ updates = {}
        BY <1>6, <2>3 DEF PasswordForm, Mutated
    <3>2. [field |-> "password", value |-> v, phase |-> "sent"] \in Update
        BY DEF Update
    <3> QED
        BY <2>1, <3>1, <3>2, ProfileAssumption
  <2> QED
      BY <2>2, <2>3
<1>7. ASSUME NEW u \in updates, UpdateServed(u) PROVE ProfileInv'
  <2> DEFINE w == [u EXCEPT !.phase = "done"]
  <2>1. updates = {u} /\ u \in Update
      OBVIOUS
  <2>2. w \in Update /\ w.phase = "done" /\ w.field = u.field
      BY <2>1 DEF Update
  <2>3. updates' = {w}
      BY <1>7, <2>1 DEF UpdateServed
  <2>4. /\ u.phase = "sent" /\ UNCHANGED <<editing, editValue, user, fetching, strayed>>
        /\ \A f \in Field : profile'[f] = IF f = u.field THEN u.value ELSE profile[f]
      BY <1>7 DEF UpdateServed
  <2> HIDE DEF w
  <2> QED
      BY <2>1, <2>2, <2>3, <2>4
<1>8. ASSUME NEW u \in updates, UpdateFails(u) PROVE ProfileInv'
  <2>1. updates = {u} /\ updates' = {}
      BY <1>8 DEF UpdateFails
  <2> QED
      BY <1>8, <2>1 DEF UpdateFails
<1>9. ASSUME NEW u \in updates, UpdateAnswered(u) PROVE ProfileInv'
  <2>1. updates = {u} /\ updates' = {}
      BY <1>9 DEF UpdateAnswered
  <2> QED
      BY <1>9, <2>1 DEF UpdateAnswered
<1>10. CASE UserFetched \/ UNCHANGED profileVars
    BY <1>10 DEF UserFetched, profileVars
<1> QED
    BY <1>1, <1>2, <1>3, <1>4, <1>5, <1>6, <1>7, <1>8, <1>9, <1>10 DEF ProfileNext

(* One save of the profile at a time, whatever is edited meanwhile; and in *)
(* quiet a closed field opens with what the server has (ProfileForm.tsx).  *)
THEOREM SavesAreOrdered == ProfileSpec => []SavesInOrder
<1>1. ProfileTypeOK /\ ProfileInv => SavesInOrder
  <2> SUFFICES ASSUME ProfileTypeOK, ProfileInv PROVE SavesInOrder
      OBVIOUS
  <2>1. Cardinality(updates) <= 1
    <3>1. CASE updates = {}
        BY <3>1, FS_EmptySet
    <3>2. CASE \E u \in Update : updates = {u}
        BY <3>2, FS_Singleton
    <3> QED
        BY <3>1, <3>2 DEF ProfileInv
  <2> QED
      BY <2>1 DEF ProfileInv, SavePending, SavesInOrder
<1> QED
    BY <1>1, ProfileTypeInit, ProfileTypeStep, ProfileInvInit, ProfileStep, PTL DEF ProfileSpec

-----------------------------------------------------------------------------
(* The theme.  As long as no two imports overlapped there is one style or  *)
(* none: none while the only import is under way, and then its own.        *)
ThemeInv ==
    /\ rootClass = ActualTheme(mode, system)
    /\ ~overlapped =>
        \/ styles = <<>> /\ loading = {}
        \/ styles = <<>> /\ \E l \in Load : loading = {l} /\ l.theme = colorTheme
        \/ /\ loading = {} /\ Len(styles) = 1
           /\ styles[1].theme = colorTheme /\ styles[1].n = current

LEMMA ThemeTypeInit == ThemeInit => ThemeTypeOK
<1> SUFFICES ASSUME ThemeInit PROVE ThemeTypeOK
    OBVIOUS
<1> USE ThemeAssumption DEF ThemeInit
<1>1. colorTheme \in ColorTheme
    OBVIOUS
<1>2. loading \subseteq [n : 1 .. started, theme : ColorTheme]
    BY <1>1
<1>3. styles \in Seq(Load) /\ current \in 0 .. started /\ started \in Nat
    OBVIOUS
<1> QED
    BY <1>1, <1>2, <1>3 DEF ThemeTypeOK

(* Removing the current style leaves the others in their order.            *)
LEMMA WithoutTyped ==
    ASSUME ThemeTypeOK, NEW n
    PROVE  Without(n) \in Seq(Load)
<1> DEFINE at == {i \in DOMAIN styles : styles[i].n = n}
           i == CHOOSE j \in at : TRUE
<1>1. styles \in Seq(Load) /\ DOMAIN styles = 1 .. Len(styles) /\ Len(styles) \in Nat
    BY DEF ThemeTypeOK
<1>2. CASE at = {}
    BY <1>1, <1>2 DEF Without
<1>3. CASE at # {}
  <2>1. i \in 1 .. Len(styles)
      BY <1>1, <1>3
  <2> HIDE DEF i
  <2>2. /\ SubSeq(styles, 1, i - 1) \in Seq(Load)
        /\ SubSeq(styles, i + 1, Len(styles)) \in Seq(Load)
      BY <1>1, <2>1
  <2>3. SubSeq(styles, 1, i - 1) \o SubSeq(styles, i + 1, Len(styles)) \in Seq(Load)
      BY <2>2
  <2> QED
      BY <1>3, <2>3 DEF Without, i
<1> QED
    BY <1>2, <1>3

LEMMA WithoutOnly ==
    ASSUME ThemeTypeOK, NEW n, Len(styles) = 1, styles[1].n = n
    PROVE  Without(n) = <<>>
<1> DEFINE at == {i \in DOMAIN styles : styles[i].n = n}
           i == CHOOSE j \in at : TRUE
<1>1. styles \in Seq(Load) /\ DOMAIN styles = {1}
    BY DEF ThemeTypeOK
<1>2. at = {1}
    BY <1>1
<1>3. i = 1
    BY <1>2
<1>4. Without(n) = SubSeq(styles, 1, 0) \o SubSeq(styles, 2, 1)
    BY <1>2, <1>3 DEF Without
<1> QED
    BY <1>1, <1>4

LEMMA ThemeTypeStep == ThemeTypeOK /\ [ThemeNext]_themeVars => ThemeTypeOK'
<1> SUFFICES ASSUME ThemeTypeOK, [ThemeNext]_themeVars PROVE ThemeTypeOK'
    OBVIOUS
<1> USE ThemeAssumption DEF ThemeTypeOK
<1>1. ASSUME NEW m \in {"light", "dark", "system"}, ChooseMode(m) PROVE ThemeTypeOK'
    BY <1>1 DEF ChooseMode, SetMode, ActualTheme
<1>2. CASE SystemChanges
    BY <1>2 DEF SystemChanges
<1>3. ASSUME NEW t \in ColorTheme, ChooseTheme(t) PROVE ThemeTypeOK'
  <2>1. styles' \in Seq(Load)
      BY <1>3, WithoutTyped DEF ChooseTheme, SetColorTheme
  <2>2. /\ loading' = loading \cup {[n |-> started', theme |-> t]}
        /\ started' = started + 1 /\ current' = 0
      BY <1>3 DEF ChooseTheme, SetColorTheme
  <2>3. /\ loading' \subseteq [n : 1 .. started', theme : ColorTheme]
        /\ started' \in Nat /\ current' \in 0 .. started'
      BY <2>2
  <2> QED
      BY <1>3, <2>1, <2>3 DEF ChooseTheme, SetColorTheme
<1>4. ASSUME NEW l \in loading, ThemeLoaded(l) \/ ThemeFails(l) PROVE ThemeTypeOK'
  <2>1. l \in Load /\ l.n \in 0 .. started
      BY DEF Load
  <2>2. CASE ThemeLoaded(l)
    <3>1. styles' \in Seq(Load)
        BY <2>1, <2>2 DEF ThemeLoaded
    <3> QED
        BY <2>1, <2>2, <3>1 DEF ThemeLoaded
  <2>3. CASE ThemeFails(l)
      BY <2>3 DEF ThemeFails
  <2> QED
      BY <1>4, <2>2, <2>3
<1>5. CASE ReloadTheme
  <2>1. /\ loading' = {[n |-> 1, theme |-> colorTheme]} /\ started' = 1
        /\ styles' = <<>> /\ current' = 0 /\ overlapped' = FALSE
        /\ UNCHANGED <<mode, system, rootClass, colorTheme>>
      BY <1>5 DEF ReloadTheme
  <2>2. /\ loading' \subseteq [n : 1 .. started', theme : ColorTheme]
        /\ styles' \in Seq(Load) /\ current' \in 0 .. started' /\ started' \in Nat
      BY <2>1
  <2> QED
      BY <2>1, <2>2
<1>6. CASE UNCHANGED themeVars
    BY <1>6 DEF themeVars
<1> QED
    BY <1>1, <1>2, <1>3, <1>4, <1>5, <1>6 DEF ThemeNext

LEMMA ThemeInvInit == ThemeInit => ThemeInv
<1> SUFFICES ASSUME ThemeInit PROVE ThemeInv
    OBVIOUS
<1>1. [n |-> 1, theme |-> colorTheme] \in Load
    BY ThemeAssumption DEF ThemeInit, Load
<1>2. \E l \in Load : loading = {l} /\ l.theme = colorTheme
    BY <1>1 DEF ThemeInit
<1> QED
    BY <1>2 DEF ThemeInit, ThemeInv, ActualTheme

LEMMA ThemeStep == ThemeTypeOK /\ ThemeInv /\ [ThemeNext]_themeVars => ThemeInv'
<1> SUFFICES ASSUME ThemeTypeOK, ThemeInv, [ThemeNext]_themeVars PROVE ThemeInv'
    OBVIOUS
<1> USE DEF ThemeInv
<1>1. ASSUME NEW m, ChooseMode(m) PROVE ThemeInv'
    BY <1>1 DEF ChooseMode, SetMode, ActualTheme
<1>2. CASE SystemChanges
    BY <1>2 DEF SystemChanges, ActualTheme
<1>3. ASSUME NEW t \in ColorTheme, ChooseTheme(t) PROVE ThemeInv'
  <2> DEFINE l == [n |-> started', theme |-> t]
  <2>1. /\ colorTheme' = t /\ styles' = Without(current) /\ started' = started + 1
        /\ loading' = loading \cup {l} /\ overlapped' = (overlapped \/ loading # {})
        /\ UNCHANGED <<mode, system, rootClass>>
      BY <1>3 DEF ChooseTheme, SetColorTheme
  <2>2. l \in Load /\ l.theme = t
      BY <2>1 DEF ThemeTypeOK, Load
  <2>3. ASSUME ~overlapped' PROVE styles' = <<>> /\ loading' = {l}
    <3>1. ~overlapped /\ loading = {}
        BY <2>1, <2>3
    <3>2. CASE styles = <<>>
        BY <2>1, <3>1, <3>2 DEF Without
    <3>3. CASE Len(styles) = 1 /\ styles[1].n = current
        BY <2>1, <3>1, <3>3, WithoutOnly
    <3> QED
        BY <3>1, <3>2, <3>3
  <2> HIDE DEF l
  <2> QED
      BY <2>1, <2>2, <2>3
<1>4. ASSUME NEW l \in loading, ThemeLoaded(l) PROVE ThemeInv'
  <2>1. /\ loading' = loading \ {l} /\ styles' = Append(styles, l) /\ current' = l.n
        /\ UNCHANGED <<mode, system, rootClass, colorTheme, overlapped>>
      BY <1>4 DEF ThemeLoaded
  <2>2. CASE overlapped
      BY <2>1, <2>2
  <2>3. CASE ~overlapped
    <3>1. styles = <<>> /\ loading = {l} /\ l.theme = colorTheme
        BY <2>3
    <3>2. Len(styles') = 1 /\ styles'[1] = l
        BY <2>1, <3>1 DEF ThemeTypeOK
    <3> QED
        BY <2>1, <3>1, <3>2
  <2> QED
      BY <2>2, <2>3
<1>5. ASSUME NEW l \in loading, ThemeFails(l) PROVE ThemeInv'
    BY <1>5 DEF ThemeFails
<1>6. CASE ReloadTheme
    BY <1>6 DEF ReloadTheme, ThemeTypeOK, Load
<1>7. CASE UNCHANGED themeVars
    BY <1>7 DEF themeVars
<1> QED
    BY <1>1, <1>2, <1>3, <1>4, <1>5, <1>6, <1>7 DEF ThemeNext

(* The page is in the mode chosen; and unless imports overlapped, its only *)
(* style is that of the theme chosen last (ThemeProvider.tsx, themes.ts).  *)
THEOREM ThemeIsApplied == ThemeSpec => []ThemeApplied
<1>1. ThemeTypeOK /\ ThemeInv => ThemeApplied
  <2> SUFFICES ASSUME ThemeTypeOK, ThemeInv, loading = {}, ~overlapped
               PROVE  /\ Len(styles) <= 1
                      /\ \A i \in DOMAIN styles :
                            styles[i].theme = colorTheme /\ current = styles[i].n
      BY DEF ThemeInv, ThemeApplied
  <2>1. styles \in Seq(Load) /\ DOMAIN styles = 1 .. Len(styles)
      BY DEF ThemeTypeOK
  <2>2. CASE styles = <<>>
      BY <2>2
  <2>3. CASE /\ Len(styles) = 1
             /\ styles[1].theme = colorTheme /\ styles[1].n = current
      BY <2>1, <2>3
  <2> QED
      BY <2>2, <2>3 DEF ThemeInv
<1> QED
    BY <1>1, ThemeTypeInit, ThemeTypeStep, ThemeInvInit, ThemeStep, PTL DEF ThemeSpec

-----------------------------------------------------------------------------
(* The activity.  No two entries have the same time, so that the rank of a *)
(* hit, its place from the newest on, is its alone.                        *)
LogInv ==
    /\ IsFiniteSet(log)
    /\ \A e \in log \cup pending : e.at <= clock
    /\ \A d, e \in log \cup pending : d.at = e.at => d = e

Rank(e) == Cardinality({d \in Hits : d.at >= e.at})
Found == {e \in Hits : Rank(e) <= SearchLimit}

LEMMA HitsTyped ==
    ASSUME FeedTypeOK, LogInv
    PROVE  /\ IsFiniteSet(Hits) /\ Hits \subseteq log
           /\ \A e \in Hits : e \in Entry /\ e.at \in Int
           /\ \A d, e \in Hits : d.at = e.at => d = e
<1>1. Hits \subseteq log
    BY DEF Hits
<1>2. IsFiniteSet(Hits)
    BY <1>1, FS_Subset DEF LogInv
<1> QED
    BY <1>1, <1>2, ActivityFeedAssumption DEF FeedTypeOK, LogInv, Entry

(* Newer entries have smaller ranks.                                       *)
LEMMA RankOrdered ==
    ASSUME FeedTypeOK, LogInv
    PROVE  /\ Cardinality(Hits) \in Nat
           /\ \A e \in Hits : Rank(e) \in 1 .. Cardinality(Hits)
           /\ \A d, e \in Hits : d.at > e.at => Rank(d) < Rank(e)
<1> DEFINE Since(e) == {d \in Hits : d.at >= e.at}
<1>1. \A e \in Hits : IsFiniteSet(Since(e)) /\ Cardinality(Since(e)) \in Nat
                      /\ Cardinality(Since(e)) <= Cardinality(Hits)
    BY HitsTyped, FS_Subset, FS_CardinalityType
<1>2. ASSUME NEW e \in Hits PROVE Cardinality(Since(e)) # 0
  <2>1. e \in Since(e)
      BY HitsTyped
  <2> HIDE DEF Since
  <2> QED
      BY <1>1, <2>1, FS_EmptySet
<1>3. ASSUME NEW d \in Hits, NEW e \in Hits, d.at > e.at
      PROVE  Cardinality(Since(d)) < Cardinality(Since(e))
  <2>1. \A x \in Hits : x.at \in Int
      BY HitsTyped
  <2>2. Since(d) \subseteq Since(e) /\ e \in Since(e) /\ e \notin Since(d)
      BY <1>3, <2>1
  <2>3. /\ Cardinality(Since(d)) \in Nat /\ Cardinality(Since(e)) \in Nat
        /\ IsFiniteSet(Since(e))
      BY <1>1
  <2> HIDE DEF Since
  <2>4. /\ Cardinality(Since(d)) <= Cardinality(Since(e))
        /\ Cardinality(Since(e)) = Cardinality(Since(d)) => Since(e) = Since(d)
      BY <2>2, <2>3, FS_Subset
  <2> QED
      BY <2>2, <2>3, <2>4
<1>4. Cardinality(Hits) \in Nat
    BY HitsTyped, FS_CardinalityType
<1>5. \A e \in Hits : Rank(e) = Cardinality(Since(e))
    BY DEF Rank
<1> HIDE DEF Since
<1> QED
    BY <1>1, <1>2, <1>3, <1>4, <1>5

(* Every rank up to the number of hits is that of one of them.             *)
LEMMA RankTaken ==
    ASSUME FeedTypeOK, LogInv
    PROVE  \A n \in 1 .. Cardinality(Hits) : \E e \in Hits : Rank(e) = n
<1> DEFINE N == Cardinality(Hits)
           f == [e \in Hits |-> Rank(e)]
<1>1. N \in Nat /\ f \in [Hits -> 1 .. N]
    BY RankOrdered
<1>2. \A d, e \in Hits : f[d] = f[e] => d = e
  <2> SUFFICES ASSUME NEW d \in Hits, NEW e \in Hits, Rank(d) = Rank(e) PROVE d = e
      OBVIOUS
  <2>1. Rank(d) \in Int /\ d.at \in Int /\ e.at \in Int
      BY RankOrdered, HitsTyped
  <2>2. ~(d.at > e.at) /\ ~(e.at > d.at)
      BY <2>1, RankOrdered
  <2> QED
      BY <2>1, <2>2, HitsTyped
<1>3. f \in Injection(Hits, 1 .. N)
    BY <1>1, <1>2 DEF Injection, IsInjective
<1>4. IsFiniteSet(1 .. N) /\ Cardinality(1 .. N) = N
    BY <1>1, FS_Interval
<1>5. f \in Surjection(Hits, 1 .. N)
  <2> HIDE DEF f
  <2> QED
      BY <1>3, <1>4, FS_Injection
<1> QED
    BY <1>5 DEF Surjection

(* What one search returns: the newest hits, newest first, and something   *)
(* if there is a hit at all.                                               *)
LEMMA NewestSorted ==
    ASSUME FeedTypeOK, LogInv
    PROVE  /\ Newest \in Seq(Entry)
           /\ \A n \in DOMAIN Newest : Newest[n] \in Hits
           /\ \A n, k \in DOMAIN Newest : n < k => Newest[n].at > Newest[k].at
           /\ Hits # {} => Newest # <<>>
<1> DEFINE N == Cardinality(Hits)
           K == Cardinality(Found)
<1>1. Found \subseteq Hits /\ IsFiniteSet(Found) /\ K \in Nat /\ K <= N /\ N \in Nat
  <2>1. Found \subseteq Hits
      BY DEF Found
  <2> QED
      BY <2>1, HitsTyped, RankOrdered, FS_Subset, FS_CardinalityType
<1>2. K <= SearchLimit
  <2> DEFINE g == [e \in Found |-> Rank(e)]
  <2>1. g \in [Found -> 1 .. SearchLimit]
      BY <1>1, RankOrdered, ActivityFeedAssumption DEF Found
  <2>2. \A d, e \in Found : Rank(d) = Rank(e) => d = e
    <3> SUFFICES ASSUME NEW d \in Found, NEW e \in Found, Rank(d) = Rank(e) PROVE d = e
        OBVIOUS
    <3>1. d \in Hits /\ e \in Hits /\ Rank(d) \in Int /\ d.at \in Int /\ e.at \in Int
        BY <1>1, RankOrdered, HitsTyped
    <3>2. ~(d.at > e.at) /\ ~(e.at > d.at)
        BY <3>1, RankOrdered
    <3> QED
        BY <3>1, <3>2, HitsTyped
  <2>3. g \in Injection(Found, 1 .. SearchLimit)
      BY <2>1, <2>2 DEF Injection, IsInjective
  <2>4. IsFiniteSet(1 .. SearchLimit) /\ Cardinality(1 .. SearchLimit) = SearchLimit
      BY ActivityFeedAssumption, FS_Interval
  <2> HIDE DEF g
  <2> QED
      BY <2>3, <2>4, FS_Injection
<1>3. Newest = [n \in 1 .. K |-> CHOOSE e \in Found : Rank(e) = n]
    BY DEF Newest, Found, Rank
<1>4. \A n \in 1 .. K : \E e \in Found : Rank(e) = n
  <2> SUFFICES ASSUME NEW n \in 1 .. K PROVE \E e \in Found : Rank(e) = n
      OBVIOUS
  <2>1. n \in 1 .. N /\ n <= SearchLimit
      BY <1>1, <1>2, ActivityFeedAssumption
  <2>2. PICK e \in Hits : Rank(e) = n
      BY <2>1, RankTaken
  <2> QED
      BY <2>1, <2>2 DEF Found
<1>5. DOMAIN Newest = 1 .. K /\ \A n \in 1 .. K : Newest[n] \in Found /\ Rank(Newest[n]) = n
    BY <1>3, <1>4
<1>6. \A n \in 1 .. K : Newest[n] \in Hits /\ Newest[n] \in Entry
    BY <1>1, <1>5, HitsTyped
<1>7. Newest \in Seq(Entry)
  <2>1. Newest \in [1 .. K -> Entry]
      BY <1>3, <1>6
  <2> QED
      BY <1>1, <2>1
<1>8. ASSUME NEW n \in 1 .. K, NEW k \in 1 .. K, n < k PROVE Newest[n].at > Newest[k].at
  <2>1. /\ Newest[n] \in Hits /\ Newest[k] \in Hits
        /\ Newest[n].at \in Int /\ Newest[k].at \in Int
      BY <1>6, HitsTyped
  <2>2. ~(Newest[k].at > Newest[n].at)
      BY <1>5, <1>8, <2>1, RankOrdered
  <2>3. Newest[n].at # Newest[k].at
      BY <1>5, <1>8, <2>1, HitsTyped
  <2> QED
      BY <2>1, <2>2, <2>3
<1>9. ASSUME Hits # {} PROVE Newest # <<>>
  <2>1. N # 0
      BY <1>9, HitsTyped, FS_EmptySet
  <2>2. PICK e \in Hits : Rank(e) = 1
      BY <1>1, <2>1, RankTaken
  <2>3. e \in Found
      BY <2>2, ActivityFeedAssumption DEF Found
  <2>4. K # 0
      BY <1>1, <2>3, FS_EmptySet
  <2>5. 1 \in DOMAIN Newest
      BY <1>1, <1>5, <2>4
  <2> QED
      BY <2>5
<1> QED
    BY <1>5, <1>6, <1>7, <1>8, <1>9

(* What the page has: rows of the log in their order, of the kinds that    *)
(* are searched for; the bucket's feed has no list without rows.           *)
DataInv ==
    /\ \A n, k \in DOMAIN data.rows : n < k => data.rows[n].at > data.rows[k].at
    /\ \A n \in DOMAIN data.rows :
          data.rows[n] \in log /\ ObjectType(data.rows[n].message) \in AskedFor
    /\ feed = "bucket" /\ data.kind = "list" => data.rows # <<>>
    /\ feed = "all" => data.kind # "null"

FeedInv == FeedTypeOK /\ LogInv /\ DataInv

LEMMA FeedInvInit == FeedInit => FeedInv
<1> SUFFICES ASSUME FeedInit PROVE FeedInv
    OBVIOUS
<1> USE DEF FeedInit
<1>1. FeedTypeOK
    BY ActivityFeedAssumption DEF FeedTypeOK, Answer, Feed
<1>2. LogInv
    BY FS_EmptySet DEF LogInv
<1>3. DataInv
    BY DEF DataInv
<1> QED
    BY <1>1, <1>2, <1>3 DEF FeedInv

(* An answer of the search, and one without rows.                          *)
LEMMA AnswerKept ==
    ASSUME FeedInv, NEW kind \in {"failed", "null", "list"}, NEW found, FeedAnswered(kind, found),
           \/ found = Newest /\ (feed = "bucket" /\ kind = "list" => Hits # {})
           \/ found = <<>> /\ (feed = "bucket" => kind # "list"),
           feed = "all" => kind # "null"
    PROVE  FeedInv'
<1> USE DEF FeedInv
<1>1. UNCHANGED <<log, pending, clock, old, there, feed>> /\ request' = "idle"
    BY DEF FeedAnswered
<1>2. CASE data' = data
    BY <1>1, <1>2 DEF FeedTypeOK, LogInv, DataInv
<1>3. CASE data' = [kind |-> kind, rows |-> found]
  <2>1. /\ found \in Seq(Entry)
        /\ \A n \in DOMAIN found : found[n] \in Hits
        /\ \A n, k \in DOMAIN found : n < k => found[n].at > found[k].at
        /\ feed = "bucket" /\ kind = "list" => found # <<>>
    <3>1. CASE found = Newest /\ (feed = "bucket" /\ kind = "list" => Hits # {})
        BY <3>1, NewestSorted
    <3>2. CASE found = <<>> /\ (feed = "bucket" => kind # "list")
        BY <3>2
    <3> QED
        BY <3>1, <3>2
  <2>2. \A e \in Hits : e \in log /\ ObjectType(e.message) \in AskedFor
      BY DEF Hits
  <2>3. FeedTypeOK'
      BY <1>1, <1>3, <2>1 DEF FeedTypeOK, Answer
  <2>4. LogInv'
      BY <1>1 DEF LogInv
  <2>5. DataInv'
    <3>1. data'.kind = kind /\ data'.rows = found
        BY <1>3
    <3> QED
        BY <1>1, <2>1, <2>2, <3>1 DEF DataInv
  <2> QED
      BY <2>3, <2>4, <2>5
<1> QED
    BY <1>2, <1>3 DEF FeedAnswered

LEMMA StampKept ==
    ASSUME FeedInv, NEW m \in Happens \cup {"BUCKET_DELETED"}, Stamp(m)
    PROVE  FeedInv'
<1> USE ActivityFeedAssumption DEF FeedInv
<1> DEFINE e == [at |-> clock', message |-> m]
<1>1. /\ clock' = clock + 1 /\ pending' = pending \cup {e}
      /\ UNCHANGED <<log, old, there, feed, request, data>>
    BY DEF Stamp
<1>2. clock \in Nat /\ clock < MaxStamp /\ clock' \in 1 .. MaxStamp
    BY DEF FeedTypeOK, Stamp
<1>3. e \in Entry /\ e.at = clock'
    BY <1>2 DEF Entry
<1>4. FeedTypeOK'
    BY <1>1, <1>2, <1>3 DEF FeedTypeOK
<1>5. \A d \in log \cup pending : d.at \in Int /\ d.at < clock'
    BY <1>1, <1>2 DEF FeedTypeOK, LogInv, Entry
<1> HIDE DEF e
<1>6. LogInv'
    BY <1>1, <1>2, <1>3, <1>5 DEF LogInv
<1>7. DataInv'
    BY <1>1 DEF DataInv
<1> QED
    BY <1>4, <1>6, <1>7

LEMMA FeedStep == FeedInv /\ [FeedNext]_feedVars => FeedInv'
<1> SUFFICES ASSUME FeedInv, [FeedNext]_feedVars PROVE FeedInv'
    OBVIOUS
<1> USE ActivityFeedAssumption DEF FeedInv
<1>1. ASSUME NEW m \in Happens, Happen(m) PROVE FeedInv'
    BY <1>1, StampKept DEF Happen
<1>2. CASE DeleteBucket
    BY <1>2, StampKept DEF DeleteBucket
<1>3. ASSUME NEW e \in pending, Sent(e) \/ SendFails(e) PROVE FeedInv'
  <2>1. /\ log' \in {log, log \cup {e}} /\ pending' = pending \ {e} /\ there' \in BOOLEAN
        /\ UNCHANGED <<clock, old, feed, request, data>>
      BY <1>3 DEF Sent, SendFails, FeedTypeOK
  <2>2. FeedTypeOK'
      BY <2>1 DEF FeedTypeOK
  <2>3. IsFiniteSet(log')
      BY <2>1, FS_AddElement DEF LogInv
  <2>4. LogInv'
      BY <2>1, <2>3 DEF LogInv
  <2>5. DataInv'
      BY <2>1 DEF DataInv
  <2> QED
      BY <2>2, <2>4, <2>5
<1>4. CASE DaysPass
    BY <1>4 DEF DaysPass, FeedTypeOK, LogInv, DataInv
<1>5. CASE OpenFeed
    BY <1>5 DEF OpenFeed, FeedTypeOK, LogInv, DataInv
<1>6. CASE FindBuckets
  <2>1. CASE there
      BY <1>6, <2>1 DEF FindBuckets, FeedTypeOK, LogInv, DataInv
  <2>2. CASE ~there
      BY <1>6, <2>2, AnswerKept DEF FindBuckets
  <2> QED
      BY <2>1, <2>2
<1>7. CASE SearchFails
    BY <1>7, AnswerKept DEF SearchFails
<1>8. CASE GetActivity
    BY <1>8, AnswerKept DEF GetActivity
<1>9. CASE GetBucketActivity
    BY <1>9, AnswerKept DEF GetBucketActivity
<1>10. CASE UNCHANGED feedVars
    BY <1>10 DEF feedVars, FeedTypeOK, LogInv, DataInv
<1> QED
    BY <1>1, <1>2, <1>3, <1>4, <1>5, <1>6, <1>7, <1>8, <1>9, <1>10 DEF FeedNext

(* A feed goes from new to old, shows what the log has, and has a message  *)
(* for each row but a deletion; the view of a bucket never says that there *)
(* is no activity (services/bucket.go, ActivityItem.tsx).                  *)
THEOREM FeedShowsTheLog == FeedSpec => []FeedHolds
<1>1. FeedInv => FeedHolds
  <2> SUFFICES ASSUME FeedInv PROVE FeedHolds
      OBVIOUS
  <2> USE DEF FeedInv, FeedTypeOK, DataInv
  <2>1. ASSUME NEW n \in DOMAIN data.rows, Items[n] = "default"
        PROVE  data.rows[n].message = "BUCKET_DELETED"
    <3> DEFINE msg == data.rows[n].message
    <3>1. msg \in Message
      <4>1. data.rows[n] \in Entry
          OBVIOUS
      <4>2. msg \in Happens \cup {"BUCKET_DELETED"}
          BY <4>1 DEF Entry
      <4> QED
          BY <4>2, ActivityFeedAssumption DEF Message
    <3>2. ObjectType(msg) \in AskedFor
        OBVIOUS
    <3>3. Mapping(msg) = "default"
        BY <2>1 DEF Items
    <3> HIDE DEF msg
    <3>4. msg \notin ActivityMessage
        BY <3>3 DEF Mapping, ActivityMessage
    <3>5. msg # "FOLDER_CREATED" /\ msg # "FOLDER_UPDATED"
        BY <3>2 DEF ObjectType, AskedFor
    <3> QED
        BY <3>1, <3>4, <3>5 DEF Message, msg
  <2>2. feed = "bucket" => ActivityView # "empty"
      BY DEF ActivityView, Answer
  <2>3. feed = "all" /\ ActivityView = "broken" => data.kind = "failed"
      BY DEF ActivityView, Answer
  <2> QED
      BY <2>1, <2>2, <2>3 DEF FeedHolds
<1> QED
    BY <1>1, FeedInvInit, FeedStep, PTL DEF FeedSpec

-----------------------------------------------------------------------------
(* The types of the other parts.  What a page has in hand is bounded, and  *)
(* a page is open only with the items of its bucket in the cache; the      *)
(* types of the cache are those of CacheInv.                               *)
PageTyped ==
    /\ group \in Group /\ membership \in Group \cup {"unknown"}
    /\ page \in {"away", "loading", "open"}
    /\ IsFiniteSet(requests) /\ Cardinality(requests) <= MaxRequests
    /\ page = "open" => "bucket" \in have

LEMMA PageTypedInit == BucketInit => PageTyped
    BY FS_EmptySet, BucketPageAssumption DEF BucketInit, PageTyped

LEMMA PageTypedStep == PageTyped /\ [BucketNext]_bucketVars => PageTyped'
<1> SUFFICES ASSUME PageTyped, [BucketNext]_bucketVars PROVE PageTyped'
    OBVIOUS
<1> USE BucketPageAssumption DEF PageTyped, server, cache
<1>1. ASSUME NEW r, requests' = requests \ {r}
      PROVE  /\ IsFiniteSet(requests') /\ Cardinality(requests') \in Nat
             /\ Cardinality(requests') <= MaxRequests
             /\ r \in requests => Cardinality(requests') < MaxRequests
  <2>1. Cardinality(requests) \in Nat
      BY FS_CardinalityType
  <2>2. /\ IsFiniteSet(requests')
        /\ Cardinality(requests') = IF r \in requests THEN Cardinality(requests) - 1
                                                     ELSE Cardinality(requests)
      BY <1>1, FS_RemoveElement
  <2>3. Cardinality(requests') \in Nat
      BY <2>2, FS_CardinalityType
  <2> QED
      BY <2>1, <2>2, <2>3
<1>r. ASSUME NEW r \in requests, NEW s, requests' = (requests \ {r}) \cup {s}
      PROVE  IsFiniteSet(requests') /\ Cardinality(requests') <= MaxRequests
  <2> DEFINE R == requests \ {r}
  <2>1. IsFiniteSet(R) /\ Cardinality(R) \in Nat /\ Cardinality(R) < MaxRequests
    <3>1. /\ IsFiniteSet(R) /\ Cardinality(R) = Cardinality(requests) - 1
          /\ Cardinality(requests) \in Nat
        BY FS_RemoveElement, FS_CardinalityType
    <3>2. Cardinality(R) \in Nat
        BY <3>1, FS_CardinalityType
    <3> QED
        BY <3>1, <3>2
  <2> HIDE DEF R
  <2>2. /\ IsFiniteSet(R \cup {s})
        /\ Cardinality(R \cup {s}) = IF s \in R THEN Cardinality(R) ELSE Cardinality(R) + 1
      BY <2>1, FS_AddElement
  <2>3. requests' = R \cup {s}
      BY <1>r DEF R
  <2> QED
      BY <2>1, <2>2, <2>3
<1>2. ASSUME NEW i \in Item, Work(i) PROVE PageTyped'
    BY <1>2 DEF Work, Becomes
<1>3. CASE SomeoneElse
  <2>1. group' \in Group /\ UNCHANGED <<membership, page, have>>
      BY <1>3 DEF SomeoneElse, Becomes
  <2> QED
      BY <1>3, <2>1 DEF SomeoneElse
<1>4. ASSUME NEW r \in requests, Serve(r) PROVE PageTyped'
  <2>1. UNCHANGED <<group, membership, page, have>>
      BY <1>4 DEF Serve, Becomes
  <2>2. CASE Fails(r)
      BY <1>1, <2>1, <2>2 DEF Fails
  <2>3. CASE requests' = (requests \ {r}) \cup {[r EXCEPT !.phase = "ok"]}
      BY <1>r, <2>1, <2>3
  <2> QED
      BY <1>4, <2>2, <2>3 DEF Serve
<1>5. ASSUME NEW r \in requests, Refuse(r) \/ PostFails(r) \/ Answered(r) PROVE PageTyped'
  <2>1. CASE Refuse(r) \/ PostFails(r)
      BY <1>1, <2>1 DEF Refuse, PostFails, Fails
  <2>2. CASE Answered(r)
    <3>1. IsFiniteSet(requests') /\ Cardinality(requests') <= MaxRequests
      <4>1. CASE requests' = requests \ {r}
          BY <1>1, <4>1
      <4>2. CASE requests' = (requests \ {r}) \cup {[r EXCEPT !.phase = "posting"]}
          BY <1>r, <4>2
      <4> QED
          BY <2>2, <4>1, <4>2 DEF Answered
    <3> QED
        BY <2>2, <3>1 DEF Answered, Invalidate
  <2> QED
      BY <1>5, <2>1, <2>2
<1>6. ASSUME NEW q \in Query, FetchRead(q) \/ FetchDone(q) \/ FetchFails(q) PROVE PageTyped'
    BY <1>6 DEF FetchRead, FetchDone, FetchFails
<1>7. CASE Collect \/ PermissionsFetched \/ Focus \/ Navigate \/ Leave
    BY <1>7 DEF Collect, PermissionsFetched, Focus, Navigate, Leave
<1>8. ASSUME NEW op \in Op, NEW i \in Item, Mutate(op, i) PROVE PageTyped'
  <2> DEFINE r == [op |-> op, item |-> i, phase |-> "sent"]
  <2>2. requests' = requests \cup {r} /\ Cardinality(requests) < MaxRequests
      BY <1>8 DEF Mutate
  <2> HIDE DEF r
  <2>3. /\ IsFiniteSet(requests \cup {r}) /\ Cardinality(requests) \in Nat
        /\ Cardinality(requests \cup {r}) =
              IF r \in requests THEN Cardinality(requests) ELSE Cardinality(requests) + 1
      BY FS_AddElement, FS_CardinalityType
  <2>1. IsFiniteSet(requests') /\ Cardinality(requests') <= MaxRequests
      BY <2>2, <2>3
  <2> QED
      BY <1>8, <2>1 DEF Mutate
<1>9. CASE UNCHANGED bucketVars
    BY <1>9 DEF bucketVars
<1> HIDE DEF PageTyped
<1> QED
    BY <1>2, <1>3, <1>4, <1>5, <1>6, <1>7, <1>8, <1>9 DEF BucketNext

LEMMA SignInTypeInit == SignInInit => SignInTypeOK
<1> SUFFICES ASSUME SignInInit PROVE SignInTypeOK
    OBVIOUS
<1>1. place \in [at : Route, target : Target \cup {NoTarget}]
    BY DEF SignInInit, Route
<1>2. form \in [step : {"first", "password", "success"}, email : Email,
               edited : BOOLEAN, busy : BOOLEAN]
    BY DEF SignInInit, Blank, Email
<1> QED
    BY <1>1, <1>2 DEF SignInInit, SignInTypeOK

LEMMA SignInTypeStep == SignInTypeOK /\ [SignInNext]_signInVars => SignInTypeOK'
<1> SUFFICES ASSUME SignInTypeOK, [SignInNext]_signInVars PROVE SignInTypeOK'
    OBVIOUS
<1> USE SignInAssumption DEF SignInTypeOK
<1>1. ASSUME NEW P \in SUBSET posts, Unmounted(P) PROVE posts' \subseteq Post
  <2>1. ASSUME NEW p \in P PROVE [p EXCEPT !.mounted = FALSE] \in Post
    <3>1. p \in Post
        OBVIOUS
    <3> QED
        BY <3>1 DEF Post
  <2> QED
      BY <1>1, <2>1 DEF Unmounted
<1>2. ASSUME NEW r \in Route, NEW t \in Target \cup {NoTarget}, Enter(r, t)
      PROVE  /\ place' \in [at : Route, target : Target \cup {NoTarget}]
             /\ form' \in [step : {"first", "password", "success"}, email : Email,
                           edited : BOOLEAN, busy : BOOLEAN]
    BY <1>2 DEF Enter, Blank, Email
<1>3. ASSUME NEW t \in Target, Guard(t)
      PROVE  /\ place' \in [at : Route, target : Target \cup {NoTarget}]
             /\ form' \in [step : {"first", "password", "success"}, email : Email,
                           edited : BOOLEAN, busy : BOOLEAN]
             /\ wanted' \in Target \cup {NoTarget}
    BY <1>2, <1>3 DEF Guard, Route
<1>4. ASSUME NEW t \in Target, Open(t) PROVE SignInTypeOK'
    BY <1>1, <1>3, <1>4 DEF Open
<1>5. CASE LoadPage
  <2>1. /\ cookies' \in BOOLEAN /\ context' \in BOOLEAN /\ timer' \in BOOLEAN
        /\ posts' \subseteq Post
      BY <1>5 DEF LoadPage
  <2>2. ASSUME NEW t \in Target, Guard(t) PROVE SignInTypeOK'
      BY <1>3, <2>1, <2>2
  <2>3. ASSUME NEW r \in Route, Enter(r, NoTarget), wanted' = NoTarget PROVE SignInTypeOK'
      BY <1>2, <2>1, <2>3
  <2> QED
      BY <1>5, <2>2, <2>3 DEF LoadPage, Route
<1>6. CASE FollowLink
    BY <1>1, <1>2, <1>6 DEF FollowLink, Route
<1>7. CASE LeaveHome
    BY <1>2, <1>7 DEF LeaveHome, Route
<1>8. CASE ToProvider
    BY <1>2, <1>8 DEF ToProvider, Route
<1>9. CASE CompleteAuth
    BY <1>2, <1>9 DEF CompleteAuth, Route
<1>10. ASSUME NEW e \in Email, TypeEmail(e) PROVE SignInTypeOK'
    BY <1>10 DEF TypeEmail
<1>11. CASE ContinueLogin /\ ~ToProvider
    BY <1>11 DEF ContinueLogin
<1>12. ASSUME NEW n \in 1 .. MaxSent, NEW busy \in BOOLEAN, Submits(n, busy)
       PROVE  SignInTypeOK'
  <2> DEFINE new == [n |-> n, at |-> place.at, target |-> place.target,
                     email |-> form.email, edited |-> form.edited, mounted |-> TRUE]
  <2>1. new \in Post
      BY DEF Post
  <2>2. /\ posts' = posts \cup {new} /\ form' = [form EXCEPT !.busy = busy]
        /\ UNCHANGED <<place, cookies, context, timer, wanted>>
      BY <1>12 DEF Submits
  <2> HIDE DEF new
  <2> QED
      BY <2>1, <2>2
<1>13. ASSUME NEW p \in posts, LoginAnswered(p) PROVE SignInTypeOK'
  <2>1. p.target \in Target \cup {NoTarget}
      BY DEF Post
  <2> QED
      BY <1>1, <1>2, <1>13, <2>1 DEF LoginAnswered, SignedIn, Route
<1>14. ASSUME NEW p \in posts, FormAnswered(p) \/ FormFails(p) PROVE SignInTypeOK'
    BY <1>14 DEF FormAnswered, FormFails
<1>15. CASE TimerFires
    BY <1>1, <1>3, <1>15 DEF TimerFires
<1>16. CASE UNCHANGED signInVars
    BY <1>16 DEF signInVars
<1> QED
    BY <1>4, <1>5, <1>6, <1>7, <1>8, <1>9, <1>10, <1>11, <1>12, <1>13, <1>14, <1>15, <1>16
       DEF SignInNext, ProviderButton, ContinueLogin, SubmitLogin, SubmitReset, SubmitCode,
           SubmitInvite, SubmitAccept

LEMMA SettingsTypeInit == SettingsInit => SettingsTypeOK
    BY BucketSettingsAssumption DEF SettingsInit, SettingsTypeOK

LEMMA SettingsTypeStep == SettingsTypeOK /\ [SettingsNext]_settingsVars => SettingsTypeOK'
<1> SUFFICES ASSUME SettingsTypeOK, [SettingsNext]_settingsVars PROVE SettingsTypeOK'
    OBVIOUS
<1> USE DEF SettingsTypeOK, deleting
<1>1. CASE EditName \/ HandleCancelName
    BY <1>1 DEF EditName, HandleCancelName
<1>2. ASSUME NEW v \in BucketName, TypeName(v) \/ RenamedElsewhere(v) \/ TypeConfirmation(v)
      PROVE  SettingsTypeOK'
    BY <1>2 DEF TypeName, RenamedElsewhere, TypeConfirmation
<1>3. ASSUME NEW n \in 1 .. MaxPatches, HandleSaveName(n) PROVE SettingsTypeOK'
  <2> DEFINE sent == [n |-> n, to |-> bucketName, phase |-> "sent"]
  <2>1. sent \in Patch
      BY DEF Patch
  <2>2. /\ patches' = patches \/ patches' = patches \cup {sent}
        /\ lastSaved' \in {lastSaved, bucketName} /\ isEditingName' \in BOOLEAN
        /\ strayName' \in BOOLEAN
        /\ UNCHANGED <<name, cachedName, bucketName, nameFetch, readName, deleting>>
      BY <1>3 DEF HandleSaveName
  <2> HIDE DEF sent
  <2> QED
      BY <2>1, <2>2
<1>4. ASSUME NEW p \in patches, PatchServed(p) PROVE SettingsTypeOK'
    BY <1>4 DEF PatchServed, Patch
<1>5. ASSUME NEW p \in patches, PatchFails(p) \/ PatchAnswered(p) PROVE SettingsTypeOK'
    BY <1>5 DEF PatchFails, PatchAnswered
<1>6. CASE NameRead \/ NameFetched
    BY <1>6 DEF NameRead, NameFetched
<1>7. CASE HandleDeleteBucket \/ DeletionAnswered
    BY <1>7 DEF HandleDeleteBucket, DeletionAnswered
<1>8. CASE UNCHANGED settingsVars
    BY <1>8 DEF settingsVars
<1> QED
    BY <1>1, <1>2, <1>3, <1>4, <1>5, <1>6, <1>7, <1>8 DEF SettingsNext

(* The server may not list a bucket that is not there.                     *)
LEMMA ShareTypeInit == ShareInit => ShareTypeOK
<1> SUFFICES ASSUME ShareInit PROVE ShareTypeOK
    OBVIOUS
<1>1. Nobody \in Shares
    BY DEF Nobody, Shares
<1> QED
    BY <1>1 DEF ShareInit, ShareTypeOK, Creation

LEMMA ShareTypeStep == ShareTypeOK /\ [ShareNext]_shareVars => ShareTypeOK'
<1> SUFFICES ASSUME ShareTypeOK, [ShareNext]_shareVars PROVE ShareTypeOK'
    OBVIOUS
<1> USE DEF ShareTypeOK
<1>1. CASE OpenDialog \/ CloseDialog
    BY <1>1 DEF OpenDialog, CloseDialog, shareServer
<1>2. ASSUME NEW i \in Invitee, NEW g \in Right \cup {"remove", "none"},
             UpdateShareWith([cardShareWith EXCEPT ![i] = g])
      PROVE  ShareTypeOK'
  <2>1. [cardShareWith EXCEPT ![i] = g] \in Shares
      BY DEF Shares
  <2> QED
      BY <1>2, <2>1 DEF UpdateShareWith, shareServer
<1>3. ASSUME NEW b \in Bucket, SubmitDialog(b) PROVE ShareTypeOK'
  <2>1. Nobody \in Shares
      BY DEF Nobody, Shares
  <2> QED
      BY <1>3, <2>1 DEF SubmitDialog, shareServer, Creation
<1>4. ASSUME NEW b \in Bucket,
             NEW s \in {"put", "done", "success", "error"}, Steps(b, s)
      PROVE  creations' \in [Bucket -> Creation]
  <2>1. [creations[b] EXCEPT !.step = s] \in Creation
      BY DEF Creation
  <2> QED
      BY <1>4, <2>1 DEF Steps
<1>5. ASSUME NEW b \in Bucket, BucketPosted(b) PROVE ShareTypeOK'
    BY <1>4, <1>5 DEF BucketPosted, dialog
<1>s. ASSUME NEW b \in Bucket, Shared(b) PROVE bucketMembers' \in [Bucket -> Shares]
  <2>1. PICK added \in SUBSET Invitee :
           bucketMembers' = [bucketMembers EXCEPT ![b] =
               [i \in Invitee |-> IF i \in added THEN creations[b].members[i] ELSE "none"]]
      BY <1>s DEF Shared
  <2>2. [i \in Invitee |-> IF i \in added THEN creations[b].members[i] ELSE "none"] \in Shares
      BY DEF Creation, Shares
  <2> QED
      BY <2>1, <2>2
<1>6. ASSUME NEW b \in Bucket, MembersPut(b) PROVE ShareTypeOK'
  <2>1. bucketMembers' \in [Bucket -> Shares]
      BY <1>s, <1>6 DEF MembersPut
  <2>2. creations' \in [Bucket -> Creation]
      BY <1>4, <1>6 DEF MembersPut
  <2> QED
      BY <1>6, <2>1, <2>2 DEF MembersPut, dialog
<1>7. ASSUME NEW b \in Bucket, CreationFails(b) PROVE ShareTypeOK'
  <2>1. bucketMembers' \in [Bucket -> Shares]
      BY <1>s, <1>7 DEF CreationFails
  <2>2. creations' \in [Bucket -> Creation]
      BY <1>4, <1>7 DEF CreationFails
  <2>3. created \subseteq created' /\ created' \subseteq Bucket
      BY <1>7 DEF CreationFails
  <2> QED
      BY <1>7, <2>1, <2>2, <2>3 DEF CreationFails, dialog
<1>8. ASSUME NEW b \in Bucket, CreationSucceeds(b) PROVE ShareTypeOK'
    BY <1>4, <1>8 DEF CreationSucceeds, dialog
<1>9. CASE BucketsFetched
    BY <1>9 DEF BucketsFetched, dialog
<1>10. CASE UNCHANGED shareVars
    BY <1>10 DEF shareVars
<1> QED
    BY <1>1, <1>2, <1>3, <1>5, <1>6, <1>7, <1>8, <1>9, <1>10
       DEF ShareNext, AddEmail, SetGroup, RemoveFromList

LEMMA ListingTypeInit == ListingInit => ListingTypeOK
    BY DEF ListingInit, ListingTypeOK

LEMMA ListingTypeStep == ListingTypeOK /\ [ListingNext]_listingVars => ListingTypeOK'
<1> SUFFICES ASSUME ListingTypeOK, [ListingNext]_listingVars PROVE ListingTypeOK'
    OBVIOUS
<1> USE DEF ListingTypeOK
<1>1. ASSUME NEW i \in Thing, StatusChanges(i) PROVE ListingTypeOK'
    BY <1>1 DEF StatusChanges
<1>2. CASE BucketFetched \/ TrashFetched
    BY <1>2 DEF BucketFetched, TrashFetched
<1>3. ASSUME NEW d \in Dir, OpenFolder(d) PROVE ListingTypeOK'
    BY <1>3 DEF OpenFolder
<1>4. ASSUME NEW f \in Dir \cup {Top}, FollowCrumb(f) PROVE ListingTypeOK'
    BY <1>4 DEF FollowCrumb
<1>5. ASSUME NEW v \in {"list", "grid", "trash"}, SetView(v) PROVE ListingTypeOK'
    BY <1>5 DEF SetView
<1>6. CASE UNCHANGED listingVars
    BY <1>6 DEF listingVars
<1> QED
    BY <1>1, <1>2, <1>3, <1>4, <1>5, <1>6 DEF ListingNext

(* A dialog names one of the items: the component of its key is there.     *)
LEMMA DialogTypeInit == DialogInit => DialogTypeOK
    BY DEF DialogInit, DialogTypeOK, Mode

LEMMA DialogTypeStep ==
    DialogTypeOK /\ DialogInv /\ [DialogNext]_dialogVars => DialogTypeOK'
<1> SUFFICES ASSUME DialogTypeOK, DialogInv, [DialogNext]_dialogVars PROVE DialogTypeOK'
    OBVIOUS
<1> USE DEF DialogTypeOK
<1>1. ASSUME NEW n \in DOMAIN tableRows
      PROVE  n \in 1 .. 2 /\ tableRows[n] \in RowItem
    BY DEF Arrangements
<1>2. ASSUME NEW n \in DOMAIN tableRows, Ask(n) PROVE DialogTypeOK'
  <2>1. Key(tableRows, n) \in Keys
      BY <1>1 DEF Key, Keys, Mode
  <2> QED
      BY <1>1, <1>2, <2>1 DEF Ask
<1>3. CASE Cancel \/ PermissionChanges
    BY <1>3 DEF Cancel, PermissionChanges
<1>4. CASE Confirm
  <2>1. Visible /\ asked # NoDialog /\ asked.chosen \in RowItem
      BY <1>4 DEF Confirm, Visible
  <2>2. Named \in RowItem
    <3>1. CASE viewMode = "trash"
        BY <2>1, <3>1 DEF Named
    <3>2. CASE viewMode # "trash"
        BY <1>1, <2>1, <3>2, DialogNames
    <3> QED
        BY <3>1, <3>2
  <2> QED
      BY <1>4, <2>1, <2>2 DEF Confirm
<1>5. ASSUME NEW s \in Arrangements, RowsChange(s) PROVE DialogTypeOK'
    BY <1>5 DEF RowsChange
<1>6. ASSUME NEW v \in Mode, ShowView(v) PROVE DialogTypeOK'
    BY <1>6 DEF ShowView
<1>7. CASE UNCHANGED dialogVars
    BY <1>7 DEF dialogVars
<1> QED
    BY <1>2, <1>3, <1>4, <1>5, <1>6, <1>7 DEF DialogNext

(* In every behaviour of the parts together each of them behaves as it     *)
(* does alone: it takes its steps, or none while another one moves.        *)
LEMMA EachPartMoves ==
    ASSUME [Next]_partsVars
    PROVE  /\ [BucketNext]_bucketVars /\ [OverlayNext]_overlayVars /\ [ThemeNext]_themeVars
           /\ [ProfileNext]_profileVars /\ [SignInNext]_signInVars
           /\ [MembersFormNext]_membersFormVars /\ [SettingsNext]_settingsVars
           /\ [ShareNext]_shareVars /\ [ListingNext]_listingVars /\ [FeedNext]_feedVars
           /\ [DialogNext]_dialogVars
BY DEF Next, partsVars

(* So that what is proved of a part holds in the run of all the parts.     *)
THEOREM PartsBehaveAlone ==
    Spec => /\ BucketSpec /\ OverlaySpec /\ ThemeSpec /\ ProfileSpec /\ SignInSpec
            /\ MembersFormSpec /\ SettingsSpec /\ ShareSpec /\ ListingSpec /\ FeedSpec
            /\ DialogSpec
<1>1. Init => /\ BucketInit /\ OverlayInit /\ ThemeInit /\ ProfileInit /\ SignInInit
              /\ MembersFormInit /\ SettingsInit /\ ShareInit /\ ListingInit /\ FeedInit
              /\ DialogInit
    BY DEF Init
<1>2. [Next]_partsVars =>
           /\ [BucketNext]_bucketVars /\ [OverlayNext]_overlayVars /\ [ThemeNext]_themeVars
           /\ [ProfileNext]_profileVars /\ [SignInNext]_signInVars
           /\ [MembersFormNext]_membersFormVars /\ [SettingsNext]_settingsVars
           /\ [ShareNext]_shareVars /\ [ListingNext]_listingVars /\ [FeedNext]_feedVars
           /\ [DialogNext]_dialogVars
    BY EachPartMoves
<1> QED
    BY <1>1, <1>2, PTL
       DEF Spec, BucketSpec, OverlaySpec, ThemeSpec, ProfileSpec, SignInSpec, MembersFormSpec,
           SettingsSpec, ShareSpec, ListingSpec, FeedSpec, DialogSpec

PartsInv ==
    /\ CacheInv /\ PageTyped /\ OverlayInv
    /\ ThemeTypeOK /\ ProfileTypeOK /\ SignInTypeOK
    /\ MembersFormTypeOK /\ SettingsTypeOK /\ ShareTypeOK /\ ListingTypeOK
    /\ FeedInv
    /\ DialogTypeOK /\ DialogInv

(* The variables of the parts of the pages keep their types, whichever     *)
(* part moves.                                                             *)
THEOREM PartsTypeCorrect == Spec => []TypeOK
<1>1. Init => PartsInv
    BY CacheInit, PageTypedInit, OverlayInvInit, ThemeTypeInit, ProfileTypeInit, SignInTypeInit,
       FormTypeInit, SettingsTypeInit, ShareTypeInit, ListingTypeInit, FeedInvInit,
       DialogTypeInit, DialogInvInit
       DEF Init, PartsInv
<1>2. PartsInv /\ [Next]_partsVars => PartsInv'
  <2> SUFFICES ASSUME PartsInv, [Next]_partsVars PROVE PartsInv'
      OBVIOUS
  <2> QED
      BY EachPartMoves, CacheStep, PageTypedStep, OverlayInvStep, ThemeTypeStep, ProfileTypeStep,
         SignInTypeStep, FormTypeStep, SettingsTypeStep, ShareTypeStep, ListingTypeStep,
         FeedStep, DialogTypeStep, DialogInvStep
         DEF PartsInv
<1>3. PartsInv => TypeOK
  <2> SUFFICES ASSUME PartsInv PROVE TypeOK
      OBVIOUS
  <2>1. BucketTypeOK
      BY DEF PartsInv, CacheInv, Typed, PageTyped, BucketTypeOK
  <2>2. OverlayTypeOK /\ FeedTypeOK
      BY DEF PartsInv, OverlayInv, FeedInv
  <2> QED
      BY <2>1, <2>2 DEF PartsInv, TypeOK
<1> QED
    BY <1>1, <1>2, <1>3, PTL DEF Spec

-----------------------------------------------------------------------------
(* The views of a bucket walk up a finite tree.  The least natural number  *)
(* with a property, and so induction, comes from the strict subsets of     *)
(* finite sets, which are well founded.                                    *)
LEMMA LeastNatural ==
    ASSUME NEW S \in SUBSET Nat, S # {}
    PROVE  \E m \in S : \A k \in S : m <= k
<1> DEFINE Below(k) == 0 .. k - 1
           T == {Below(k) : k \in S}
<1>1. T \subseteq FiniteSubsetsOf(Nat) /\ T # {}
  <2>1. \A k \in S : Below(k) \in SUBSET Nat /\ IsFiniteSet(Below(k))
      BY FS_Interval
  <2> QED
      BY <2>1 DEF FiniteSubsetsOf
<1>2. PICK x \in T : \A y \in T : ~(<<y, x>> \in StrictSubsetOrdering(Nat))
    BY <1>1, WFMin, FS_StrictSubsetOrderingWellFounded
<1>3. PICK m \in S : x = Below(m)
    OBVIOUS
<1>4. ASSUME NEW k \in S, k < m PROVE FALSE
  <2>1. k \in Below(m) /\ k \notin Below(k)
      BY <1>4
  <2>2. Below(k) \subseteq Below(m) /\ Below(k) # Below(m)
      BY <1>4, <2>1
  <2>3. <<Below(k), Below(m)>> \in StrictSubsetOrdering(Nat)
      BY <2>2 DEF StrictSubsetOrdering
  <2> QED
      BY <1>2, <1>3, <2>3
<1> QED
    BY <1>4

LEMMA EveryNatural ==
    ASSUME NEW S \in SUBSET Nat, 0 \in S, \A n \in S : n + 1 \in S
    PROVE  S = Nat
<1> SUFFICES ASSUME Nat \ S # {} PROVE FALSE
    OBVIOUS
<1>1. PICK m \in Nat \ S : \A k \in Nat \ S : m <= k
    BY LeastNatural
<1>2. m # 0 /\ m - 1 \in Nat
    BY <1>1
<1>3. m - 1 \in S
    BY <1>1, <1>2
<1> QED
    BY <1>1, <1>2, <1>3

(* No folder is above itself: the server never changes folder_id.          *)
Tree == ListingTypeOK /\ \A d \in Dir : d \notin Above(d)

ClosedFor(i, S) == \A j \in S \cup {i} : folderOf[j] \in S \cup {Top}
From(f) == {f} \cup Above(f)

LEMMA AboveIsLeast ==
    ASSUME ListingTypeOK, NEW i \in Thing
    PROVE  /\ Above(i) \subseteq Dir /\ ClosedFor(i, Above(i))
           /\ \A S \in SUBSET Dir : ClosedFor(i, S) => Above(i) \subseteq S
<1>1. Above(i) = {d \in Dir : \A S \in SUBSET Dir : ClosedFor(i, S) => d \in S}
    BY DEF Above, ClosedFor
<1>2. ASSUME NEW j \in Above(i) \cup {i} PROVE folderOf[j] \in Above(i) \cup {Top}
  <2>1. folderOf[j] \in Dir \cup {Top}
      BY <1>1 DEF ListingTypeOK, Thing
  <2>2. ASSUME NEW S \in SUBSET Dir, ClosedFor(i, S) PROVE folderOf[j] \in S \cup {Top}
      BY <1>1, <2>2 DEF ClosedFor
  <2> QED
      BY <1>1, <2>1, <2>2
<1> QED
    BY <1>1, <1>2 DEF ClosedFor

LEMMA AboveOneByOne ==
    ASSUME ListingTypeOK, NEW i \in Thing
    PROVE  Above(i) = IF folderOf[i] = Top THEN {} ELSE From(folderOf[i])
<1>1. folderOf[i] \in Dir \cup {Top} /\ Top \notin Thing /\ Dir \subseteq Thing
    BY ListingAssumption DEF ListingTypeOK, Thing
<1>2. CASE folderOf[i] = Top
  <2>1. ClosedFor(i, {})
      BY <1>2 DEF ClosedFor
  <2> QED
      BY <1>2, <2>1, AboveIsLeast
<1>3. CASE folderOf[i] # Top
  <2> DEFINE f == folderOf[i]
  <2>1. f \in Dir /\ f \in Thing
      BY <1>1, <1>3
  <2> HIDE DEF f
  <2>2. Above(f) \subseteq Dir /\ ClosedFor(f, Above(f))
      BY <2>1, AboveIsLeast
  <2>3. ClosedFor(i, From(f))
      BY <2>1, <2>2 DEF ClosedFor, From, f
  <2>4. Above(i) \subseteq From(f)
      BY <2>1, <2>2, <2>3, AboveIsLeast DEF From
  <2>5. f \in Above(i) /\ ClosedFor(i, Above(i)) /\ Above(i) \subseteq Dir
      BY <1>3, AboveIsLeast DEF ClosedFor, f
  <2>6. ClosedFor(f, Above(i))
      BY <2>5 DEF ClosedFor
  <2>7. Above(f) \subseteq Above(i)
      BY <2>1, <2>5, <2>6, AboveIsLeast
  <2> QED
      BY <1>3, <2>4, <2>5, <2>7 DEF From, f
<1> QED
    BY <1>2, <1>3

LEMMA AboveIsTransitive ==
    ASSUME ListingTypeOK, NEW i \in Thing, NEW d \in Above(i)
    PROVE  Above(d) \subseteq Above(i)
<1>1. Above(i) \subseteq Dir /\ ClosedFor(i, Above(i))
    BY AboveIsLeast
<1>2. d \in Thing /\ ClosedFor(d, Above(i))
    BY <1>1 DEF ClosedFor, Thing
<1> QED
    BY <1>1, <1>2, AboveIsLeast

(* The walk, as a function of the steps taken.                             *)
Up(found, g) == IF g \in found THEN folderOf[g] ELSE Top
Pace == 0 .. Cardinality(Dir)
Climb(f, found) ==
    CHOOSE c : c = [n \in Pace |-> IF n = 0 THEN f
                       ELSE LET below == c[n - 1] IN IF below \in found THEN folderOf[below] ELSE Top]

LEMMA WalkClimbs ==
    ASSUME NEW f, NEW found
    PROVE  WalkUp(f, found) = {Climb(f, found)[n] : n \in Pace} \cap found
BY DEF WalkUp, Climb, Pace

LEMMA DirIsFinite == IsFiniteSet(Dir) /\ Cardinality(Dir) \in Nat
    BY FS_Subset, FS_CardinalityType, ListingAssumption

LEMMA ClimbIs ==
    ASSUME ListingTypeOK, NEW f \in Dir \cup {Top}, NEW found \in SUBSET Dir
    PROVE  /\ Climb(f, found) \in [Pace -> Dir \cup {Top}]
           /\ Climb(f, found)[0] = f
           /\ \A n \in Nat : n + 1 \in Pace =>
                 Climb(f, found)[n + 1] = Up(found, Climb(f, found)[n])
<1> DEFINE Walks(c, m) == /\ c \in [0 .. m -> Dir \cup {Top}] /\ c[0] = f
                          /\ \A n \in 1 .. m : c[n] = Up(found, c[n - 1])
           S == {m \in Nat : \E c : Walks(c, m)}
<1>1. S = Nat
  <2>1. Walks([n \in 0 .. 0 |-> f], 0)
      OBVIOUS
  <2>2. ASSUME NEW m \in S PROVE m + 1 \in S
    <3>1. PICK c : Walks(c, m)
        OBVIOUS
    <3> DEFINE e == [n \in 0 .. m + 1 |-> IF n = m + 1 THEN Up(found, c[m]) ELSE c[n]]
    <3>2. Up(found, c[m]) \in Dir \cup {Top}
        BY <3>1 DEF Up, ListingTypeOK, Thing
    <3>3. e \in [0 .. m + 1 -> Dir \cup {Top}] /\ e[0] = f
        BY <3>1, <3>2
    <3>4. ASSUME NEW n \in 1 .. m + 1 PROVE e[n] = Up(found, e[n - 1])
      <4>1. e[n - 1] = c[n - 1]
          OBVIOUS
      <4>2. CASE n = m + 1
          BY <4>1, <4>2
      <4>3. CASE n # m + 1
        <5>1. n \in 1 .. m /\ e[n] = c[n]
            BY <4>3
        <5> QED
            BY <3>1, <4>1, <5>1
      <4> QED
          BY <4>2, <4>3
    <3>5. Walks(e, m + 1)
        BY <3>3, <3>4
    <3> HIDE DEF e, Walks
    <3> QED
        BY <3>5
  <2>3. 0 \in S
      BY <2>1
  <2> QED
      BY <2>2, <2>3, EveryNatural
<1>2. PICK c : Walks(c, Cardinality(Dir))
    BY <1>1, DirIsFinite
<1>3. c = [n \in Pace |-> IF n = 0 THEN f
              ELSE LET below == c[n - 1] IN IF below \in found THEN folderOf[below] ELSE Top]
    BY <1>2, DirIsFinite DEF Pace, Up
<1>4. Climb(f, found) = [n \in Pace |-> IF n = 0 THEN f
              ELSE LET below == Climb(f, found)[n - 1]
                   IN  IF below \in found THEN folderOf[below] ELSE Top]
    BY <1>3 DEF Climb
<1> DEFINE w == Climb(f, found)
<1>5. w = [n \in Pace |-> IF n = 0 THEN f ELSE Up(found, w[n - 1])]
    BY <1>4 DEF Up
<1> HIDE DEF w
<1>6. \A g : Up(found, g) \in Dir \cup {Top}
    BY DEF Up, ListingTypeOK, Thing
<1>7. w \in [Pace -> Dir \cup {Top}] /\ w[0] = f
    BY <1>5, <1>6, DirIsFinite DEF Pace
<1>8. ASSUME NEW n \in Nat, n + 1 \in Pace PROVE w[n + 1] = Up(found, w[n])
  <2>1. n + 1 # 0 /\ (n + 1) - 1 = n
      OBVIOUS
  <2> QED
      BY <1>5, <1>8, <2>1
<1> QED
    BY <1>7, <1>8 DEF w

(* A walk leaves what is found before it has taken all its steps.          *)
LEMMA ClimbEnds ==
    ASSUME Tree, NEW f \in Dir \cup {Top}, NEW found \in SUBSET Dir
    PROVE  Climb(f, found)[Cardinality(Dir)] \notin found
<1> DEFINE c == Climb(f, found)
           N == Cardinality(Dir)
<1>1. /\ c \in [Pace -> Dir \cup {Top}] /\ N \in Nat /\ Pace = 0 .. N
      /\ \A n \in Nat : n + 1 <= N => c[n + 1] = Up(found, c[n])
  <2>1. N \in Nat /\ Pace = 0 .. N /\ \A n \in Nat : n + 1 <= N => n + 1 \in Pace
      BY DirIsFinite DEF Pace
  <2>2. /\ c \in [Pace -> Dir \cup {Top}]
        /\ \A n \in Nat : n + 1 \in Pace => c[n + 1] = Up(found, c[n])
      BY ClimbIs DEF Tree
  <2> HIDE DEF c, N
  <2> QED
      BY <2>1, <2>2
<1> SUFFICES ASSUME c[N] \in found PROVE FALSE
    OBVIOUS
<1> HIDE DEF c, N
<1>2. Top \notin found /\ found \subseteq Thing
    BY ListingAssumption DEF Thing
<1>3. ASSUME NEW n \in Pace PROVE c[n] \in found
  <2> SUFFICES ASSUME c[n] \notin found PROVE FALSE
      OBVIOUS
  <2> DEFINE S == {k \in Nat : n + k <= N => c[n + k] \notin found}
  <2>1. 0 \in S
      BY <1>1
  <2>2. ASSUME NEW k \in S PROVE k + 1 \in S
    <3> SUFFICES ASSUME n + (k + 1) <= N PROVE c[n + (k + 1)] \notin found
        OBVIOUS
    <3>1. n + k \in Nat /\ (n + k) + 1 = n + (k + 1)
        BY <1>1
    <3>2. c[n + (k + 1)] = Up(found, c[n + k]) /\ c[n + k] \notin found
        BY <1>1, <3>1
    <3> QED
        BY <1>2, <3>2 DEF Up
  <2>3. S = Nat
      BY <2>1, <2>2, EveryNatural
  <2>4. N - n \in Nat /\ n + (N - n) = N
      BY <1>1
  <2>5. N - n \in S
      BY <2>3, <2>4
  <2>6. n + (N - n) <= N => c[n + (N - n)] \notin found
      BY <2>5
  <2> QED
      BY <1>1, <2>4, <2>6
<1>4. ASSUME NEW a \in Pace, NEW b \in Pace, a < b PROVE c[b] \in Above(c[a])
  <2>1. c[a] \in Thing
      BY <1>2, <1>3
  <2>2. /\ Above(c[a]) \subseteq Dir
        /\ \A j \in Above(c[a]) \cup {c[a]} : folderOf[j] \in Above(c[a]) \cup {Top}
      BY <2>1, AboveIsLeast DEF Tree, ClosedFor
  <2> DEFINE S == {k \in Nat : a + (k + 1) <= N => c[a + (k + 1)] \in Above(c[a])}
  <2>3. ASSUME NEW n \in Nat, n + 1 <= N PROVE c[n + 1] = folderOf[c[n]] /\ c[n + 1] # Top
    <3>1. n \in Pace /\ n + 1 \in Pace
        BY <1>1, <2>3
    <3> QED
        BY <1>1, <1>2, <1>3, <2>3, <3>1 DEF Up
  <2>4. 0 \in S
    <3> SUFFICES ASSUME a + 1 <= N PROVE c[a + 1] \in Above(c[a])
        OBVIOUS
    <3> QED
        BY <1>1, <2>2, <2>3
  <2>5. ASSUME NEW k \in S PROVE k + 1 \in S
    <3> SUFFICES ASSUME a + ((k + 1) + 1) <= N PROVE c[a + ((k + 1) + 1)] \in Above(c[a])
        OBVIOUS
    <3>1. a + (k + 1) \in Nat /\ (a + (k + 1)) + 1 = a + ((k + 1) + 1)
        BY <1>1
    <3>2. c[a + (k + 1)] \in Above(c[a])
        BY <1>1, <3>1
    <3>3. c[a + ((k + 1) + 1)] = folderOf[c[a + (k + 1)]] /\ c[a + ((k + 1) + 1)] # Top
        BY <2>3, <3>1
    <3> QED
        BY <2>2, <3>2, <3>3
  <2>6. S = Nat
      BY <2>4, <2>5, EveryNatural
  <2>7. b - a - 1 \in Nat /\ a + ((b - a - 1) + 1) = b
      BY <1>1, <1>4
  <2>8. b - a - 1 \in S
      BY <2>6, <2>7
  <2>9. a + ((b - a - 1) + 1) <= N => c[a + ((b - a - 1) + 1)] \in Above(c[a])
      BY <2>8
  <2> QED
      BY <1>1, <2>7, <2>9
<1>5. \E a, b \in Pace : a # b /\ c[a] = c[b]
  <2>1. IsFiniteSet(Pace) /\ Cardinality(Pace) = N + 1
      BY <1>1, FS_Interval
  <2>2. c \in [Pace -> Dir]
      BY <1>1, <1>3
  <2> QED
      BY <1>1, <2>1, <2>2, DirIsFinite, FS_PigeonHole DEF N
<1>6. PICK a \in Pace, b \in Pace : a < b /\ c[a] = c[b]
    BY <1>1, <1>5
<1> QED
    BY <1>3, <1>4, <1>6 DEF Tree

(* The location in the trash is the whole path.                            *)
LEMMA LocationIsAbove ==
    ASSUME Tree, NEW i \in Thing
    PROVE  OriginalLocation(i) = Above(i)
<1> DEFINE f == folderOf[i]
           c == Climb(f, Dir)
           N == Cardinality(Dir)
           W == {c[n] : n \in Pace} \cap Dir
<1>1. /\ f \in Dir \cup {Top} /\ Top \notin Dir /\ N \in Nat /\ Pace = 0 .. N
      /\ Above(i) \subseteq Dir /\ ClosedFor(i, Above(i))
    BY ListingAssumption, DirIsFinite, AboveIsLeast DEF Tree, ListingTypeOK, Pace
<1>2. OriginalLocation(i) = W
    BY WalkClimbs DEF OriginalLocation
<1>3. /\ c \in [Pace -> Dir \cup {Top}] /\ c[0] = f /\ c[N] \notin Dir
      /\ \A n \in Nat : n + 1 \in Pace => c[n + 1] = Up(Dir, c[n])
    BY <1>1, ClimbIs, ClimbEnds DEF Tree
<1> HIDE DEF f, c, N
<1>4. W \subseteq Above(i)
  <2> DEFINE S == {n \in Nat : n <= N => c[n] \in Above(i) \cup {Top}}
  <2>1. 0 \in S
      BY <1>1, <1>3 DEF ClosedFor, f
  <2>2. ASSUME NEW n \in S PROVE n + 1 \in S
    <3> SUFFICES ASSUME n + 1 <= N PROVE c[n + 1] \in Above(i) \cup {Top}
        OBVIOUS
    <3>1. c[n + 1] = Up(Dir, c[n]) /\ c[n] \in Above(i) \cup {Top}
        BY <1>1, <1>3
    <3> QED
        BY <1>1, <3>1 DEF Up, ClosedFor
  <2>3. S = Nat
      BY <2>1, <2>2, EveryNatural
  <2>4. ASSUME NEW n \in Pace PROVE c[n] \in Above(i) \cup {Top}
    <3>1. n \in S /\ n <= N
        BY <1>1, <2>3
    <3> QED
        BY <3>1
  <2> QED
      BY <1>1, <2>4
<1>5. ClosedFor(i, W)
  <2>1. ASSUME NEW n \in Pace, c[n] \in Dir PROVE folderOf[c[n]] \in W \cup {Top}
    <3>1. n + 1 \in Pace
        BY <1>1, <1>3, <2>1
    <3>2. c[n + 1] = folderOf[c[n]] /\ c[n + 1] \in Dir \cup {Top}
        BY <1>1, <1>3, <2>1, <3>1 DEF Up
    <3> QED
        BY <3>1, <3>2
  <2>2. folderOf[i] \in W \cup {Top}
      BY <1>1, <1>3 DEF f
  <2> QED
      BY <2>1, <2>2 DEF ClosedFor
<1>6. Above(i) \subseteq W
    BY <1>5, AboveIsLeast DEF Tree
<1> QED
    BY <1>2, <1>4, <1>6

(* The breadcrumbs are the path up to the first folder that is missing.    *)
Missing == Dir \ bucketItems
Crumbs(f) == {d \in From(f) : (From(f) \ Above(d)) \cap Missing = {}}

LEMMA BreadcrumbsAreCrumbs ==
    ASSUME Tree, NEW f \in Dir
    PROVE  Breadcrumbs(f) = Crumbs(f)
<1> DEFINE found == Dir \cap bucketItems
           c == Climb(f, found)
           N == Cardinality(Dir)
<1>1. /\ Top \notin Dir /\ N \in Nat /\ Pace = 0 .. N /\ Dir \subseteq Thing
      /\ Above(f) \subseteq Dir /\ ClosedFor(f, Above(f))
    BY ListingAssumption, DirIsFinite, AboveIsLeast DEF Tree, Pace, Thing
<1>2. Breadcrumbs(f) = {c[n] : n \in Pace} \cap found
    BY WalkClimbs DEF Breadcrumbs
<1>3. /\ c \in [Pace -> Dir \cup {Top}] /\ c[0] = f /\ c[N] \notin found
      /\ \A n \in Nat : n + 1 \in Pace => c[n + 1] = Up(found, c[n])
    BY ClimbIs, ClimbEnds DEF Tree
<1>4. found \subseteq Dir /\ found \cap Missing = {} /\ Dir \ Missing \subseteq found
    BY DEF Missing
<1> HIDE DEF c, N, found
<1>5. ASSUME NEW g \in Dir, folderOf[g] # Top
      PROVE  folderOf[g] \in Dir /\ Above(g) = From(folderOf[g])
    BY <1>1, <1>5, AboveOneByOne DEF Tree, ListingTypeOK
<1>6. ASSUME NEW n \in Pace, c[n] \in found PROVE c[n] \in Crumbs(f)
  <2> DEFINE S == {m \in Nat : m <= N /\ c[m] \in found => c[m] \in Crumbs(f)}
  <2>1. 0 \in S
      BY <1>3, <1>4 DEF Crumbs, From
  <2>2. ASSUME NEW m \in S PROVE m + 1 \in S
    <3> SUFFICES ASSUME m + 1 <= N, c[m + 1] \in found PROVE c[m + 1] \in Crumbs(f)
        OBVIOUS
    <3> DEFINE g == c[m]
               h == c[m + 1]
    <3>1. h = Up(found, g) /\ h # Top
        BY <1>1, <1>3, <1>4
    <3>2. g \in found /\ h = folderOf[g] /\ h \in found
        BY <3>1 DEF Up
    <3>3. g \in Crumbs(f)
        BY <1>1, <3>2
    <3> HIDE DEF g, h
    <3>4. g \in Dir /\ Above(g) = From(h)
        BY <1>4, <1>5, <3>1, <3>2
    <3>5. h \in From(f)
        BY <1>1, <3>1, <3>2, <3>3 DEF Crumbs, From, ClosedFor
    <3>6. (From(f) \ Above(h)) \cap Missing = {}
        BY <1>4, <3>2, <3>3, <3>4 DEF Crumbs, From
    <3> QED
        BY <3>5, <3>6 DEF Crumbs, h
  <2>3. S = Nat
      BY <2>1, <2>2, EveryNatural
  <2>4. n \in S /\ n <= N
      BY <1>1, <2>3
  <2> QED
      BY <1>6, <2>4
<1>7. ASSUME NEW d \in Crumbs(f) PROVE d \in found /\ \E n \in Pace : c[n] = d
  <2>1. d \in Dir /\ d \notin Above(d) /\ d \in From(f)
      BY <1>1 DEF Crumbs, From, Tree
  <2>2. d \in found
      BY <1>4, <2>1 DEF Crumbs
  <2>3. ASSUME NEW g \in From(f), d \in Above(g) PROVE g \in found
    <3>1. g \in Dir /\ g \notin Above(g)
        BY <1>1 DEF From, Tree
    <3>2. g \notin Above(d)
        BY <1>1, <2>3, <3>1, AboveIsTransitive DEF Tree
    <3> QED
        BY <1>4, <3>1, <3>2 DEF Crumbs
  <2> DEFINE Passed(n) == \/ \E k \in Pace : c[k] = d
                          \/ c[n] \in From(f) /\ d \in From(c[n])
             S == {n \in Nat : n <= N => Passed(n)}
  <2>4. 0 \in S
      BY <1>3, <2>1 DEF From
  <2>5. ASSUME NEW n \in S PROVE n + 1 \in S
    <3> SUFFICES ASSUME n + 1 <= N, ~ \E k \in Pace : c[k] = d
                 PROVE  c[n + 1] \in From(f) /\ d \in From(c[n + 1])
        OBVIOUS
    <3> DEFINE g == c[n]
    <3>1. n \in Pace /\ n + 1 \in Pace
        BY <1>1
    <3>2. g \in From(f) /\ d \in From(g) /\ d # g
        BY <1>1, <3>1
    <3>3. c[n + 1] = Up(found, g)
        BY <1>3, <3>1
    <3> HIDE DEF g
    <3>4. d \in Above(g) /\ g \in found /\ g \in Dir
        BY <1>4, <2>3, <3>2 DEF From
    <3>5. c[n + 1] = folderOf[g]
        BY <3>3, <3>4 DEF Up
    <3>6. folderOf[g] # Top
        BY <1>1, <3>4, AboveOneByOne DEF Tree
    <3>7. d \in From(folderOf[g])
        BY <1>5, <3>4, <3>6
    <3>8. folderOf[g] \in From(f)
        BY <1>1, <3>2, <3>6 DEF From, ClosedFor
    <3> QED
        BY <3>5, <3>7, <3>8
  <2>6. S = Nat
      BY <2>4, <2>5, EveryNatural
  <2>7. N \in S /\ N \in Pace
      BY <1>1, <2>6
  <2>8. Passed(N)
      BY <1>1, <2>7
  <2>9. CASE c[N] \in From(f) /\ d \in From(c[N])
    <3>1. d \notin Above(c[N])
        BY <1>3, <2>3, <2>9
    <3> QED
        BY <2>2, <2>7, <2>9, <3>1 DEF From
  <2> QED
      BY <2>2, <2>8, <2>9
<1> QED
    BY <1>2, <1>6, <1>7

(* A folder can be opened from the root if all above it are listed.        *)
LEMMA ReachableAre ==
    ASSUME Tree, NEW f \in Dir \cup {Top}
    PROVE  f \in Reachable <=> f = Top \/ From(f) \cap Missing = {}
<1> DEFINE Opened(S) == /\ Top \in S
                        /\ \A g \in S, d \in Dir \cap bucketItems : folderOf[d] = g => d \in S
<1>1. Reachable = {g \in Dir \cup {Top} :
                      \A S \in SUBSET (Dir \cup {Top}) : Opened(S) => g \in S}
  <2>1. ASSUME NEW S \in SUBSET (Dir \cup {Top})
        PROVE  (Top \in S /\ \A g \in S : ItemsToShow(g) \cap Dir \subseteq S) <=> Opened(S)
      BY DEF ItemsToShow
  <2> QED
      BY <2>1 DEF Reachable
<1>2. Top \notin Dir /\ Dir \subseteq Thing /\ Top \notin Thing
    BY ListingAssumption DEF Thing
<1>3. \A d \in Dir : Above(d) \subseteq Dir /\ ClosedFor(d, Above(d))
    BY <1>2, AboveIsLeast DEF Tree
<1>4. ASSUME f \in Reachable PROVE f = Top \/ From(f) \cap Missing = {}
  <2> DEFINE S == {Top} \cup {g \in Dir : From(g) \cap Missing = {}}
  <2>1. ASSUME NEW g \in S, NEW d \in Dir \cap bucketItems, folderOf[d] = g PROVE d \in S
    <3>1. Above(d) \cap Missing = {}
        BY <1>2, <2>1, AboveOneByOne DEF Tree
    <3> QED
        BY <3>1 DEF From, Missing
  <2>2. Opened(S)
      BY <2>1
  <2> HIDE DEF Opened
  <2> QED
      BY <1>1, <1>4, <2>2
<1>5. ASSUME f \in Dir, From(f) \cap Missing = {},
             NEW S \in SUBSET (Dir \cup {Top}), Opened(S)
      PROVE  f \in S
  <2> SUFFICES ASSUME f \notin S PROVE FALSE
      OBVIOUS
  <2> DEFINE c == Climb(f, Dir)
             N == Cardinality(Dir)
  <2>1. /\ c \in [Pace -> Dir \cup {Top}] /\ c[0] = f /\ c[N] \notin Dir
        /\ N \in Nat /\ Pace = 0 .. N
        /\ \A n \in Nat : n + 1 \in Pace => c[n + 1] = Up(Dir, c[n])
      BY ClimbIs, ClimbEnds, DirIsFinite DEF Tree, Pace
  <2> HIDE DEF c, N
  <2> DEFINE Q == {n \in Nat : n <= N => c[n] \in From(f) \ S}
  <2>2. 0 \in Q
      BY <2>1 DEF From
  <2>3. ASSUME NEW n \in Q PROVE n + 1 \in Q
    <3> SUFFICES ASSUME n + 1 <= N PROVE c[n + 1] \in From(f) \ S
        OBVIOUS
    <3> DEFINE g == c[n]
    <3>1. g \in From(f) \ S /\ c[n + 1] = Up(Dir, g)
        BY <2>1
    <3> HIDE DEF g
    <3>2. g \in Dir \cap bucketItems
        BY <1>3, <1>5, <3>1 DEF From, Missing
    <3>3. folderOf[g] \notin S
        BY <1>5, <3>1, <3>2
    <3>4. folderOf[g] \in From(f)
        BY <1>3, <1>5, <3>1, <3>3 DEF From, ClosedFor
    <3> QED
        BY <3>1, <3>2, <3>3, <3>4 DEF Up
  <2>4. Q = Nat
      BY <2>2, <2>3, EveryNatural
  <2>5. N \in Q
      BY <2>1, <2>4
  <2> QED
      BY <1>3, <1>5, <2>1, <2>5 DEF From
<1>6. Top \in Reachable
    BY <1>1
<1> QED
    BY <1>1, <1>4, <1>5, <1>6

LEMMA FirstPageIsAll ==
    ASSUME ListingTypeOK, NEW f, Cardinality(ItemsToShow(f)) <= PageSize
    PROVE  ListRows(ItemsToShow(f)) = GridRows(ItemsToShow(f))
<1> DEFINE inFolder == ItemsToShow(f)
<1>1. IsFiniteSet(inFolder)
    BY ListingAssumption, FS_Subset DEF ItemsToShow, ListingTypeOK, Thing
<1> HIDE DEF inFolder
<1>2. Paged(inFolder) = {S \in SUBSET inFolder : Cardinality(S) = Cardinality(inFolder)}
    BY DEF Paged, inFolder
<1>3. \A S \in SUBSET inFolder : Cardinality(S) = Cardinality(inFolder) => S = inFolder
    BY <1>1, FS_Subset
<1> QED
    BY <1>2, <1>3 DEF ListRows, GridRows, inFolder

LEMMA TreeInit == ListingInit => Tree
    BY ListingTypeInit DEF ListingInit, Tree

LEMMA TreeStep == Tree /\ [ListingNext]_listingVars => Tree'
<1> SUFFICES ASSUME Tree, [ListingNext]_listingVars PROVE Tree'
    OBVIOUS
<1>1. UNCHANGED folderOf
    BY DEF ListingNext, StatusChanges, BucketFetched, TrashFetched, OpenFolder, FollowCrumb,
           SetView, listingVars
<1>2. \A d : Above(d)' = Above(d)
    BY <1>1 DEF Above
<1> QED
    BY <1>2, ListingTypeStep DEF Tree

(* The views of BucketView.tsx and the breadcrumbs of AppSidebarInset.tsx  *)
(* show every item in one folder, which can be opened if all above it are  *)
(* listed, and the path to it, as far as it is.                            *)
THEOREM ListingIsShown == Spec => []ListingShown
<1>1. Tree => ListingHolds
  <2> SUFFICES ASSUME Tree PROVE ListingHolds
      OBVIOUS
  <2>1. ASSUME NEW i \in bucketItems
        PROVE  /\ \E f \in Dir \cup {Top} : \A g \in Dir \cup {Top} : i \in ItemsToShow(g) <=> g = f
               /\ (\E f \in Reachable : i \in ItemsToShow(f)) <=> Above(i) \cap Missing = {}
    <3> DEFINE f == folderOf[i]
    <3>1. /\ i \in Thing /\ f \in Dir \cup {Top}
          /\ \A g : i \in ItemsToShow(g) <=> g = f
        BY DEF Tree, ListingTypeOK, ItemsToShow
    <3>2. (\E g \in Reachable : i \in ItemsToShow(g)) <=> f \in Reachable
        BY <3>1
    <3>3. Above(i) = IF f = Top THEN {} ELSE From(f)
        BY <3>1, AboveOneByOne DEF Tree
    <3> HIDE DEF f
    <3>4. f \in Reachable <=> Above(i) \cap Missing = {}
        BY <3>1, <3>3, ReachableAre
    <3> QED
        BY <3>1, <3>2, <3>4
  <2>2. \A i \in Thing : OriginalLocation(i) = Above(i)
      BY LocationIsAbove
  <2>3. ASSUME NEW f \in Dir
        PROVE  Breadcrumbs(f) = {d \in Above(f) \cup {f} :
                                   ((Above(f) \cup {f}) \ Above(d)) \cap Missing = {}}
    <3>1. Above(f) \cup {f} = From(f)
        BY DEF From
    <3> QED
        BY <3>1, BreadcrumbsAreCrumbs DEF Crumbs
  <2>4. Cardinality(ItemsToShow(folderId)) <= PageSize =>
            ListRows(ItemsToShow(folderId)) = GridRows(ItemsToShow(folderId))
      BY FirstPageIsAll DEF Tree
  <2>5. bucketItems \subseteq Thing /\ Dir \subseteq Thing
      BY DEF Tree, ListingTypeOK, Thing
  <2> DEFINE above == [i \in Thing |-> Above(i)]
  <2>6. \A i \in Thing : above[i] = Above(i)
      OBVIOUS
  <2> HIDE DEF above
  <2>7. \A i \in bucketItems :
            /\ \E f \in Dir \cup {Top} : \A g \in Dir \cup {Top} : i \in ItemsToShow(g) <=> g = f
            /\ (\E f \in Reachable : i \in ItemsToShow(f)) <=> above[i] \cap Missing = {}
      BY <2>1, <2>5, <2>6
  <2>8. \A i \in Thing : OriginalLocation(i) = above[i]
      BY <2>2, <2>6
  <2>9. ASSUME NEW f \in Dir
        PROVE  Breadcrumbs(f) = {d \in above[f] \cup {f} :
                                   ((above[f] \cup {f}) \ above[d]) \cap Missing = {}}
    <3>1. Above(f) \subseteq Dir
        BY <2>5, AboveIsLeast DEF Tree
    <3>2. \A d \in Above(f) \cup {f} : above[d] = Above(d)
        BY <2>5, <2>6, <3>1
    <3> QED
        BY <2>3, <3>2
  <2> QED
      BY <2>4, <2>7, <2>8, <2>9 DEF ListingHolds, Missing, above
<1>2. Tree => ListingShown
    BY <1>1 DEF ListingShown
<1> QED
    BY <1>2, TreeInit, TreeStep, PartsBehaveAlone, PTL DEF ListingSpec
=============================================================================
