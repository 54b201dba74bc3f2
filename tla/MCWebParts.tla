----------------------------- MODULE MCWebParts ------------------------------
(***************************************************************************)
(* Parts of the pages that share no state, in one run: each behaviour      *)
(* moves one of them, so that their states add up instead of multiplying.  *)
(***************************************************************************)
EXTENDS BucketPage, DragOverlay, Theme, Profile, SignIn,
        MembersForm, BucketSettings, ShareDialog, Listing, ActivityFeed, RowDialogs

CONSTANTS file, folder, me, p1, dirA, dirB, docF

VARIABLE part   \* the part that moves

partsVars == <<part, bucketVars, overlayVars, themeVars, profileVars, signInVars,
               membersFormVars, settingsVars, shareVars, listingVars,
               feedVars, dialogVars>>

(* Those with several first states have one when they do not move.         *)
Init ==
    /\ part \in {"bucket", "overlay", "theme", "profile", "signin",
                 "members", "settings", "share", "listing", "feed", "dialogs"}
    /\ BucketInit
    /\ part # "bucket" => /\ item[CHOOSE i \in Item : TRUE] = "none"
                          /\ group = CHOOSE g \in Group : TRUE
    /\ OverlayInit /\ ThemeInit /\ ProfileInit /\ SignInInit
    /\ MembersFormInit /\ SettingsInit /\ ShareInit /\ ListingInit /\ FeedInit /\ DialogInit
    /\ IF part = "listing" THEN folderOf[dirA] = Top      \* one of the two is there
       ELSE \A i \in Thing : folderOf[i] = Top
    /\ part # "feed" => feed = "all"
    /\ part # "dialogs" => tableRows = <<>> /\ isContributor

Next ==
    \/ /\ part = "bucket" /\ BucketNext
       /\ UNCHANGED <<part, overlayVars, themeVars, profileVars, signInVars,
                      membersFormVars, settingsVars, shareVars, listingVars,
                      feedVars, dialogVars>>
    \/ /\ part = "overlay" /\ OverlayNext
       /\ UNCHANGED <<part, bucketVars, themeVars, profileVars, signInVars,
                      membersFormVars, settingsVars, shareVars, listingVars,
                      feedVars, dialogVars>>
    \/ /\ part = "theme" /\ ThemeNext
       /\ UNCHANGED <<part, bucketVars, overlayVars, profileVars, signInVars,
                      membersFormVars, settingsVars, shareVars, listingVars,
                      feedVars, dialogVars>>
    \/ /\ part = "profile" /\ ProfileNext
       /\ UNCHANGED <<part, bucketVars, overlayVars, themeVars, signInVars,
                      membersFormVars, settingsVars, shareVars, listingVars,
                      feedVars, dialogVars>>
    \/ /\ part = "signin" /\ SignInNext
       /\ UNCHANGED <<part, bucketVars, overlayVars, themeVars, profileVars,
                      membersFormVars, settingsVars, shareVars, listingVars,
                      feedVars, dialogVars>>
    \/ /\ part = "members" /\ MembersFormNext
       /\ UNCHANGED <<part, bucketVars, overlayVars, themeVars, profileVars,
                      signInVars, settingsVars, shareVars, listingVars, feedVars,
                      dialogVars>>
    \/ /\ part = "settings" /\ SettingsNext
       /\ UNCHANGED <<part, bucketVars, overlayVars, themeVars, profileVars,
                      signInVars, membersFormVars, shareVars, listingVars, feedVars,
                      dialogVars>>
    \/ /\ part = "share" /\ ShareNext
       /\ UNCHANGED <<part, bucketVars, overlayVars, themeVars, profileVars,
                      signInVars, membersFormVars, settingsVars, listingVars,
                      feedVars, dialogVars>>
    \/ /\ part = "listing" /\ ListingNext
       /\ UNCHANGED <<part, bucketVars, overlayVars, themeVars, profileVars,
                      signInVars, membersFormVars, settingsVars, shareVars,
                      feedVars, dialogVars>>
    \/ /\ part = "feed" /\ FeedNext
       /\ UNCHANGED <<part, bucketVars, overlayVars, themeVars, profileVars,
                      signInVars, membersFormVars, settingsVars, shareVars,
                      listingVars, dialogVars>>
    \/ /\ part = "dialogs" /\ DialogNext
       /\ UNCHANGED <<part, bucketVars, overlayVars, themeVars, profileVars,
                      signInVars, membersFormVars, settingsVars, shareVars,
                      listingVars, feedVars>>

Spec == Init /\ [][Next]_partsVars

TypeOK ==
    /\ part = "bucket" => BucketTypeOK
    /\ part = "overlay" => OverlayTypeOK
    /\ part = "theme" => ThemeTypeOK
    /\ part = "profile" => ProfileTypeOK
    /\ part = "signin" => SignInTypeOK
    /\ part = "members" => MembersFormTypeOK
    /\ part = "settings" => SettingsTypeOK
    /\ part = "share" => ShareTypeOK
    /\ part = "listing" => ListingTypeOK
    /\ part = "feed" => FeedTypeOK
    /\ part = "dialogs" => DialogTypeOK

(* ListingHolds, slow to evaluate, in the states that it is about: what    *)
(* the views of a bucket show of its rows, its folders and its trash.      *)
ListingShown == part = "listing" => ListingHolds
=============================================================================
