----------------------------- MODULE ShareDialog ------------------------------
(***************************************************************************)
(* The dialog of the sidebar that creates a bucket and shares it           *)
(* (AppSidebar.tsx, FormDialog.tsx, AddMembersCard.tsx, useAddMembers.ts,  *)
(* useBucketsData.ts).  The people chosen are kept twice: by the sidebar,  *)
(* which sends them, and by the card, which is mounted with the dialog and *)
(* starts from what the sidebar has.  A bucket is created first and shared *)
(* with a second request, which is refused as a whole if one group of the  *)
(* list is none, as "remove" is, and answered with success whomever of the *)
(* list it skips.                                                          *)
(***************************************************************************)
EXTENDS Naturals, FiniteSets

CONSTANTS
    Invitee,
    Right,          \* bucketGroups
    MaxBuckets      \* bound on the buckets created in a run

ASSUME ShareDialogAssumption == "remove" \notin Right /\ MaxBuckets \in Nat

VARIABLES
    dialogOpen,
    shareWith,      \* of the sidebar
    cardShareWith,  \* of the card
    cancelled,      \* a dialog was closed with people chosen and not sent since
    creations,      \* createBucketMutation, by bucket
    bucketMembers,  \* who each bucket is shared with by its creation, at the server
    created,        \* buckets at the server
    bucketsListed,  \* buckets in the sidebar
    bucketsFetch    \* the list is being fetched

shareVars == <<dialogOpen, shareWith, cardShareWith, cancelled, creations, bucketMembers,
               created, bucketsListed, bucketsFetch>>

Bucket == 1 .. MaxBuckets
Shares == [Invitee -> Right \cup {"remove", "none"}]
Nobody == [i \in Invitee |-> "none"]
Creation == [step : {"none", "post", "put", "done", "success", "error"}, members : Shares]

ShareTypeOK ==
    /\ dialogOpen \in BOOLEAN /\ cancelled \in BOOLEAN /\ bucketsFetch \in BOOLEAN
    /\ shareWith \in Shares /\ cardShareWith \in Shares
    /\ creations \in [Bucket -> Creation]
    /\ bucketMembers \in [Bucket -> Shares]
    /\ created \subseteq Bucket /\ bucketsListed \subseteq created

ShareInit ==
    /\ dialogOpen = FALSE /\ cancelled = FALSE /\ bucketsFetch = FALSE
    /\ shareWith = Nobody /\ cardShareWith = Nobody
    /\ creations = [b \in Bucket |-> [step |-> "none", members |-> Nobody]]
    /\ bucketMembers = [b \in Bucket |-> Nobody]
    /\ created = {} /\ bucketsListed = {}

shareServer == <<bucketMembers, created, bucketsListed, bucketsFetch>>

-----------------------------------------------------------------------------
OpenDialog ==
    /\ ~dialogOpen /\ dialogOpen' = TRUE
    /\ cardShareWith' = shareWith
    /\ UNCHANGED <<shareWith, cancelled, creations, shareServer>>

CloseDialog ==
    /\ dialogOpen /\ dialogOpen' = FALSE
    /\ cancelled' = (shareWith # Nobody)
    /\ UNCHANGED <<shareWith, cardShareWith, creations, shareServer>>

UpdateShareWith(s) ==
    /\ cardShareWith' = s /\ shareWith' = s
    /\ UNCHANGED <<dialogOpen, cancelled, creations, shareServer>>

AddEmail(i, g) ==
    /\ dialogOpen /\ cardShareWith[i] = "none"
    /\ UpdateShareWith([cardShareWith EXCEPT ![i] = g])

(* The list offers "remove" among the groups, which removes nobody.        *)
SetGroup(i, g) ==
    /\ dialogOpen /\ shareWith[i] # "none" /\ g # shareWith[i]
    /\ UpdateShareWith([cardShareWith EXCEPT ![i] = g])

RemoveFromList(i) ==
    /\ dialogOpen /\ shareWith[i] # "none"
    /\ UpdateShareWith([cardShareWith EXCEPT ![i] = "none"])

(* Mutant: the sidebar keeps the list.                                     *)
SubmitKeepsList(b) ==
    /\ dialogOpen /\ creations[b].step = "none"
    /\ creations' = [creations EXCEPT ![b] = [step |-> "post", members |-> shareWith]]
    /\ dialogOpen' = FALSE /\ cancelled' = FALSE
    /\ UNCHANGED <<shareWith, cardShareWith, shareServer>>

(* With a name; the sidebar's list is emptied, the card goes.              *)
SubmitDialog(b) ==
    /\ dialogOpen /\ creations[b].step = "none"
    /\ creations' = [creations EXCEPT ![b] = [step |-> "post", members |-> shareWith]]
    /\ shareWith' = Nobody
    /\ dialogOpen' = FALSE /\ cancelled' = FALSE
    /\ UNCHANGED <<cardShareWith, shareServer>>

-----------------------------------------------------------------------------
Steps(b, s) == creations' = [creations EXCEPT ![b].step = s]
dialog == <<dialogOpen, shareWith, cardShareWith, cancelled>>

BucketPosted(b) ==
    /\ creations[b].step = "post"
    /\ created' = created \cup {b}
    /\ Steps(b, IF creations[b].members = Nobody THEN "done" ELSE "put")
    /\ UNCHANGED <<dialog, bucketMembers, bucketsListed, bucketsFetch>>

(* Whoever is of a domain the provider may not share with is skipped, and  *)
(* so is an addition that fails, without a word to the page.               *)
Shared(b) ==
    /\ \A i \in Invitee : creations[b].members[i] # "remove"
    /\ \E added \in SUBSET Invitee :
          bucketMembers' = [bucketMembers EXCEPT ![b] =
              [i \in Invitee |-> IF i \in added THEN creations[b].members[i] ELSE "none"]]

MembersPut(b) ==
    /\ creations[b].step = "put"
    /\ Shared(b)
    /\ Steps(b, "done")
    /\ UNCHANGED <<dialog, created, bucketsListed, bucketsFetch>>

(* Refused, or done and the answer lost: an error toast, and the list of   *)
(* buckets is not fetched, not even if the bucket is there.                *)
CreationFails(b) ==
    /\ Steps(b, "error")
    /\ \/ /\ creations[b].step = "post"
          /\ created' \in {created, created \cup {b}}
          /\ UNCHANGED bucketMembers
       \/ /\ creations[b].step = "put"
          /\ UNCHANGED created
          /\ Shared(b) \/ UNCHANGED bucketMembers
    /\ UNCHANGED <<dialog, bucketsListed, bucketsFetch>>

CreationSucceeds(b) ==
    /\ creations[b].step = "done"
    /\ Steps(b, "success") /\ bucketsFetch' = TRUE
    /\ UNCHANGED <<dialog, bucketMembers, created, bucketsListed>>

(* Also when the page gets the focus or the list is old.                   *)
BucketsFetched ==
    /\ bucketsFetch /\ bucketsFetch' = FALSE
    /\ bucketsListed' = created
    /\ UNCHANGED <<dialog, creations, bucketMembers, created>>

ShareNext ==
    \/ OpenDialog \/ CloseDialog
    \/ \E i \in Invitee :
          \/ RemoveFromList(i)
          \/ \E g \in Right : AddEmail(i, g)
          \/ \E g \in Right \cup {"remove"} : SetGroup(i, g)
    \/ \E b \in Bucket :
          \/ SubmitDialog(b)
          \/ BucketPosted(b) \/ MembersPut(b) \/ CreationFails(b) \/ CreationSucceeds(b)
    \/ BucketsFetched

(* What the card shows is what will be sent; a dialog starts without       *)
(* anyone unless the one before was cancelled, so that nobody chosen for   *)
(* one bucket is sent with the next; whatever becomes of a creation, its   *)
(* bucket is shared with nobody but the people chosen for it and with no   *)
(* other right than the one chosen; and one the user is told of as a       *)
(* success had a right for everybody chosen, is at the server and is       *)
(* listed once the list is fetched.  It need not be shared with all of     *)
(* them, nor with anyone: whom the server skipped nobody is told.          *)
ShareHolds ==
    /\ dialogOpen => cardShareWith = shareWith
    /\ ~dialogOpen /\ ~cancelled => shareWith = Nobody
    /\ \A b \in Bucket :
          /\ \A i \in Invitee : bucketMembers[b][i] \in {"none", creations[b].members[i]} \ {"remove"}
          /\ creations[b].step = "success" =>
                /\ \A i \in Invitee : creations[b].members[i] # "remove"
                /\ b \in created
                /\ ~bucketsFetch => b \in bucketsListed
=============================================================================
