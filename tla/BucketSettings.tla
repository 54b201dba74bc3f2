--------------------------- MODULE BucketSettings ----------------------------
(***************************************************************************)
(* Renaming and deleting a bucket in its settings, which only its owners   *)
(* are shown (useBucketInformation.ts, useBucketDeletion.ts).  The name is *)
(* typed into a draft; nothing is disabled while a PATCH is under way, and *)
(* the draft follows the name in the cache whenever that changes.          *)
(***************************************************************************)
EXTENDS Naturals, FiniteSets

CONSTANTS
    BucketName,
    MaxPatches      \* bound on the PATCHes under way

ASSUME BucketSettingsAssumption ==
    BucketName # {} /\ "gone" \notin BucketName /\ MaxPatches \in Nat

VARIABLES
    name,           \* at the server, or "gone"
    cachedName,     \* bucket.name
    bucketName,     \* the draft
    isEditingName,
    patches,        \* PATCHes under way
    nameFetch,      \* of the bucket: "idle", "sent", "read"
    readName,       \* what it read
    confirmation,   \* the name typed after "delete"
    deletion,       \* "no", "sent", "done"
    lastSaved,      \* the name of the last save
    strayName       \* saves overlapped or failed, or the name changed elsewhere
                    \* or while the draft of a former save was still open

settingsVars == <<name, cachedName, bucketName, isEditingName, patches, nameFetch,
                  readName, confirmation, deletion, lastSaved, strayName>>
deleting == <<confirmation, deletion>>

Patch == [n : 1 .. MaxPatches, to : BucketName, phase : {"sent", "done"}]

SettingsTypeOK ==
    /\ {cachedName, bucketName, readName, lastSaved} \subseteq BucketName
    /\ name \in BucketName \cup {"gone"} /\ confirmation \in BucketName \cup {"empty"}
    /\ isEditingName \in BOOLEAN /\ strayName \in BOOLEAN
    /\ patches \subseteq Patch
    /\ nameFetch \in {"idle", "sent", "read"} /\ deletion \in {"no", "sent", "done"}

SettingsInit ==
    /\ name = CHOOSE v \in BucketName : TRUE
    /\ cachedName = name /\ bucketName = name /\ readName = name /\ lastSaved = name
    /\ isEditingName = FALSE /\ patches = {} /\ nameFetch = "idle"
    /\ confirmation = "empty" /\ deletion = "no" /\ strayName = FALSE

EditName ==
    /\ ~isEditingName /\ isEditingName' = TRUE
    /\ UNCHANGED <<name, cachedName, bucketName, patches, nameFetch, readName, deleting,
                   lastSaved, strayName>>

TypeName(v) ==
    /\ isEditingName /\ bucketName' = v
    /\ strayName' = (strayName \/ patches # {})
    /\ UNCHANGED <<name, cachedName, isEditingName, patches, nameFetch, readName, deleting,
                   lastSaved>>

HandleSaveName(n) ==
    /\ isEditingName /\ n \notin {p.n : p \in patches}
    /\ IF bucketName = cachedName
       THEN isEditingName' = FALSE /\ UNCHANGED <<patches, lastSaved, strayName>>
       ELSE /\ patches' = patches \cup {[n |-> n, to |-> bucketName, phase |-> "sent"]}
            /\ lastSaved' = bucketName
            /\ strayName' = (strayName \/ patches # {})
            /\ UNCHANGED isEditingName
    /\ UNCHANGED <<name, cachedName, bucketName, nameFetch, readName, deleting>>

(* Mutant: the draft is kept.                                              *)
HandleLeaveName ==
    /\ isEditingName /\ isEditingName' = FALSE
    /\ UNCHANGED <<name, cachedName, bucketName, patches, nameFetch, readName, deleting,
                   lastSaved, strayName>>

HandleCancelName ==
    /\ isEditingName /\ isEditingName' = FALSE
    /\ bucketName' = cachedName
    /\ UNCHANGED <<name, cachedName, patches, nameFetch, readName, deleting, lastSaved, strayName>>

PatchServed(p) ==
    /\ p.phase = "sent" /\ name # "gone"
    /\ name' = p.to
    /\ patches' = (patches \ {p}) \cup {[p EXCEPT !.phase = "done"]}
    /\ UNCHANGED <<cachedName, bucketName, isEditingName, nameFetch, readName, deleting,
                   lastSaved, strayName>>

(* Refused, or the answer is lost: the draft stays open.                   *)
PatchFails(p) ==
    /\ patches' = patches \ {p}
    /\ strayName' = TRUE
    /\ UNCHANGED <<name, cachedName, bucketName, isEditingName, nameFetch, readName, deleting,
                   lastSaved>>

PatchAnswered(p) ==
    /\ p.phase = "done"
    /\ patches' = patches \ {p}
    /\ isEditingName' = FALSE /\ nameFetch' = "sent"
    /\ UNCHANGED <<name, cachedName, bucketName, readName, deleting, lastSaved, strayName>>

NameRead ==
    /\ nameFetch = "sent" /\ name # "gone"
    /\ nameFetch' = "read" /\ readName' = name
    /\ UNCHANGED <<name, cachedName, bucketName, isEditingName, patches, deleting,
                   lastSaved, strayName>>

(* The effect on bucket.name overwrites what is being typed.               *)
NameFetched ==
    /\ nameFetch = "read" /\ nameFetch' = "idle"
    /\ cachedName' = readName
    /\ bucketName' = IF readName # cachedName THEN readName ELSE bucketName
    /\ UNCHANGED <<name, isEditingName, patches, readName, deleting, lastSaved, strayName>>

(* Another owner; the page looks again when it gets the focus.             *)
RenamedElsewhere(v) ==
    /\ name \notin {v, "gone"}
    /\ name' = v /\ strayName' = TRUE
    /\ nameFetch' = IF nameFetch = "idle" THEN "sent" ELSE nameFetch
    /\ UNCHANGED <<cachedName, bucketName, isEditingName, patches, readName, deleting, lastSaved>>

TypeConfirmation(v) ==
    /\ deletion = "no" /\ confirmation' = v
    /\ UNCHANGED <<name, cachedName, bucketName, isEditingName, patches, nameFetch, readName,
                   deletion, lastSaved, strayName>>

(* The text to type follows the name: what was typed is checked again.     *)
HandleDeleteBucket ==
    /\ confirmation = cachedName /\ deletion # "done"
    /\ deletion' = "sent"
    /\ UNCHANGED <<name, cachedName, bucketName, isEditingName, patches, nameFetch, readName,
                   confirmation, lastSaved, strayName>>

(* The page goes home, or shows an error and stays.                        *)
DeletionAnswered ==
    /\ deletion = "sent"
    /\ \/ deletion' = "done" /\ name' = "gone"
       \/ deletion' = "no" /\ UNCHANGED name
    /\ UNCHANGED <<cachedName, bucketName, isEditingName, patches, nameFetch, readName,
                   confirmation, lastSaved, strayName>>

SettingsNext ==
    /\ deletion # "done"
    /\ \/ EditName \/ HandleCancelName
       \/ \E v \in BucketName : TypeName(v) \/ RenamedElsewhere(v) \/ TypeConfirmation(v)
       \/ \E n \in 1 .. MaxPatches : HandleSaveName(n)
       \/ \E p \in patches : PatchServed(p) \/ PatchFails(p) \/ PatchAnswered(p)
       \/ NameRead \/ NameFetched
       \/ HandleDeleteBucket \/ DeletionAnswered

(* Once nothing is under way the bucket and the page have the name saved   *)
(* last, and an editor that is closed opens with it.  Left out are saves   *)
(* that overlapped, of which either may win, drafts typed during one, and  *)
(* names given elsewhere.                                                  *)
RenameKept ==
    patches = {} /\ nameFetch = "idle" /\ deletion # "done" /\ ~strayName =>
        /\ name = lastSaved /\ cachedName = name
        /\ ~isEditingName => bucketName = name
=============================================================================
