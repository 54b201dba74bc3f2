--------------------------- MODULE ObjectStorage ---------------------------
(***************************************************************************)
(* The object store behind src/internal/storage (IStorage) as the services *)
(* and the event handlers use it, and the notifications the store emits.   *)
(*                                                                         *)
(* Two keys exist per file f: the content, buckets/<bucket>/<f>, and the   *)
(* empty trash marker trash/<bucket>/files/<f>, whose lifecycle expiry is  *)
(* what ends a file's stay in the trash.  Every removal of either key, by  *)
(* whomever, makes the store publish a deletion notification; posting the  *)
(* content publishes an upload notification (the creation of a marker is   *)
(* published too, and GetBucketEventType ignores it).                      *)
(*                                                                         *)
(* Notifications are kept as a set of records: they may be delivered late, *)
(* in any order and, the broker delivering at least once, more than once   *)
(* (Deliver may leave the record in place).                                *)
(***************************************************************************)

CONSTANT File                \* file identifiers; UploadFile never reuses one

VARIABLES object,            \* files whose content is stored
          marker,            \* files that have a trash marker
          events             \* notifications not yet consumed

storageVars == <<object, marker, events>>

Event == [kind : {"upload", "marker", "object"}, file : File]

Notify(kind, S) == {[kind |-> kind, file |-> f] : f \in S}

StorageTypeOK ==
    /\ object \subseteq File
    /\ marker \subseteq File
    /\ events \subseteq Event

StorageInit ==
    /\ object = {}
    /\ marker = {}
    /\ events = {}

-----------------------------------------------------------------------------
(* The client posts the content to the presigned URL.                      *)
PostObject(f) ==
    /\ object' = object \cup {f}
    /\ events' = events \cup Notify("upload", {f})
    /\ UNCHANGED marker

(* MarkAsTrashed fails (is not enabled) for a file without content.        *)
MarkAsTrashed(f) ==
    /\ f \in object
    /\ marker' = marker \cup {f}
    /\ UNCHANGED <<object, events>>

(* Removing a marker that is not there succeeds and notifies nobody.       *)
UnmarkAsTrashed(f) ==
    /\ marker' = marker \ {f}
    /\ events' = events \cup Notify("marker", marker \cap {f})
    /\ UNCHANGED object

RemoveObject(f) ==
    /\ object' = object \ {f}
    /\ events' = events \cup Notify("object", object \cap {f})
    /\ UNCHANGED marker

(* The lifecycle rule installed by EnsureTrashLifecyclePolicy removes a    *)
(* marker once it is older than the retention period.  Ages are left out:  *)
(* a marker may expire at any time after it was written.                   *)
LifecycleExpiration(f) ==
    /\ f \in marker
    /\ UnmarkAsTrashed(f)

(* The broker hands over e, and may hand it over again later.              *)
Deliver(e) ==
    /\ e \in events
    /\ events' \in {events, events \ {e}}
    /\ UNCHANGED <<object, marker>>
=============================================================================
