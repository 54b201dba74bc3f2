--------------------------- MODULE FileLifecycle ---------------------------
(***************************************************************************)
(* What the service promises of each file, whatever happens inside: the    *)
(* abstract specification FileTrash implements.                            *)
(*                                                                         *)
(* The one liberty it takes is the one the code takes: deleting a file is  *)
(* decided while the file is in the trash (Doom) but may happen later, and *)
(* a restore in between does not call it off.                              *)
(***************************************************************************)
CONSTANT File

VARIABLES
    phase,       \* where a file is in its life
    content,     \* the files whose content can be downloaded
    doomed       \* the files whose deletion was decided

vars == <<phase, content, doomed>>

Init ==
    /\ phase = [f \in File |-> "absent"]
    /\ content = {}
    /\ doomed = {}

Move(f, from, to) ==
    /\ phase[f] = from
    /\ phase' = [phase EXCEPT ![f] = to]

Create(f) == Move(f, "absent", "uploading") /\ UNCHANGED <<content, doomed>>

Post(f) ==
    /\ phase[f] # "absent"
    /\ content' = content \cup {f}
    /\ UNCHANGED <<phase, doomed>>

(* Content that is not doomed is there before the file is listed.          *)
Complete(f) ==
    /\ f \in content
    /\ Move(f, "uploading", "uploaded")
    /\ UNCHANGED <<content, doomed>>

Trash(f) ==
    /\ f \in content \cup doomed
    /\ Move(f, "uploaded", "trashed")
    /\ UNCHANGED <<content, doomed>>

Restore(f) == Move(f, "trashed", "uploaded") /\ UNCHANGED <<content, doomed>>

Doom(f) ==
    /\ phase[f] = "trashed"
    /\ doomed' = doomed \cup {f}
    /\ UNCHANGED <<phase, content>>

LoseContent(f) ==
    /\ f \in doomed
    /\ content' = content \ {f}
    /\ UNCHANGED <<phase, doomed>>

Vanish(f) ==
    /\ f \in doomed
    /\ phase[f] \in {"uploaded", "trashed"}
    /\ phase' = [phase EXCEPT ![f] = "gone"]
    /\ UNCHANGED <<content, doomed>>

Next ==
    \E f \in File :
        \/ Create(f) \/ Post(f) \/ Complete(f) \/ Trash(f) \/ Restore(f)
        \/ Doom(f) \/ LoseContent(f) \/ Vanish(f)

Spec == Init /\ [][Next]_vars
=============================================================================
