------------------------------ MODULE UploadRow ------------------------------
(***************************************************************************)
(* What the list of uploads promises to who looks at it: an upload appears *)
(* once, in progress; it ends as a success, which goes away by itself, or  *)
(* as an error, which stays; a cancelled one is gone; none comes back.     *)
(***************************************************************************)
CONSTANT File

VARIABLE seen   \* how each upload is shown

Shown == {"uploading", "success", "error"}

Init == seen = [f \in File |-> "absent"]

Becomes(f, old, new) ==
    /\ seen[f] = old
    /\ seen' = [seen EXCEPT ![f] = new]

(* Files picked together appear together.                                  *)
Appear(F) ==
    /\ \A f \in F : seen[f] = "absent"
    /\ seen' = [f \in File |-> IF f \in F THEN "uploading" ELSE seen[f]]

End(f) == Becomes(f, "uploading", "success") \/ Becomes(f, "uploading", "error")
Go(f) == \E s \in Shown : Becomes(f, s, "gone")

Next ==
    \/ \E F \in SUBSET File : Appear(F)
    \/ \E f \in File : End(f) \/ Go(f)

Spec == Init /\ [][Next]_seen
=============================================================================
