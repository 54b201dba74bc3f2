----------------------------- MODULE MCMembers -----------------------------
(***************************************************************************)
(* Two accounts for TLC, with an address each.                             *)
(***************************************************************************)
EXTENDS Members, TLC

CONSTANTS u1, u2, e1, e2

OneEach == u1 :> e1 @@ u2 :> e2

(* Both may share with everyone, or the second with its own domain only.   *)
Everyone == u1 :> {e1, e2} @@ u2 :> {e1, e2}
OwnDomain == u1 :> {e1, e2} @@ u2 :> {e2}

Symmetry == Permutations(Caller)
=============================================================================
