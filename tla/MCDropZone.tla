----------------------------- MODULE MCDropZone ------------------------------
(***************************************************************************)
(* Small drops for TLC: a tree two folders deep with a file next to it,    *)
(* its upper part dropped again, and a file picked in the dialog.          *)
(***************************************************************************)
EXTENDS DropZone

CONSTANTS d1, d2, d3, f1, f2

RootPath == <<>>
Paths == {<<>>, <<"a">>, <<"a", "b">>, <<"c">>, <<"c", "a">>, <<"c", "a", "b">>}
Shown == {<<>>, <<"c">>}
MCItems == d1 :> <<{f1}, {f2}>> @@ d2 :> <<{f2}>> @@ d3 :> <<{}>>
MCPathIn == f1 :> <<"a", "b">> @@ f2 :> <<"a">>
=============================================================================
