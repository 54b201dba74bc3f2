------------------------------ MODULE RowDialogs ------------------------------
(***************************************************************************)
(* "Move to trash" and "delete permanently" ask before they act            *)
(* (FileActions.tsx, BucketTrashView.tsx).  The answer may take long, and  *)
(* the items of the bucket are fetched again meanwhile: the question of a  *)
(* row belongs to the component of the row, which React keeps for whatever *)
(* the next rendering shows under the same key, and that of the trash to   *)
(* the whole view.                                                         *)
(***************************************************************************)
EXTENDS Naturals, Sequences

CONSTANT RowItem    \* files and folders

VARIABLES
    viewMode,           \* the view shown
    tableRows,           \* its items in order, of which each is there once
    isContributor,  \* as the members' list says
    asked,          \* the dialog that is open, if any
    moved,          \* the rows have changed since it was opened
    confirmed       \* what the last confirmation was about

dialogVars == <<viewMode, tableRows, isContributor, asked, moved, confirmed>>

Mode == {"list", "grid", "trash"}

Arrangements == UNION {{s \in [1 .. n -> RowItem] : \A a, b \in 1 .. n : s[a] = s[b] => a = b} :
                   n \in 0 .. 2}

NoDialog == <<>>

(* Mutant: the cards of the grid are told apart by their place.            *)
KeyByIndex(s, n) == IF viewMode = "trash" THEN <<"view">> ELSE <<"row", n>>

(* A row of the table has its index for an id, a card that of its item.    *)
Key(s, n) ==
    CASE viewMode = "list" -> <<"row", n>>
      [] viewMode = "grid" -> <<"item", s[n]>>
      [] viewMode = "trash" -> <<"view">>

Keys == {<<"row", n>> : n \in 1 .. 2} \cup {<<"item", i>> : i \in RowItem} \cup {<<"view">>}

DialogTypeOK ==
    /\ viewMode \in Mode /\ tableRows \in Arrangements /\ isContributor \in BOOLEAN
    /\ asked \in {NoDialog} \cup [key : Keys, chosen : RowItem]
    /\ moved \in BOOLEAN
    /\ confirmed \in {NoDialog} \cup [item : RowItem, chosen : RowItem, in : Mode, moved : BOOLEAN]

DialogInit ==
    /\ viewMode = "list" /\ tableRows \in Arrangements /\ isContributor \in BOOLEAN
    /\ asked = NoDialog /\ moved = FALSE /\ confirmed = NoDialog

-----------------------------------------------------------------------------
(* A row's dialog is rendered for contributors only.                       *)
RowDialogShown == viewMode # "trash" /\ isContributor

(* That of the trash for everyone, though not while the trash is empty.    *)
TrashDialogShown == viewMode = "trash" /\ tableRows # <<>>

Visible == asked # NoDialog /\ (RowDialogShown \/ TrashDialogShown)

(* The title has the name of the row's item, or of the selected one.       *)
Named ==
    IF viewMode = "trash" THEN asked.chosen
    ELSE tableRows[CHOOSE n \in DOMAIN tableRows : Key(tableRows, n) = asked.key]

(* From the menu of a row, which contributors have; dialogs are modal.     *)
Ask(n) ==
    /\ isContributor /\ ~Visible
    /\ asked' = [key |-> Key(tableRows, n), chosen |-> tableRows[n]]
    /\ moved' = FALSE
    /\ UNCHANGED <<viewMode, tableRows, isContributor, confirmed>>

Cancel ==
    /\ Visible
    /\ asked' = NoDialog /\ moved' = FALSE
    /\ UNCHANGED <<viewMode, tableRows, isContributor, confirmed>>

(* onConfirm: deleteFile of the row's file, or of the selected item.       *)
Confirm ==
    /\ Visible
    /\ confirmed' = [item |-> Named, chosen |-> asked.chosen, in |-> viewMode, moved |-> moved]
    /\ asked' = NoDialog /\ moved' = FALSE
    /\ UNCHANGED <<viewMode, tableRows, isContributor>>

(* Fetched again, or a folder opened while the dialog is not rendered: the *)
(* component of a key that is gone is gone with its dialog.                *)
RowsChange(s) ==
    /\ s # tableRows /\ tableRows' = s
    /\ asked' = IF asked = NoDialog \/ asked.key = <<"view">>
                   \/ \E n \in DOMAIN s : asked.key = Key(s, n)
                THEN asked ELSE NoDialog
    /\ moved' = (asked' # NoDialog)
    /\ UNCHANGED <<viewMode, isContributor, confirmed>>

(* Another view is another component; the dialog hides what would show it. *)
ShowView(v) ==
    /\ v # viewMode /\ ~Visible
    /\ viewMode' = v /\ tableRows' \in Arrangements
    /\ asked' = NoDialog /\ moved' = FALSE
    /\ UNCHANGED <<isContributor, confirmed>>

PermissionChanges ==
    /\ isContributor' = ~isContributor
    /\ UNCHANGED <<viewMode, tableRows, asked, moved, confirmed>>

DialogNext ==
    \/ \E n \in DOMAIN tableRows : Ask(n)
    \/ Cancel \/ Confirm \/ PermissionChanges
    \/ \E s \in Arrangements : RowsChange(s)
    \/ \E v \in Mode : ShowView(v)

-----------------------------------------------------------------------------
(* What is trashed or deleted is the item the dialog was opened for, and   *)
(* named at that time, whatever was fetched or hidden in between, except   *)
(* in the list: there an open dialog goes over to the item that comes to   *)
(* the same place.  Outside the trash a visible dialog is always about an  *)
(* item that is shown; in the trash it stays when the item is gone.        *)
DialogHolds ==
    /\ Visible =>
          /\ viewMode # "trash" =>
                \E n \in DOMAIN tableRows : Key(tableRows, n) = asked.key /\ Named = tableRows[n]
          /\ Named # asked.chosen => viewMode = "list" /\ moved
    /\ confirmed # NoDialog =>
          (confirmed.item # confirmed.chosen => confirmed.in = "list" /\ confirmed.moved)
=============================================================================
