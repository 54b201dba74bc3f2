------------------------------- MODULE Profile -------------------------------
(***************************************************************************)
(* The profile page (ProfileForm, EditableField, EditablePasswordField,    *)
(* queries/user.ts): fields edited one by one, saved through one mutation, *)
(* shown from the user query.  An input is filled when its field is        *)
(* mounted and when an edit is given up, not when the user is fetched.     *)
(***************************************************************************)
EXTENDS Naturals, FiniteSets

CONSTANTS
    Field,      \* first_name, last_name
    Value       \* what can stand in them, trimmed

ASSUME ProfileAssumption == "password" \notin Field /\ Value # {}

VARIABLES
    editing,    \* fields whose input is open
    editValue,
    password,   \* the password form: "closed", "open", or "filled" rightly
    user,       \* the profile in the cache
    profile,    \* the profile at the server
    updates,    \* PATCHes under way
    fetching,   \* the user query is being fetched
    strayed     \* fields changed elsewhere, whose save failed, or whose edit
                \* ended before the value saved last was fetched

profileVars == <<editing, editValue, password, user, profile, updates, fetching, strayed>>

Update == [field : Field \cup {"password"}, value : Value, phase : {"sent", "done"}]

ProfileTypeOK ==
    /\ editing \subseteq Field /\ strayed \subseteq Field
    /\ editValue \in [Field -> Value] /\ user \in [Field -> Value]
    /\ profile \in [Field -> Value]
    /\ password \in {"closed", "open", "filled"}
    /\ updates \subseteq Update
    /\ fetching \in BOOLEAN

ProfileInit ==
    /\ editing = {} /\ password = "closed"
    /\ profile = [f \in Field |-> CHOOSE v \in Value : TRUE]
    /\ user = profile /\ editValue = profile
    /\ updates = {} /\ fetching = FALSE /\ strayed = {}

(* updateUserMutation.isPending disables every input and button of an edit *)
IsLoading == updates # {}

Mutated(u) == updates' = updates \cup {u}

EditField(f) ==
    /\ f \notin editing
    /\ editing' = editing \cup {f}
    /\ UNCHANGED <<editValue, password, user, profile, updates, fetching, strayed>>

TypeField(f, v) ==
    /\ f \in editing /\ ~IsLoading
    /\ editValue' = [editValue EXCEPT ![f] = v]
    /\ UNCHANGED <<editing, password, user, profile, updates, fetching, strayed>>

Outdated(f) == IF user[f] # profile[f] THEN {f} ELSE {}

SaveField(f) ==
    /\ f \in editing /\ ~IsLoading
    /\ editing' = editing \ {f}
    /\ IF editValue[f] # user[f]
       THEN Mutated([field |-> f, value |-> editValue[f], phase |-> "sent"])
       ELSE UNCHANGED updates
    /\ strayed' = strayed \cup Outdated(f)
    /\ UNCHANGED <<editValue, password, user, profile, fetching>>

(* Mutant: what was typed stays.                                           *)
LeaveField(f) ==
    /\ f \in editing /\ ~IsLoading
    /\ editing' = editing \ {f}
    /\ UNCHANGED <<editValue, password, user, profile, updates, fetching, strayed>>

CancelField(f) ==
    /\ f \in editing /\ ~IsLoading
    /\ editing' = editing \ {f}
    /\ editValue' = [editValue EXCEPT ![f] = user[f]]
    /\ strayed' = strayed \cup Outdated(f)
    /\ UNCHANGED <<password, user, profile, updates, fetching>>

(* A save that is refused (no old password, too short, not confirmed) only *)
(* shows an error; one that is sent closes the form before the answer.     *)
PasswordForm ==
    /\ \/ password = "closed" /\ password' = "open" /\ UNCHANGED updates
       \/ password # "closed" /\ ~IsLoading /\ password' = "filled" /\ UNCHANGED updates
       \/ password # "closed" /\ ~IsLoading /\ password' = "closed" /\ UNCHANGED updates
       \/ /\ password = "filled" /\ ~IsLoading /\ password' = "closed"
          /\ \E v \in Value : Mutated([field |-> "password", value |-> v, phase |-> "sent"])
    /\ UNCHANGED <<editing, editValue, user, profile, fetching, strayed>>

UpdateServed(u) ==
    /\ u.phase = "sent"
    /\ updates' = (updates \ {u}) \cup {[u EXCEPT !.phase = "done"]}
    /\ profile' = [f \in Field |-> IF f = u.field THEN u.value ELSE profile[f]]
    /\ UNCHANGED <<editing, editValue, password, user, fetching, strayed>>

UpdateFails(u) ==
    /\ u.phase = "sent"
    /\ updates' = updates \ {u}
    /\ strayed' = strayed \cup (Field \cap {u.field})
    /\ UNCHANGED <<editing, editValue, password, user, profile, fetching>>

UpdateAnswered(u) ==
    /\ u.phase = "done"
    /\ updates' = updates \ {u}
    /\ fetching' = TRUE
    /\ UNCHANGED <<editing, editValue, password, user, profile, strayed>>

UserFetched ==
    /\ fetching
    /\ user' = profile /\ fetching' = FALSE
    /\ UNCHANGED <<editing, editValue, password, profile, updates, strayed>>

(* Another page of the same user; this one fetches when it gets the focus. *)
ProfileElsewhere(f, v) ==
    /\ profile[f] # v
    /\ profile' = [profile EXCEPT ![f] = v]
    /\ strayed' = strayed \cup {f}
    /\ fetching' = TRUE
    /\ UNCHANGED <<editing, editValue, password, user, updates>>

ProfileNext ==
    \/ \E f \in Field : EditField(f) \/ SaveField(f) \/ CancelField(f)
    \/ \E f \in Field, v \in Value : TypeField(f, v) \/ ProfileElsewhere(f, v)
    \/ PasswordForm
    \/ \E u \in updates : UpdateServed(u) \/ UpdateFails(u) \/ UpdateAnswered(u)
    \/ UserFetched

(* Two saves are never under way at once, so that the later one wins; and  *)
(* once all is quiet a closed field would open with what the server has.   *)
(* Strayed fields are left out: they open with an old value, which saved   *)
(* unchanged would be written back.                                        *)
SavesInOrder ==
    /\ Cardinality(updates) <= 1
    /\ updates = {} /\ ~fetching =>
          \A f \in Field \ (editing \cup strayed) :
              editValue[f] = profile[f] /\ user[f] = profile[f]
=============================================================================
