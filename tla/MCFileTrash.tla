---------------------------- MODULE MCFileTrash ----------------------------
(***************************************************************************)
(* What a comment of events/trash_expiration.go says of FileTrash, stated  *)
(* as a property TLC refutes.                                              *)
(***************************************************************************)
EXTENDS FileTrash

(* trash_expiration.go: "deleted_at IS NULL -> User restore in progress,   *)
(* skip deletion".  A worker never deletes the row of a file that is not   *)
(* in the trash.                                                           *)
RestoreSkipsDeletion ==
    [][\A w \in Worker : DeleteRow(w) => ~ Live(task[w].event.file)]_vars
=============================================================================
