----------------------------- MODULE MCTaskState -----------------------------
(* The instances of TaskState for TLC, which need no definitions. *)
EXTENDS TaskState

=============================================================================
