---------------------------- MODULE MCClientTasks ----------------------------
(* The instances of ClientTasks for TLC. *)
EXTENDS ClientTasks, TLC

Symmetry == Permutations(Task) \cup Permutations(Object)

=============================================================================
