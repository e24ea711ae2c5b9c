------------------------------ MODULE MCStorage ------------------------------
(* Instances of Storage for TLC. *)
EXTENDS Storage, TLC

\* Queues, UUIDs, statuses, keys and objects are only compared for equality, and
\* every property checked is a safety property.
Symmetry == Permutations(Queue) \cup Permutations(Task)
            \cup Permutations(Status) \cup Permutations(Row) \cup Permutations(Object)

=============================================================================
