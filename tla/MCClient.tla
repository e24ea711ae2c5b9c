------------------------------ MODULE MCClient ------------------------------
(* The instances of Client for TLC, which need no definitions. *)
EXTENDS Client

=============================================================================
