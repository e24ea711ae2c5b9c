------------------------------ MODULE MCServer ------------------------------
(* The instances of Server for TLC, which need no definitions. *)
EXTENDS Server

=============================================================================
