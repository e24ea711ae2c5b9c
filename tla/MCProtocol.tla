----------------------------- MODULE MCProtocol -----------------------------
(* The instances of Protocol for TLC, which need no definitions. *)
EXTENDS Protocol

=============================================================================
