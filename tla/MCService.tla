----------------------------- MODULE MCService ------------------------------
(* The instances of Service for TLC. *)
EXTENDS Service

CallersWait == ~hasty

=============================================================================
