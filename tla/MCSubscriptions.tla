-------------------------- MODULE MCSubscriptions ---------------------------
(* The instances of Subscriptions for TLC, which need no definitions. *)
EXTENDS Subscriptions

=============================================================================
