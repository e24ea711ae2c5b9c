----------------------------- MODULE MCDelivery -----------------------------
(* Instances of Delivery for TLC. *)
EXTENDS Delivery, TLC

CONSTANTS v1, s1, k1

\* Parents and statuses: "" is any of them, "a" is one.
MCParent == {"", "a"}
MCStatus == {"", "a"}

\* A root task and a child with a status.
MCLabel == [v \in Version |-> IF v = v1 THEN <<"", "a">> ELSE <<"a", "a">>]

\* One subscription to everything, one to the statuses of both.
MCFilter == [s \in Sub |-> IF s = s1 THEN <<"", "">> ELSE <<"", "a">>]

\* All subscriptions on one connection: they share what has been sent on it.
OneConn == [s \in Sub |-> k1]

CopySymmetry == Permutations(Copy)

=============================================================================
