------------------------------ MODULE Requests ------------------------------
(***************************************************************************)
(* What a controller promises to those who send requests, whatever         *)
(* goroutines it is made of: RequestSend and Finished of the interface     *)
(* Controller.                                                             *)
(*                                                                         *)
(* A request is written once at most, and answered once at most.  "Chan    *)
(* closed with result.  If received nil - finished": whoever receives nil  *)
(* may conclude that the controller has finished and writes nothing more,  *)
(* but nothing about his request, which the other end may have got or even *)
(* get now.  RequestSend returns an error only for what was not written.   *)
(***************************************************************************)

CONSTANT Request   \* the requests

VARIABLES up,       \* the connection works
          finished, \* Finished() is closed
          state     \* per request: new, sent, asked (written to a link that
                    \*   works), replied; at last value, nil or error

vars == <<up, finished, state>>

UnderWay == {r \in Request : state[r] \in {"sent", "asked", "replied"}}

TypeOK ==
  /\ up \in BOOLEAN /\ finished \in BOOLEAN
  /\ state \in [Request -> {"new", "sent", "asked", "replied", "value", "nil",
                            "error"}]

Init == up = TRUE /\ finished = FALSE /\ state = [r \in Request |-> "new"]

Step(r, from, to) == /\ state[r] = from
                     /\ state' = [state EXCEPT ![r] = to]
                     /\ UNCHANGED <<up, finished>>

Send(r) == Step(r, "new", "sent")
Ask(r) == up /\ Step(r, "sent", "asked")
Reply(r) == up /\ Step(r, "asked", "replied")
Return(r) == ~finished /\ Step(r, "replied", "value")
Fail(r) == ~up /\ Step(r, "sent", "error")

\* The end of the controller, for all of those who still wait, or some.
Release(R) == /\ finished /\ ~up
              /\ R \subseteq UnderWay
              /\ state' = [r \in Request |->
                             IF r \in R THEN "nil" ELSE state[r]]
              /\ UNCHANGED <<up, finished>>

Lose == up' = FALSE /\ UNCHANGED <<finished, state>>
Finish == finished' = TRUE /\ UNCHANGED <<up, state>>

Next == \/ \E r \in Request : Send(r) \/ Ask(r) \/ Reply(r) \/ Return(r)
                              \/ Fail(r)
        \/ \E R \in SUBSET Request : Release(R)
        \/ Lose \/ Finish

Spec == Init /\ [][Next]_vars

=============================================================================
