------------------------------ MODULE StateIds ------------------------------
(***************************************************************************)
(* What the service tells a client about tasks over one connection,        *)
(* whatever handlers and watchers do it: the contract between the registry *)
(* of the service (task-state.go) and the tasks of the client (client.go). *)
(*                                                                         *)
(* State ids are numbered from 0 without gaps.  Each names one version of  *)
(* one task, for good.  An info is about what its id names, and an id is   *)
(* told to be canceled once at most, and only if its version is.  Infos    *)
(* and cancel of an id come in any order.                                  *)
(***************************************************************************)
EXTENDS Naturals

CONSTANTS Task,  \* UUIDs
          MaxId, \* state ids (a bound)
          None   \* no task

VARIABLES up,       \* the connection lasts
          names,    \* per id: the task of the version it names
          changed,  \* ids whose version is canceled
          canceled, \* ids told to be canceled
          told      \* ids told in infos, each with the task of the info

vars == <<up, names, changed, canceled, told>>

Id == 0 .. MaxId - 1
Used == {i \in Id : names[i] # None}

TypeOK ==
  /\ up \in BOOLEAN
  /\ names \in [Id -> Task \cup {None}]
  /\ changed \subseteq Used /\ canceled \subseteq changed
  /\ told \subseteq {p \in Id \X Task : names[p[1]] = p[2]}

Init ==
  /\ up = TRUE
  /\ names = [i \in Id |-> None]
  /\ changed = {} /\ canceled = {} /\ told = {}

\* The next id; it may be given to a version that is canceled already.
Name(n, t, late) ==
  /\ Used = 0 .. n - 1
  /\ names' = [names EXCEPT ![n] = t]
  /\ changed' = IF late THEN changed \cup {n} ELSE changed
  /\ UNCHANGED <<up, canceled, told>>

Change(I) ==
  /\ I \subseteq Used
  /\ changed' = changed \cup I
  /\ UNCHANGED <<up, names, canceled, told>>

Info(i) ==
  /\ up /\ i \in Used
  /\ told' = told \cup {<<i, names[i]>>}
  /\ UNCHANGED <<up, names, changed, canceled>>

SendCancel(i) ==
  /\ up /\ i \in changed \ canceled
  /\ canceled' = canceled \cup {i}
  /\ UNCHANGED <<up, names, changed, told>>

Disconnect == up' = FALSE /\ UNCHANGED <<names, changed, canceled, told>>

Next == \/ \E n \in Id, t \in Task, late \in BOOLEAN : Name(n, t, late)
        \/ \E I \in SUBSET Id : Change(I)
        \/ \E i \in Id : Info(i) \/ SendCancel(i)
        \/ Disconnect

Spec == Init /\ [][Next]_vars

=============================================================================
