------------------------------ MODULE TaskStore ------------------------------
(***************************************************************************)
(* What the storage of the task manager promises about tasks, whatever     *)
(* mixture of table rows and in-memory records holds them: the interface   *)
(* Storage/StorageWithControl of lib/db/storage, seen from outside.        *)
(*                                                                         *)
(* A task is created once, under an identifier never used before; it then  *)
(* changes status until it is removed.  A task is either safe (on disk) or *)
(* only in memory, where a crash loses it.  A graceful stop puts the root  *)
(* tasks (those without a parent) back on disk and forgets the others.     *)
(* A task that has gone, for whatever reason, never comes back.            *)
(*                                                                         *)
(* The promise is void for a task that has gone stray: when tasks are read *)
(* the disk may fail to let go of them, unnoticed, and from then on such a *)
(* task may be kept twice, or come back after its removal.  All the others *)
(* are kept as promised.                                                   *)
(***************************************************************************)

CONSTANTS Queue,   \* the queues
          Task,    \* the task identifiers (UUIDs)
          Status,  \* the statuses
          None     \* "no task": not a record

VARIABLES store,   \* the tasks that exist, and their data
          disk,    \* the identifiers of those that a crash leaves alone
          used,    \* the identifiers issued so far
          stray    \* the identifiers nothing is promised of any more

vars == <<store, disk, used, stray>>

Record == [queue : Queue, root : BOOLEAN, status : Status]

Present == {t \in Task : store[t] # None}

TypeOK == /\ store \in [Task -> Record \cup {None}]
          /\ disk \subseteq Present
          /\ Present \subseteq used
          /\ used \subseteq Task
          /\ stray \subseteq used \ Present

Init == /\ store = [t \in Task |-> None]
        /\ disk = {}
        /\ used = {}
        /\ stray = {}

Create(t, r) == /\ t \in Task \ used
                /\ store' = [store EXCEPT ![t] = r]
                /\ used' = used \cup {t}
                /\ UNCHANGED <<disk, stray>>

\* Reading tasks takes them off the disk and into memory.
Load(T) == /\ T \subseteq disk
           /\ disk' = disk \ T
           /\ UNCHANGED <<store, used, stray>>

\* Or the disk does not let go of them.
GoStray(T) == /\ T \subseteq disk
              /\ stray' = stray \cup T
              /\ store' = [t \in Task |-> IF t \in T THEN None ELSE store[t]]
              /\ disk' = disk \ T
              /\ UNCHANGED used

SetStatus(t, s) == /\ t \in Present \ disk
                   /\ store' = [store EXCEPT ![t].status = s]
                   /\ UNCHANGED <<disk, used, stray>>

Remove(t) == /\ t \in Present
             /\ store' = [store EXCEPT ![t] = None]
             /\ disk' = disk \ {t}
             /\ UNCHANGED <<used, stray>>

\* A graceful stop writes back the root tasks of T and drops the others.
Save(T) == /\ T \subseteq Present \ disk
           /\ disk' = disk \cup {t \in T : store[t].root}
           /\ store' = [t \in Task |-> IF t \in T /\ ~store[t].root
                                         THEN None ELSE store[t]]
           /\ UNCHANGED <<used, stray>>

\* A crash, or a graceful stop whose write fails.
Lose(T) == /\ T \subseteq Present \ disk
           /\ store' = [t \in Task |-> IF t \in T THEN None ELSE store[t]]
           /\ UNCHANGED <<disk, used, stray>>

Next == \/ \E t \in Task, r \in Record : Create(t, r)
        \/ \E t \in Task, s \in Status : SetStatus(t, s)
        \/ \E t \in Task : Remove(t)
        \/ \E T \in SUBSET Task : Load(T) \/ GoStray(T) \/ Save(T) \/ Lose(T)

Spec == Init /\ [][Next]_vars

=============================================================================
