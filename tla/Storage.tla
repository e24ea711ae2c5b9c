------------------------------- MODULE Storage -------------------------------
(***************************************************************************)
(* The storage stack of the task-manager server, from the database up to   *)
(* the queue objects the request handlers use:                             *)
(*                                                                         *)
(*   lib/db/storage     storage, queue, task: two tables and, per opened   *)
(*                      queue, a list of the tasks that are in memory;     *)
(*   lib/storage        queue, task: per queue, the current version object *)
(*                      of each task; a version is canceled when a newer   *)
(*                      one replaces it or its task is removed;            *)
(*   lib/storage/queue  manager: the queue objects by name and by id.      *)
(*                                                                         *)
(* A task row is deleted from the table when the task is read and written  *)
(* back only by a graceful Stop, so the process owns what it has read: a   *)
(* crash (ProcessEnd) at any moment loses it.  The delete takes effect     *)
(* with tx.Commit, whose error is ignored: if it fails the row stays while *)
(* the task goes to memory, and a Stop writes it a second time, for no     *)
(* index keeps the UUIDs of the table apart.                               *)
(*                                                                         *)
(* Atomicity.  The mutex of lib/storage.queue is held for a whole          *)
(* operation, so one queue runs one operation at a time; Stop takes only   *)
(* the mutexes below it, and meets operations half-way.  Every operation   *)
(* touches the lower layer in one critical section, and is one action,     *)
(* but TaskStatusSet: it finds the record (StatusSetFind) and writes it    *)
(* later under the mutex of the record only (StatusSetWrite).              *)
(*                                                                         *)
(* An operation that answers "not exists" changes nothing here and has no  *)
(* action; one that panics ("storage stopped", or a query fails) takes the *)
(* process down, which ProcessEnd allows at any moment.  Each process      *)
(* calls Start and Stop once, as cli/task-manager-server does.             *)
(***************************************************************************)
EXTENDS Functions

CONSTANTS Queue,    \* queues: the name and the id of a queue are one value
          Task,     \* UUIDs; one is never generated twice
          Status,   \* task statuses
          Row,      \* primary keys of the table tasks (the bound)
          Object,   \* version objects one process can allocate (the bound)
          Foreign,  \* may callers ask a queue for a task of another queue?
          None      \* nil

ASSUME ForeignAssumption == Foreign \in BOOLEAN

VARIABLES
  queues,   \* table queues: the queues ever created
  rows,     \* table tasks: what is on disk, by primary key
  phase,    \* the storage of the current process, or "down" without one
  qstate,   \* per queue: not opened, open (isStarted), or stopped
  mem,      \* per queue: task.list, the records in memory, by UUID
  objs,     \* the version objects of the current process
  cache,    \* per queue: lib/storage.queue.task, the current version by UUID
  setting,  \* per queue: a TaskStatusSet between finding and writing
  issued,   \* UUIDs generated so far
  astray    \* history: the tasks a read of which was not committed

disk == <<queues, rows, issued, astray>>
vars == <<disk, phase, qstate, mem, objs, cache, setting>>

\* dbTask: the queue it names, whether ParentUUID is empty, the status ...
Record == [queue : Queue, root : BOOLEAN, status : Status]
\* ... and the UUID, by which rows are found and which is not their key.
Entry == [task : Task, record : Record]
\* lib/storage.task: what a version says, and whether its channel is closed.
Version == [task : Task, status : Status, canceled : BOOLEAN]
\* The arguments of a TaskStatusSet under way.
Request == [task : Task, status : Status]

ASSUME NoneAssumption == /\ None \notin Queue \cup Task \cup Status \cup Object
                         /\ None \notin Record
                         /\ None \notin Entry
                         /\ None \notin Version
                         /\ None \notin Request

Nothing == [t \in Task |-> None]

TypeOK ==
  /\ queues \subseteq Queue
  /\ rows \in [Row -> Entry \cup {None}]
  /\ phase \in {"down", "started", "stopping", "stopped"}
  /\ qstate \in [Queue -> {"closed", "open", "stopped"}]
  /\ mem \in [Queue -> [Task -> Record \cup {None}]]
  /\ objs \in [Object -> Version \cup {None}]
  /\ cache \in [Queue -> [Task -> Object \cup {None}]]
  /\ setting \in [Queue -> Request \cup {None}]
  /\ issued \subseteq Task
  /\ astray \subseteq Task

Init ==
  /\ queues = {}
  /\ rows = [r \in Row |-> None]
  /\ issued = {}
  /\ astray = {}
  /\ phase = "down"
  /\ qstate = [q \in Queue |-> "closed"]
  /\ mem = [q \in Queue |-> Nothing]
  /\ objs = [o \in Object |-> None]
  /\ cache = [q \in Queue |-> Nothing]
  /\ setting = [q \in Queue |-> None]

-----------------------------------------------------------------------------
(* Opening the storage and the queues.                                     *)

\* storage.Start.
Start ==
  /\ phase = "down"
  /\ phase' = "started"
  /\ UNCHANGED <<disk, qstate, mem, objs, cache, setting>>

\* storage.QueueGetOrCreate below manager.GetOrCreate.  Here too the error of
\* tx.Commit is ignored: the queue is opened although its row may be missing,
\* and has to be created again by a later process (under the same id).
QueueGetOrCreate(q) ==
  /\ phase = "started"
  /\ qstate[q] = "closed"
  /\ queues' \in {queues, queues \cup {q}}
  /\ qstate' = [qstate EXCEPT ![q] = "open"]
  /\ UNCHANGED <<rows, issued, astray, phase, mem, objs, cache, setting>>

\* storage.QueueGet below manager.Get: opens a queue the table has.
QueueGet(q) ==
  /\ phase = "started"
  /\ qstate[q] = "closed"
  /\ q \in queues
  /\ qstate' = [qstate EXCEPT ![q] = "open"]
  /\ UNCHANGED <<disk, phase, mem, objs, cache, setting>>

-----------------------------------------------------------------------------
(* Finding a task.                                                         *)

RowsOfTask(t) == {r \in Row : rows[r] # None /\ rows[r].task = t}

\* db queue.taskGet: in memory, else in the table, by UUID alone.
Findable(q, t) == mem[q][t] # None \/ RowsOfTask(t) # {}

\* tx.Commit after the delete of the rows R: they are gone, or the commit has
\* failed, nobody looks, and they stay.
Commit(R) ==
  \/ /\ rows' = [r \in Row |-> IF r \in R THEN None ELSE rows[r]]
     /\ UNCHANGED astray
  \/ /\ astray' = astray \cup {rows[r].task : r \in R}
     /\ UNCHANGED rows

LoadTaskKeepRow(q, t) ==  \* mutant: the delete forgotten
  \/ /\ mem[q][t] # None
     /\ UNCHANGED <<mem, rows, astray>>
  \/ /\ mem[q][t] = None
     /\ \E r \in RowsOfTask(t) : mem' = [mem EXCEPT ![q][t] = rows[r].record]
     /\ UNCHANGED <<rows, astray>>

\* ... and a row with that UUID, whichever Take returns, goes from the table
\* into the memory of the asking queue.
LoadTask(q, t) ==
  \/ /\ mem[q][t] # None
     /\ UNCHANGED <<mem, rows, astray>>
  \/ /\ mem[q][t] = None
     /\ \E r \in RowsOfTask(t) :
          /\ mem' = [mem EXCEPT ![q][t] = rows[r].record]
          /\ Commit({r})

FreeObject == {o \in Object : objs[o] = None}

\* lib/storage.NewTask.
NewTask(t, s) == [task |-> t, status |-> s, canceled |-> FALSE]

\* lib/storage queue.taskGet: the current version, created if there is none.
Current(q, t) ==
  \/ /\ cache[q][t] # None
     /\ UNCHANGED <<objs, cache, mem, rows, astray>>
  \/ /\ cache[q][t] = None
     /\ LoadTask(q, t)
     /\ \E o \in FreeObject :
          /\ objs' = [objs EXCEPT ![o] = NewTask(t, mem'[q][t].status)]
          /\ cache' = [cache EXCEPT ![q][t] = o]

\* The queue's mutex is free and the layer below has not been stopped.
Ready(q) == qstate[q] = "open" /\ setting[q] = None

\* Whether a caller that asks q for t knows t from q itself.
Asked(q, t) == Foreign \/ \A r \in RowsOfTask(t) : rows[r].record.queue = q

-----------------------------------------------------------------------------
(* The operations of lib/storage.Queue.                                    *)

TaskNew(q, t, root, s) ==
  /\ Ready(q)
  /\ t \notin issued
  /\ issued' = issued \cup {t}
  /\ mem' = [mem EXCEPT ![q][t] = [queue |-> q, root |-> root, status |-> s]]
  /\ \E o \in FreeObject :
       /\ objs' = [objs EXCEPT ![o] = NewTask(t, s)]
       /\ cache' = [cache EXCEPT ![q][t] = o]
  /\ UNCHANGED <<queues, rows, astray, phase, qstate, setting>>

TaskGet(q, t) ==
  /\ Ready(q)
  /\ Asked(q, t)
  /\ Current(q, t)
  /\ UNCHANGED <<queues, issued, phase, qstate, setting>>

RowsOfAll(q) == {r \in Row : rows[r] # None}  \* mutant: no WHERE

\* The rows tasksInfoGet takes: here the query does name the queue.
RowsOf(q) == {r \in Row : rows[r] # None /\ rows[r].record.queue = q}

\* Every task of the queue is loaded, from its first row if it has several,
\* and gets a version if it has none.  A task in memory stays as it is there.
TasksGet(q) ==
  /\ Ready(q)
  /\ LET T == {rows[r].task : r \in RowsOf(q)}
         N == {t \in Task : cache[q][t] = None /\ (t \in T \/ mem[q][t] # None)}
     IN  /\ \E first \in [T -> RowsOf(q)] :
              /\ \A t \in T : rows[first[t]].task = t
              /\ mem' = [mem EXCEPT ![q] = [t \in Task |->
                           IF t \in T /\ mem[q][t] = None
                             THEN rows[first[t]].record ELSE mem[q][t]]]
         /\ Commit(RowsOf(q))
         /\ \E f \in Injection(N, FreeObject) :
              /\ objs' = [o \in Object |->
                            IF \E t \in N : f[t] = o
                              THEN LET t == CHOOSE t \in N : f[t] = o
                                   IN  NewTask(t, mem'[q][t].status)
                              ELSE objs[o]]
              /\ cache' = [cache EXCEPT ![q] = [t \in Task |->
                             IF t \in N THEN f[t] ELSE cache[q][t]]]
  /\ UNCHANGED <<queues, issued, phase, qstate, setting>>

\* TaskStatusSet as far as db queue.taskStatusSet's taskGet ...
StatusSetFind(q, t, s) ==
  /\ Ready(q)
  /\ Asked(q, t)
  /\ Current(q, t)
  /\ setting' = [setting EXCEPT ![q] = [task |-> t, status |-> s]]
  /\ UNCHANGED <<queues, issued, phase, qstate>>

ReplaceUncanceled(q, t, s) ==  \* mutant: t.cancel() forgotten
  \E o \in FreeObject :
    /\ objs' = [objs EXCEPT ![o] = NewTask(t, s)]
    /\ cache' = [cache EXCEPT ![q][t] = o]

ReplaceForgotten(q, t, s) ==  \* mutant: the new version not stored
  \E o \in FreeObject :
    /\ objs' = [objs EXCEPT ![cache[q][t]].canceled = TRUE,
                            ![o] = NewTask(t, s)]
    /\ UNCHANGED cache

\* task.statusSet (lib/storage): the old version canceled, the new one current.
Replace(q, t, s) ==
  \E o \in FreeObject :
    /\ objs' = [objs EXCEPT ![cache[q][t]].canceled = TRUE,
                            ![o] = NewTask(t, s)]
    /\ cache' = [cache EXCEPT ![q][t] = o]

\* ... and the rest.  The record found is written wherever it now is: in the
\* list, or nowhere when a Stop has meanwhile saved and emptied the list.
StatusSetWrite(q) ==
  /\ setting[q] # None
  /\ LET t == setting[q].task
         s == setting[q].status
     IN  /\ mem' = [mem EXCEPT ![q][t] =
                      IF @ # None THEN [@ EXCEPT !.status = s] ELSE @]
         /\ Replace(q, t, s)
  /\ setting' = [setting EXCEPT ![q] = None]
  /\ UNCHANGED <<disk, phase, qstate>>

\* A task that is only on disk is loaded first.  Its record has ID 0 by then,
\* so a row that the load has left is left for good.
TaskRemove(q, t) ==
  /\ Ready(q)
  /\ Asked(q, t)
  /\ \/ mem[q][t] # None /\ UNCHANGED <<rows, astray>>
     \/ mem[q][t] = None /\ \E r \in RowsOfTask(t) : Commit({r})
  /\ mem' = [mem EXCEPT ![q][t] = None]
  /\ objs' = [o \in Object |-> IF o = cache[q][t]
                                 THEN [objs[o] EXCEPT !.canceled = TRUE]
                                 ELSE objs[o]]
  /\ cache' = [cache EXCEPT ![q][t] = None]
  /\ UNCHANGED <<queues, issued, phase, qstate, setting>>

-----------------------------------------------------------------------------
(* Stopping.                                                               *)

\* storage.Stop takes s.mu; opened queues still work until they are stopped.
StopBegin ==
  /\ phase = "started"
  /\ phase' = "stopping"
  /\ UNCHANGED <<disk, qstate, mem, objs, cache, setting>>

SavedAll(q) == {t \in Task : mem[q][t] # None}  \* mutant: children as well

Saved(q) == {t \in Task : mem[q][t] # None /\ mem[q][t].root}

\* CreateInBatches: a new row for each, or it fails and only logs it.
Save(q) ==
  \/ UNCHANGED rows
  \/ \E f \in Injection(Saved(q), {r \in Row : rows[r] = None}) :
       rows' = [r \in Row |->
                  IF \E t \in Saved(q) : f[t] = r
                    THEN LET t == CHOOSE t \in Saved(q) : f[t] = r
                         IN  [task |-> t, record |-> mem[q][t]]
                    ELSE rows[r]]

StopQueueKeepList(q) ==  \* mutant: the list not emptied
  /\ phase = "stopping"
  /\ qstate[q] = "open"
  /\ Save(q)
  /\ qstate' = [qstate EXCEPT ![q] = "stopped"]
  /\ UNCHANGED <<queues, issued, astray, phase, mem, objs, cache, setting>>

\* db queue.stop: the root tasks are written; the list is emptied, written or
\* not.
StopQueue(q) ==
  /\ phase = "stopping"
  /\ qstate[q] = "open"
  /\ Save(q)
  /\ mem' = [mem EXCEPT ![q] = Nothing]
  /\ qstate' = [qstate EXCEPT ![q] = "stopped"]
  /\ UNCHANGED <<queues, issued, astray, phase, objs, cache, setting>>

StopEnd ==
  /\ phase = "stopping"
  /\ \A q \in Queue : qstate[q] # "open"
  /\ phase' = "stopped"
  /\ UNCHANGED <<disk, qstate, mem, objs, cache, setting>>

\* The process exits after Stop, or is killed at any moment.
ProcessEnd ==
  /\ phase # "down"
  /\ phase' = "down"
  /\ qstate' = [q \in Queue |-> "closed"]
  /\ mem' = [q \in Queue |-> Nothing]
  /\ objs' = [o \in Object |-> None]
  /\ cache' = [q \in Queue |-> Nothing]
  /\ setting' = [q \in Queue |-> None]
  /\ UNCHANGED disk

-----------------------------------------------------------------------------
Next ==
  \/ Start \/ StopBegin \/ StopEnd \/ ProcessEnd
  \/ \E q \in Queue :
       \/ QueueGetOrCreate(q)
       \/ QueueGet(q)
       \/ TasksGet(q)
       \/ StatusSetWrite(q)
       \/ StopQueue(q)
       \/ \E t \in Task :
            \/ TaskGet(q, t)
            \/ TaskRemove(q, t)
            \/ \E s \in Status :
                 \/ StatusSetFind(q, t, s)
                 \/ \E root \in BOOLEAN : TaskNew(q, t, root, s)

Spec == Init /\ [][Next]_vars

-----------------------------------------------------------------------------
(* Properties.                                                             *)

Exists(t) == RowsOfTask(t) # {} \/ \E q \in Queue : mem[q][t] # None

\* A task is in one place, one row or one record of one queue, whatever its
\* queues are asked, stopped or killed in between; in two places it would be
\* written twice by the next Stop (queue.go:31-60) and survive its removal.
\* Only a read of that very task that was not committed (queue.go:140, 208)
\* puts it in two places: nothing else does, and not to any other task.
PlacedOnce ==
  \A t \in Task \ astray :
    /\ \A r, s \in RowsOfTask(t) : r = s
    /\ RowsOfTask(t) # {} => \A q \in Queue : mem[q][t] = None
    /\ \A p, q \in Queue : mem[p][t] # None /\ mem[q][t] # None => p = q

\* No task is written twice by stops (queue.go:31-60).  Refuted: one whose read
\* was not committed is in memory beside its row, which has another key.
NeverDoubled == \A t \in Task : \A r, s \in RowsOfTask(t) : r = s

\* As long as a queue is open its two layers agree: the same tasks, and the
\* current version is uncanceled and says what the record says.
LayersAgree ==
  \A q \in Queue, t \in Task :
    qstate[q] = "open" =>
      /\ (mem[q][t] = None) <=> (cache[q][t] = None)
      /\ cache[q][t] # None =>
           objs[cache[q][t]] = NewTask(t, mem[q][t].status)

\* Workers decide by the channel of the version they hold whether it is still
\* the state of the task: of all the versions of a task handed out by this
\* process at most one, the current one, is not canceled.
OneLiveVersion ==
  \A o \in Object :
    objs[o] # None /\ ~objs[o].canceled =>
      \E q \in Queue : cache[q][objs[o].task] = o
                       /\ \A p \in Queue : cache[p][objs[o].task] \in {o, None}

\* "TaskGet gets task by uuid.  If nil - task not exists or queueId invalid"
\* (storage.go:33-34): while the queue of an existing task is open, asking it
\* for the task finds it.
NilMeansAbsent ==
  \A p, q \in Queue, t \in Task :
    mem[p][t] # None /\ mem[p][t].queue = q /\ qstate[q] = "open" =>
      Findable(q, t)

\* "TaskStatusSet sets new status with content.  If ok==fale - task with uuid
\* not exists" (storage.go:37-38): a TaskStatusSet that ends with true has set
\* the status of a task that is in the storage.  (It ends with true always:
\* queue.go:243-252 has found the task.)
TrueMeansSet ==
  [][\A q \in Queue :
       setting[q] # None /\ setting'[q] = None /\ phase' # "down" =>
         LET r == mem'[q][setting[q].task]
         IN  r # None /\ r.status = setting[q].status]_vars

\* The inductive invariant.  It adds to the above:
\* a current version is a version of its task, and of no other queue;
Cached ==
  /\ \A q \in Queue, t \in Task :
       cache[q][t] # None => /\ objs[cache[q][t]] # None
                             /\ objs[cache[q][t]].task = t
                             /\ t \in issued
  /\ \A p, q \in Queue, t \in Task :
       cache[p][t] # None /\ cache[p][t] = cache[q][t] => p = q

\* a version that is not canceled is the current one of some queue;
LiveCurrent ==
  \A o \in Object :
    objs[o] # None /\ ~objs[o].canceled =>
      \E q \in Queue : cache[q][objs[o].task] = o

\* only an open queue has records, one not yet opened has no versions, and a
\* TaskStatusSet half-way has found its task;
QueueStates ==
  \A q \in Queue :
    /\ \A t \in Task : mem[q][t] # None => qstate[q] = "open"
    /\ qstate[q] = "closed" => \A t \in Task : cache[q][t] = None
    /\ setting[q] # None => cache[q][setting[q].task] # None

\* the identifiers in use have been issued;
ExistingIssued == \A t \in Task : Exists(t) \/ t \in astray => t \in issued

\* and if callers ask a queue for its own tasks only, tasks stay in the queue
\* that created them, row by row.
Owned ==
  ~Foreign => \A t \in Task :
    /\ \A r, s \in RowsOfTask(t) : rows[r].record.queue = rows[s].record.queue
    /\ \A q \in Queue :
         /\ mem[q][t] # None => mem[q][t].queue = q
         /\ cache[q][t] # None =>
              /\ \A r \in RowsOfTask(t) : rows[r].record.queue = q
              /\ \A p \in Queue : cache[p][t] # None => p = q

IInv == /\ TypeOK
        /\ PlacedOnce
        /\ LayersAgree
        /\ Cached
        /\ LiveCurrent
        /\ QueueStates
        /\ ExistingIssued
        /\ Owned

\* Seen from outside, all of this is TaskStore, which says nothing of a task
\* that has gone astray.
Located(t) ==
  IF t \in astray \/ ~Exists(t) THEN None
  ELSE IF RowsOfTask(t) # {} THEN rows[CHOOSE r \in RowsOfTask(t) : TRUE].record
  ELSE mem[CHOOSE q \in Queue : mem[q][t] # None][t]

Promise == INSTANCE TaskStore WITH
             store <- [t \in Task |-> Located(t)],
             disk  <- {t \in Task \ astray : RowsOfTask(t) # {}},
             used  <- issued,
             stray <- astray

ImplementsTaskStore == Promise!Spec

=============================================================================
