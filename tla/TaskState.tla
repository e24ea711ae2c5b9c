------------------------------ MODULE TaskState ------------------------------
(***************************************************************************)
(* The state ids of one connection of the service: task-state.go, and the  *)
(* handlers of queue.go, task.go, task-status-subscribe.go and             *)
(* queue-subscribe.go that hand them out and take them back.               *)
(*                                                                         *)
(* A state id names one version of a task (lib/storage.Task) to the client *)
(* of the connection.  getOrNewId makes it; the handler sends it in an     *)
(* info and then starts the watcher of the id, which tells the client when *)
(* the version is canceled and forgets the id.  The client names the       *)
(* version by its id when it sets the status or removes the task.          *)
(*                                                                         *)
(* A handler is a goroutine: several work at once, and between any two of  *)
(* their steps other connections change the tasks.  One action per         *)
(* critical section of ts.mu, per call of the queue, per message and per   *)
(* return from a select.  A lookup that finds nothing is answered with nil *)
(* and changes nothing: it has no action.                                  *)
(***************************************************************************)
EXTENDS Naturals, FiniteSets

CONSTANTS Task,     \* UUIDs
          Version,  \* version objects, over the time of the run (a bound)
          Handler,  \* handlers that work at once (a bound)
          MaxId,    \* state ids (a bound)
          None      \* nil

ASSUME MaxIdAssumption == MaxId \in Nat \ {0}
ASSUME NoneAssumption == None \notin Task \cup Version \cup Nat

VARIABLES
  taskOf,     \* the task of a version, None: not made yet
  current,    \* per task: its current version, None: removed or not made
  up,         \* neither has the controller finished nor is the context done
  nextId,     \* taskState.nextId
  ids,        \* taskState.ids, by version, and with it taskState.watchers: the
              \*   watcher of a version is the one made with its id
  tasks,      \* taskState.tasks
  watch,      \* the watchers, by the id they were made with
  told,       \* the ids sent in infos, each with the version of the info
  cancelSent, \* the ids sent in SC_TaskCancel
  handler     \* the handlers

storage == <<taskOf, current>>
registry == <<nextId, ids, tasks>>
vars == <<storage, up, registry, watch, told, cancelSent, handler>>

Id == 0 .. MaxId - 1

NoWatcher == [at |-> "none", version |-> None, id |-> None]
Watchers == {NoWatcher} \cup
  [at : {"ready", "started", "waiting", "removing", "done"},
   version : Version, id : Id \cup {None}]

IdleHandler == [at |-> "idle", op |-> None, task |-> None, version |-> None,
                id |-> None]
\* op: an info to send, a status subscription, a status to set, a removal.
Handlers == {IdleHandler} \cup
  [at : {"found", "send", "go", "await", "follow", "looked", "act"},
   op : {"info", "status", "set", "remove"},
   task : Task, version : Version \cup {None}, id : Id \cup {None}]

TypeOK ==
  /\ taskOf \in [Version -> Task \cup {None}]
  /\ current \in [Task -> Version \cup {None}]
  /\ up \in BOOLEAN
  /\ nextId \in 0 .. MaxId
  /\ ids \in [Version -> Id \cup {None}]
  /\ tasks \in [Id -> Version \cup {None}]
  /\ watch \in [Id -> Watchers]
  /\ told \subseteq Id \X Version
  /\ cancelSent \subseteq Id
  /\ handler \in [Handler -> Handlers]

Init ==
  /\ taskOf = [v \in Version |-> None]
  /\ current = [t \in Task |-> None]
  /\ up = TRUE
  /\ nextId = 0
  /\ ids = [v \in Version |-> None]
  /\ tasks = [i \in Id |-> None]
  /\ watch = [i \in Id |-> NoWatcher]
  /\ told = {}
  /\ cancelSent = {}
  /\ handler = [h \in Handler |-> IdleHandler]

Made(v) == taskOf[v] # None
\* task.Canceled() is closed.
Canceled(v) == Made(v) /\ current[taskOf[v]] # v

\* The bounds: what begins has the ids and the versions to end.
Busy == {h \in Handler : handler[h].at # "idle"}
Room == /\ nextId + Cardinality(Busy) < MaxId
        /\ Cardinality(Busy) < Cardinality({v \in Version : ~Made(v)})

-----------------------------------------------------------------------------
(* The queue below, and the other connections.                             *)

Fresh == CHOOSE v \in Version : ~Made(v)

\* A new version is the current one; the one before is canceled.
NewVersion(t) ==
  /\ \E v \in Version : ~Made(v)
  /\ taskOf' = [taskOf EXCEPT ![Fresh] = t]
  /\ current' = [current EXCEPT ![t] = Fresh]

Elsewhere(t) ==
  /\ current[t] # None
  /\ \/ Room /\ NewVersion(t)
     \/ current' = [current EXCEPT ![t] = None] /\ UNCHANGED taskOf
  /\ UNCHANGED <<up, registry, watch, told, cancelSent, handler>>

Disconnect ==
  /\ up
  /\ up' = FALSE
  /\ UNCHANGED <<storage, registry, watch, told, cancelSent, handler>>

-----------------------------------------------------------------------------
(* Handlers that send an info.                                             *)

Begin(h, at, op, t, v) ==
  handler' = [handler EXCEPT ![h] = [at |-> at, op |-> op, task |-> t,
                                     version |-> v, id |-> None]]
End(h) == handler' = [handler EXCEPT ![h] = IdleHandler]

MayBegin(h) == up /\ handler[h].at = "idle" /\ Room

\* queueTaskNew.
QueueTaskNew(h, t) ==
  /\ MayBegin(h)
  /\ \A v \in Version : taskOf[v] # t
  /\ NewVersion(t)
  /\ Begin(h, "found", "info", t, Fresh)
  /\ UNCHANGED <<up, registry, watch, told, cancelSent>>

\* queueTaskGet, queueTasksGet for each task it lists, and queueSubscribeSend.
TaskFound(h, t) ==
  /\ MayBegin(h)
  /\ current[t] # None
  /\ Begin(h, "found", "info", t, current[t])
  /\ UNCHANGED <<storage, up, registry, watch, told, cancelSent>>

\* taskStatusSubscribe, which starts taskStatusSubscribeProcess.
TaskStatusSubscribe(h, t) ==
  /\ MayBegin(h)
  /\ current[t] # None
  /\ Begin(h, "follow", "status", t, None)
  /\ UNCHANGED <<storage, up, registry, watch, told, cancelSent>>

\* Its TaskGet; a task that has gone is told as such, and that is all.
StatusGet(h) ==
  /\ handler[h].at = "follow"
  /\ LET t == handler[h].task
     IN  IF current[t] = None THEN End(h)
         ELSE Begin(h, "found", "status", t, current[t])
  /\ UNCHANGED <<storage, up, registry, watch, told, cancelSent>>

\* Mutant: ids counted by the length of the map, and so used again.
GetOrNewIdLen(h) ==
  /\ handler[h].at = "found"
  /\ LET v == handler[h].version
         n == Cardinality({i \in Id : tasks[i] # None})
     IN  IF ids[v] # None
           THEN /\ handler' = [handler EXCEPT ![h].at = "send",
                                              ![h].id = ids[v]]
                /\ UNCHANGED <<registry, watch>>
           ELSE /\ ids' = [ids EXCEPT ![v] = n]
                /\ tasks' = [tasks EXCEPT ![n] = v]
                /\ watch' = [watch EXCEPT ![n] =
                     [at |-> "ready", version |-> v, id |-> None]]
                /\ handler' = [handler EXCEPT ![h].at = "send", ![h].id = n]
                /\ UNCHANGED nextId
  /\ UNCHANGED <<storage, up, told, cancelSent>>

\* taskState.getOrNewId: the id of the version, or a new one with a watcher
\* that has still to be started.
GetOrNewId(h) ==
  /\ handler[h].at = "found"
  /\ LET v == handler[h].version
     IN  IF ids[v] # None
           THEN /\ handler' = [handler EXCEPT ![h].at = "send",
                                              ![h].id = ids[v]]
                /\ UNCHANGED <<registry, watch>>
           ELSE /\ nextId < MaxId
                /\ nextId' = nextId + 1
                /\ ids' = [ids EXCEPT ![v] = nextId]
                /\ tasks' = [tasks EXCEPT ![nextId] = v]
                /\ watch' = [watch EXCEPT ![nextId] =
                     [at |-> "ready", version |-> v, id |-> None]]
                /\ handler' = [handler EXCEPT ![h].at = "send",
                                              ![h].id = nextId]
  /\ UNCHANGED <<storage, up, told, cancelSent>>

\* ResponseSend or MessageSend: fails when the connection has gone.
SendInfo(h) ==
  /\ handler[h].at = "send"
  /\ told' = IF up THEN told \cup {<<handler[h].id, handler[h].version>>}
             ELSE told
  /\ handler' = [handler EXCEPT ![h].at = "go"]
  /\ UNCHANGED <<storage, up, registry, watch, cancelSent>>

\* The watcher runs from the first Go on, the later ones do nothing.
Started(i) == IF watch[i].at = "ready" THEN [watch EXCEPT ![i].at = "started"]
              ELSE watch

AfterSend(h) ==
  handler' = [handler EXCEPT ![h] =
                IF @.op = "status" THEN [@ EXCEPT !.at = "await"]
                ELSE IdleHandler]

\* Mutant: the subscription does not start the watcher.
GoInfo(h) ==
  /\ handler[h].at = "go"
  /\ watch' = IF handler[h].op = "info" THEN Started(handler[h].id) ELSE watch
  /\ AfterSend(h)
  /\ UNCHANGED <<storage, up, registry, told, cancelSent>>

\* stateWatchCtx.Go().
Go(h) ==
  /\ handler[h].at = "go"
  /\ watch' = Started(handler[h].id)
  /\ AfterSend(h)
  /\ UNCHANGED <<storage, up, registry, told, cancelSent>>

\* Mutant: one change is the end of the subscription.
StatusChangedOnce(h) ==
  /\ handler[h].at = "await"
  /\ Canceled(handler[h].version)
  /\ End(h)
  /\ UNCHANGED <<storage, up, registry, watch, told, cancelSent>>

\* The subscription waits for the next change (nobody closes its cancel
\* channel but itself), or for the end of the connection, which a failed send
\* announces.
StatusChanged(h) ==
  /\ handler[h].at = "await"
  /\ Canceled(handler[h].version)
  /\ Begin(h, "follow", "status", handler[h].task, None)
  /\ UNCHANGED <<storage, up, registry, watch, told, cancelSent>>

StatusEnd(h) ==
  /\ handler[h].at = "await"
  /\ ~up
  /\ End(h)
  /\ UNCHANGED <<storage, up, registry, watch, told, cancelSent>>

-----------------------------------------------------------------------------
(* Handlers of requests that name a version by its id.                     *)

\* taskStatusSet, taskRemove: getTask.
GetTask(h, op, i) ==
  /\ MayBegin(h)
  /\ \E v \in Version : <<i, v>> \in told
  /\ tasks[i] # None
  /\ Begin(h, "looked", op, taskOf[tasks[i]], tasks[i])
  /\ UNCHANGED <<storage, up, registry, watch, told, cancelSent>>

\* Is the version canceled?  (Then the answer is nil.)
CheckCanceled(h) ==
  /\ handler[h].at = "looked"
  /\ IF Canceled(handler[h].version) THEN End(h)
     ELSE handler' = [handler EXCEPT ![h].at = "act"]
  /\ UNCHANGED <<storage, up, registry, watch, told, cancelSent>>

\* queue.TaskStatusSet takes the UUID; the new version is told like any other.
TaskStatusSet(h) ==
  /\ handler[h].at = "act" /\ handler[h].op = "set"
  /\ LET t == handler[h].task
     IN  IF current[t] = None
           THEN End(h) /\ UNCHANGED storage
           ELSE NewVersion(t) /\ Begin(h, "found", "info", t, Fresh)
  /\ UNCHANGED <<up, registry, watch, told, cancelSent>>

\* queue.TaskRemove, likewise.
TaskRemove(h) ==
  /\ handler[h].at = "act" /\ handler[h].op = "remove"
  /\ current' = [current EXCEPT ![handler[h].task] = None]
  /\ End(h)
  /\ UNCHANGED <<taskOf, up, registry, watch, told, cancelSent>>

-----------------------------------------------------------------------------
(* taskState.watcher.                                                      *)

WatchBegin(i) ==
  /\ watch[i].at = "started"
  /\ LET id == ids[watch[i].version]
     IN  watch' = [watch EXCEPT ![i] = [@ EXCEPT !.id = id,
                     !.at = IF id = None THEN "done" ELSE "waiting"]]
  /\ UNCHANGED <<storage, up, registry, told, cancelSent, handler>>

\* The version is canceled: the client is told, if it can be.
WatchCancel(i) ==
  /\ watch[i].at = "waiting"
  /\ Canceled(watch[i].version)
  /\ cancelSent' = IF up THEN cancelSent \cup {watch[i].id} ELSE cancelSent
  /\ watch' = [watch EXCEPT ![i].at = "removing"]
  /\ UNCHANGED <<storage, up, registry, told, handler>>

\* Mutant: the deferred remove is not reached.
WatchEndOnly(i) ==
  /\ watch[i].at = "waiting"
  /\ ~up
  /\ watch' = [watch EXCEPT ![i].at = "done"]
  /\ UNCHANGED <<storage, up, registry, told, cancelSent, handler>>

WatchEnd(i) ==
  /\ watch[i].at = "waiting"
  /\ ~up
  /\ watch' = [watch EXCEPT ![i].at = "removing"]
  /\ UNCHANGED <<storage, up, registry, told, cancelSent, handler>>

\* Mutant: the task of the id is not deleted.
RemoveIds(i) ==
  /\ watch[i].at = "removing"
  /\ ids' = [ids EXCEPT ![watch[i].version] = None]
  /\ watch' = [watch EXCEPT ![i].at = "done"]
  /\ UNCHANGED <<storage, up, nextId, tasks, told, cancelSent, handler>>

\* taskState.remove: it looks the id up once more (0 if there is none).
Remove(i) ==
  /\ watch[i].at = "removing"
  /\ LET v == watch[i].version
         id == IF ids[v] = None THEN 0 ELSE ids[v]
     IN  /\ ids' = [ids EXCEPT ![v] = None]
         /\ tasks' = [tasks EXCEPT ![id] = None]
  /\ watch' = [watch EXCEPT ![i].at = "done"]
  /\ UNCHANGED <<storage, up, nextId, told, cancelSent, handler>>

-----------------------------------------------------------------------------
HandlerStep(h) ==
  \/ StatusGet(h) \/ GetOrNewId(h) \/ SendInfo(h) \/ Go(h)
  \/ StatusChanged(h) \/ StatusEnd(h)
  \/ CheckCanceled(h) \/ TaskStatusSet(h) \/ TaskRemove(h)

WatcherStep(i) == WatchBegin(i) \/ WatchCancel(i) \/ WatchEnd(i) \/ Remove(i)

Next ==
  \/ Disconnect
  \/ \E t \in Task : Elsewhere(t)
  \/ \E h \in Handler :
       \/ \E t \in Task : \/ QueueTaskNew(h, t)
                          \/ TaskFound(h, t)
                          \/ TaskStatusSubscribe(h, t)
       \/ \E i \in Id, op \in {"set", "remove"} : GetTask(h, op, i)
       \/ HandlerStep(h)
  \/ \E i \in Id : WatcherStep(i)

Spec == Init /\ [][Next]_vars

\* Every goroutine that can go on does.
FairSpec == /\ Spec
            /\ \A h \in Handler : WF_vars(HandlerStep(h))
            /\ \A i \in Id : WF_vars(WatcherStep(i))

-----------------------------------------------------------------------------
(* Properties.                                                             *)

\* The maps of the registry are inverse to each other: no id is left behind by
\* its version, no version by its id (task-state.go:49-50, 98-101).
IdsAgree == \A v \in Version, i \in Id : ids[v] = i <=> tasks[i] = v

\* An id is registered exactly as long as its watcher has not ended: who gets
\* it from the registry gets a watcher that will look at it (task-state.go:42).
Watching == {"ready", "started", "waiting", "removing"}
WatchersRegistered ==
  \A i \in Id :
    /\ watch[i].at \in Watching => tasks[i] = watch[i].version
    /\ tasks[i] # None => watch[i].at \in Watching

\* The registry is whole, and its ids are looked after.
Registered == IdsAgree /\ WatchersRegistered

\* To the client an id means one version, for as long as the connection lasts,
\* even if it is forgotten and the version is registered again.
IdMeansVersion == \A p, q \in told : p[1] = q[1] => p[2] = q[2]

\* Nothing is said to be canceled that is not.
CancelMeansCanceled == \A p \in told : p[1] \in cancelSent => Canceled(p[2])

\* What the client has been told is true, and unambiguous.
ToldRight == IdMeansVersion /\ CancelMeansCanceled

\* Whatever the client has been told about is canceled at the client, too,
\* unless it goes: some cancel is sent for its id, before or after the info.
CancelTold ==
  \A i \in Id, v \in Version :
    <<i, v>> \in told /\ Canceled(v) ~> i \in cancelSent \/ ~up

\* Nothing is left of a connection: its registry is emptied, by watchers that
\* handlers start after the end, if need be.
Forgotten == ~up ~> \A i \in Id : tasks[i] = None

\* "StatusSubscribe subscribes on actual task status from queue"
\* (lib/client/task.go:18): a version that stays current is told.
Follows(h, t) == handler[h].op = "status" /\ handler[h].task = t
StatusFollowed ==
  \A h \in Handler, t \in Task, v \in Version :
    Follows(h, t) /\ current[t] = v ~>
      \/ current[t] # v \/ ~up
      \/ Follows(h, t) /\ handler[h].at = "await" /\ handler[h].version = v

\* "Should do stateWatchCtx.Go() after send message" (task-state.go:34): the
\* cancel of an id comes after its info, never before.
InfoBeforeCancel ==
  [][\A h \in Handler :
       handler[h].at = "send" /\ handler'[h].at = "go" =>
         handler[h].id \notin cancelSent]_vars

\* "if nil - task canceled/not exists or queue invalid" (mes/task.go:95): a
\* status is set on the version the request names, or not at all.
SetOnlyCurrent ==
  [][\A h \in Handler :
       handler[h].at = "act" /\ handler'[h].at = "found" =>
         ~Canceled(handler[h].version)]_vars

\* To the client all of this is StateIds, what module ClientTasks expects: its
\* ids are numbered, an info is about what the id was made for (getOrNewId,
\* task-state.go:29-57, by whatever handler), and the watcher of an id sends its
\* cancel once and not before the version is canceled (task-state.go:60-84).
Named == 0 .. nextId - 1
Contract == INSTANCE StateIds WITH
  names    <- [i \in Id |->
                 IF i \in Named THEN taskOf[watch[i].version] ELSE None],
  changed  <- {i \in Named : Canceled(watch[i].version)},
  canceled <- cancelSent,
  told     <- {<<p[1], taskOf[p[2]]>> : p \in told}

ImplementsStateIds == Contract!Spec

-----------------------------------------------------------------------------
(* The inductive invariant of the safety properties.                       *)

\* What the registry and the handlers have of a version they have of one that
\* was made, and a current version is one of its task.
MadeFirst ==
  /\ \A t \in Task : current[t] # None => taskOf[current[t]] = t
  /\ \A i \in Id : tasks[i] # None => Made(tasks[i])
  /\ \A h \in Handler : handler[h].at \notin {"idle", "follow"} =>
       handler[h].version \in Version /\ Made(handler[h].version)

\* An id has a watcher from the moment it is made, under that id.
Issued ==
  /\ \A i \in Id : i >= nextId => watch[i] = NoWatcher
  /\ \A i \in Id : watch[i].at \in {"waiting", "removing"} => watch[i].id = i

\* The watcher keeps what the id means, also when the registry has forgotten it:
\* handlers about to tell it, and the client, have it for that version only.
WatcherKnows ==
  /\ \A h \in Handler : handler[h].at \in {"send", "go"} =>
       LET i == handler[h].id
       IN  i \in Id /\ i < nextId /\ watch[i].version = handler[h].version
  /\ \A p \in told : p[1] < nextId /\ watch[p[1]].version = p[2]
  /\ \A i \in cancelSent : /\ i < nextId /\ watch[i].version \in Version
                           /\ Canceled(watch[i].version)

\* The watchers of ids have versions that were made, and send one cancel each.
CancelOnce ==
  /\ \A i \in Id : i < nextId =>
       watch[i].version \in Version /\ Made(watch[i].version)
  /\ \A i \in Id : watch[i].at \in {"ready", "started", "waiting"} =>
       i \notin cancelSent

IInv == /\ TypeOK /\ MadeFirst /\ Registered /\ Issued /\ WatcherKnows
        /\ CancelOnce

=============================================================================
