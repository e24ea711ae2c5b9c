---------------------------- MODULE ClientTasks ----------------------------
(***************************************************************************)
(* The tasks of a client by state id: client.task.list of lib/client, how  *)
(* messages of the service and answers to requests fill it (taskNew), how  *)
(* SC_TaskCancel empties it, and how a lost connection clears it.          *)
(*                                                                         *)
(* The state ids are those of StateIds, which TaskState implements: the    *)
(* service numbers them anew on every connection, means one version of a   *)
(* task by each, and tells once at most that it is canceled.  Its steps    *)
(* are smaller here: versions are canceled one by one, and an id is always *)
(* given before its version is canceled.  What arrives is processed        *)
(* by goroutines of their own: connRead starts one per message, and an     *)
(* answer waits in a channel until the goroutine of the request takes      *)
(* it.  So what has been read, here inbox, is processed in any order, and  *)
(* also after the connection has gone: nobody looks at the connection      *)
(* between the reading of a message and taskNew.                           *)
(*                                                                         *)
(* One action per critical section of c.task.mu and c.queue.mu; connState  *)
(* follows connWorker.                                                     *)
(***************************************************************************)
EXTENDS Naturals, FiniteSets

CONSTANTS Task,      \* UUIDs
          Object,    \* task objects of the client (a bound)
          MaxId,     \* state ids of a connection (a bound)
          MaxInfo,   \* infos sent for one id (a bound)
          MaxEpoch,  \* connections (a bound)
          MaxInbox,  \* what is read and not processed at once (a bound)
          Cancel,    \* an *mes.SC_TaskCancel_ms in the list
          None       \* nil

ASSUME BoundsAssumption ==
  /\ MaxId \in Nat \ {0} /\ MaxInfo \in Nat \ {0} /\ MaxEpoch \in Nat \ {0}
  /\ MaxInbox \in Nat \ {0}
ASSUME NoneAssumption == /\ None \notin Task \cup Object \cup {Cancel}
                         /\ Cancel \notin Object

VARIABLES
  connState,  \* connWorker: connecting, up, lost (Finished); or the panic that
              \*   ends the run: oldTask (in taskNew), notTask (SC_TaskCancel)
  epoch,      \* connections so far
  names,      \* of the service: the task of the version each id names, on
              \*   this connection
  changed,    \* of the service: ids whose version is canceled
  canceled,   \* of the service: ids it has sent SC_TaskCancel for
  infos,      \* of the service: infos sent, per id
  inbox,      \* what has been read and not processed
  list,       \* client.task.list
  objs,       \* the task objects
  subscribed  \* client.queue.tasksSubscribe has the subscription

service == <<names, changed, canceled, infos>>
vars == <<connState, epoch, service, inbox, list, objs, subscribed>>

Id == 0 .. MaxId - 1

\* info: of an answer or an SC_TaskStatus; offer: SC_QueueSubscribeTask;
\* subscribed: the answer to a TasksSubscribe.
\* task: what the id names, of which an info carries UUID, parent and status.
Message == [kind : {"info", "offer", "cancel", "subscribed"},
            epoch : 1 .. MaxEpoch, id : Id, nth : 0 .. MaxInfo,
            task : Task \cup {None}]

\* queue: whether queueId is set; orphan: whether it has ever not been, so that
\* the answer to a request of that time may still come.
TaskObject == [task : Task, queue : BOOLEAN, orphan : BOOLEAN,
               canceled : BOOLEAN, id : Id]
ASSUME NoObjectAssumption == None \notin TaskObject

TypeOK ==
  /\ connState \in {"connecting", "up", "lost", "oldTask", "notTask"}
  /\ epoch \in 0 .. MaxEpoch
  /\ names \in [Id -> Task \cup {None}]
  /\ changed \subseteq Id /\ canceled \subseteq changed
  /\ infos \in [Id -> 0 .. MaxInfo]
  /\ inbox \subseteq Message
  /\ list \in [Id -> Object \cup {Cancel, None}]
  /\ objs \in [Object -> TaskObject \cup {None}]
  /\ subscribed \in BOOLEAN

Init ==
  /\ connState = "connecting"
  /\ epoch = 0
  /\ names = [i \in Id |-> None]
  /\ changed = {} /\ canceled = {}
  /\ infos = [i \in Id |-> 0]
  /\ inbox = {}
  /\ list = [i \in Id |-> None]
  /\ objs = [o \in Object |-> None]
  /\ subscribed = FALSE

-----------------------------------------------------------------------------
(* The connection, and what the service sends on it.                       *)

\* connWorker gets a connection; the service makes a new taskState for it.
Connect ==
  /\ connState = "connecting"
  /\ epoch < MaxEpoch
  /\ connState' = "up"
  /\ epoch' = epoch + 1
  /\ names' = [i \in Id |-> None]
  /\ changed' = {} /\ canceled' = {}
  /\ infos' = [i \in Id |-> 0]
  /\ UNCHANGED <<inbox, list, objs, subscribed>>

\* The connection breaks.  What has not been read is lost; it is in no inbox.
Break ==
  /\ connState = "up"
  /\ connState' = "lost"
  /\ UNCHANGED <<epoch, service, inbox, list, objs, subscribed>>

Receive(kind, i, n, t) ==
  /\ Cardinality(inbox) < MaxInbox
  /\ inbox' = inbox \cup {[kind |-> kind, epoch |-> epoch, id |-> i, nth |-> n,
                           task |-> t]}

Used == {i \in Id : names[i] # None}

\* The service names a version of t by the next id (getOrNewId).
Name(t) ==
  /\ connState = "up"
  /\ Cardinality(Used) < MaxId
  /\ names' = [names EXCEPT ![Cardinality(Used)] = t]
  /\ UNCHANGED <<connState, epoch, changed, canceled, infos, inbox, list, objs,
                 subscribed>>

\* The task changes: the version is canceled.
Change(i) ==
  /\ connState = "up"
  /\ i \in Used
  /\ changed' = changed \cup {i}
  /\ UNCHANGED <<connState, epoch, names, canceled, infos, inbox, list, objs,
                 subscribed>>

\* It sends an info, in any order with the SC_TaskCancel of the id.
Info(kind, i) ==
  /\ connState = "up"
  /\ i \in Used
  /\ infos[i] < MaxInfo
  /\ infos' = [infos EXCEPT ![i] = @ + 1]
  /\ Receive(kind, i, infos[i], names[i])
  /\ UNCHANGED <<connState, epoch, names, changed, canceled, list, objs,
                 subscribed>>

SendCancel(i) ==
  /\ connState = "up"
  /\ i \in changed \ canceled
  /\ canceled' = canceled \cup {i}
  /\ Receive("cancel", i, 0, names[i])
  /\ UNCHANGED <<connState, epoch, names, changed, infos, list, objs,
                 subscribed>>

\* It answers the TasksSubscribe, which the client repeats per connection.
AnswerSubscribe ==
  /\ connState = "up"
  /\ \A m \in inbox : m.kind # "subscribed"
  /\ ~subscribed
  /\ Receive("subscribed", 0, 0, None)
  /\ UNCHANGED <<connState, epoch, service, list, objs, subscribed>>

-----------------------------------------------------------------------------
(* The client.                                                             *)

\* connDisconnected.
Disconnected ==
  /\ connState = "lost"
  /\ connState' = "connecting"
  /\ objs' = [o \in Object |->
                IF \E i \in Id : list[i] = o
                  THEN [objs[o] EXCEPT !.canceled = TRUE] ELSE objs[o]]
  /\ list' = [i \in Id |-> None]
  /\ subscribed' = FALSE
  /\ UNCHANGED <<epoch, service, inbox>>

\* A panic in a goroutine below the worker, for whose handler it is the end.
Panic(where) == connState' = where /\ UNCHANGED <<list, objs>>
Alive == connState \notin {"oldTask", "notTask"}

\* Mutant: the UUID is not set.
NewObjectBlank(m, q, c) ==
  [task |-> None, queue |-> q, orphan |-> ~q, canceled |-> c, id |-> m.id]

NewObject(m, q, c) ==
  [task |-> m.task, queue |-> q, orphan |-> ~q, canceled |-> c, id |-> m.id]

\* Another object of the same id: with queueId, UUID and parent the same, or
\* with a queueId of 0, it takes the fields of the new one.
Differ(o, m, q) ==
  objs[o].queue /\ q /\ objs[o].task # m.task

Take(o, m, q) ==
  objs' = [objs EXCEPT ![o].queue = q, ![o].task = m.task,
                       ![o].orphan = @ \/ ~q]

\* Mutant: an object is replaced by the next one of its id.
TaskNewReplace(m, q) ==
  LET at == list[m.id]
  IN  /\ \E o \in Object :
           /\ objs[o] = None
           /\ objs' = [objs EXCEPT ![o] = NewObject(m, q, at = Cancel)]
           /\ list' = [list EXCEPT ![m.id] = IF at = Cancel THEN None ELSE o]
      /\ UNCHANGED connState

\* client.taskNew: the object of an id.  If its cancel came first it is
\* canceled at once.
TaskNew(m, q) ==
  LET at == list[m.id]
  IN  \/ /\ at \in {None, Cancel}
         /\ \E o \in Object :
              /\ objs[o] = None
              /\ objs' = [objs EXCEPT ![o] = NewObject(m, q, at = Cancel)]
              /\ list' = [list EXCEPT ![m.id] = IF at = None THEN o ELSE None]
         /\ UNCHANGED connState
      \/ /\ at \in Object
         /\ IF Differ(at, m, q) THEN Panic("oldTask")
            ELSE Take(at, m, q) /\ UNCHANGED <<list, connState>>

\* Answers and SC_TaskStatus know their queue; SC_QueueSubscribeTask finds it
\* with its subscription, or is made with 0 (and rejected).
ProcessInfo(m) ==
  /\ Alive
  /\ m \in inbox
  /\ \/ m.kind = "info" /\ TaskNew(m, TRUE)
     \/ m.kind = "offer" /\ TaskNew(m, subscribed)
  /\ inbox' = inbox \ {m}
  /\ UNCHANGED <<epoch, service, subscribed>>

\* Mutant: a cancel that comes first is forgotten.
ProcessCancelForget(m) ==
  /\ Alive
  /\ m \in inbox
  /\ m.kind = "cancel"
  /\ IF list[m.id] \in Object
       THEN /\ objs' = [objs EXCEPT ![list[m.id]].canceled = TRUE]
            /\ list' = [list EXCEPT ![m.id] = None]
       ELSE UNCHANGED <<list, objs>>
  /\ inbox' = inbox \ {m}
  /\ UNCHANGED <<connState, epoch, service, subscribed>>

\* Mutant: the objects of the task are canceled, whatever their id.
ProcessCancelTask(m) ==
  /\ Alive
  /\ m \in inbox
  /\ m.kind = "cancel"
  /\ LET t == m.task
         O == {o \in Object : objs[o] # None /\ objs[o].task = t}
     IN  /\ objs' = [o \in Object |-> IF o \in O
                       THEN [objs[o] EXCEPT !.canceled = TRUE] ELSE objs[o]]
         /\ list' = [i \in Id |-> IF list[i] \in O THEN None
                                  ELSE IF i = m.id THEN Cancel ELSE list[i]]
  /\ inbox' = inbox \ {m}
  /\ UNCHANGED <<connState, epoch, service, subscribed>>

\* SC_TaskCancel: kept for the object to come, or it cancels the object.
ProcessCancel(m) ==
  /\ Alive
  /\ m \in inbox
  /\ m.kind = "cancel"
  /\ LET at == list[m.id]
     IN  \/ /\ at = None
            /\ list' = [list EXCEPT ![m.id] = Cancel]
            /\ UNCHANGED <<objs, connState>>
         \/ /\ at \in Object
            /\ objs' = [objs EXCEPT ![at].canceled = TRUE]
            /\ list' = [list EXCEPT ![m.id] = None]
            /\ UNCHANGED connState
         \/ /\ at = Cancel
            /\ Panic("notTask")
  /\ inbox' = inbox \ {m}
  /\ UNCHANGED <<epoch, service, subscribed>>

\* client.queueTasksSubscribe, by the goroutine of TasksSubscribe.
ProcessSubscribed(m) ==
  /\ Alive
  /\ m \in inbox
  /\ m.kind = "subscribed"
  /\ subscribed' = TRUE
  /\ inbox' = inbox \ {m}
  /\ UNCHANGED <<connState, epoch, service, list, objs>>

\* task.StatusSet, task.Remove: the service refuses a version that is canceled,
\* and a request with queueId 0.  The object is canceled and stays in the list.
Refused(o) ==
  /\ connState = "up"
  /\ objs[o] # None
  /\ ~objs[o].canceled
  /\ objs[o].orphan \/ objs[o].id \in changed
  /\ objs' = [objs EXCEPT ![o].canceled = TRUE]
  /\ UNCHANGED <<connState, epoch, service, inbox, list, subscribed>>

-----------------------------------------------------------------------------
Process(m) == ProcessInfo(m) \/ ProcessCancel(m) \/ ProcessSubscribed(m)

Next ==
  \/ Connect \/ Break \/ Disconnected \/ AnswerSubscribe
  \/ \E t \in Task : Name(t)
  \/ \E i \in Id : \/ Change(i)
                   \/ SendCancel(i)
                   \/ \E kind \in {"info", "offer"} : Info(kind, i)
  \/ \E m \in inbox : Process(m)
  \/ \E o \in Object : Refused(o)

Spec == Init /\ [][Next]_vars

-----------------------------------------------------------------------------
(* Properties.                                                             *)

Made(o) == objs[o] # None
Live(o) == Made(o) /\ ~objs[o].canceled

\* An object that is not canceled can still be: the list has it, so the next
\* cancel of its id finds it, and a lost connection does.
Reachable == \A o \in Object : Live(o) => list[objs[o].id] = o

\* While the first connection lasts, an object is canceled only if the version
\* it stands for is, or if an offer that came before its subscription has left
\* it without a queue (client.go:424, task.go:291).
CanceledByService ==
  \A o \in Object :
    Made(o) /\ objs[o].canceled /\ epoch = 1 /\ connState = "up" =>
      objs[o].orphan \/ objs[o].id \in changed

\* "Old task with same state id (%d) but different datas" (client.go:349): an id
\* in the list names what the service means by it.
NoOldTask == connState # "oldTask"

\* Neither this panic nor that of a second cancel (client.go:465) ends a client
\* that has not reconnected.
NoPanicFirst == epoch <= 1 => Alive

\* What the first connection does to the objects is the service's doing.
FirstConnection == CanceledByService /\ NoPanicFirst

\* With one info per id the order does not matter: an object of the first
\* connection whose id the service cancels is canceled, or its cancel is still
\* to be processed.  (After a second info, or on a later connection with
\* objects of the one before, the cancel may have come and gone.)
CancelArrives ==
  epoch = 1 /\ connState = "up" /\ MaxInfo = 1 =>
    \A o \in Object :
      Live(o) /\ objs[o].id \in canceled =>
        \E m \in inbox : m.kind = "cancel" /\ m.id = objs[o].id

-----------------------------------------------------------------------------
(* The inductive invariant of the safety properties.                       *)

IsInfo(m) == m.kind \in {"info", "offer"}
InfosOf(i) == {m \in inbox : IsInfo(m) /\ m.id = i}
CancelsOf(i) == {m \in inbox : m.kind = "cancel" /\ m.id = i}

\* The service numbers without gaps, and tells of what it has named.
NamedInOrder == \E n \in 0 .. MaxId : Used = 0 .. n - 1
Sent == /\ connState = "up" => epoch # 0
        /\ \A m \in inbox : IsInfo(m) => m.task \in Task

\* What the list has is an object, under its own id.
Listed ==
  \A i \in Id : list[i] \in Object => Made(list[i]) /\ objs[list[i]].id = i

\* Up to the end of the first connection everything there is, is of it: messages
\* and objects of an id have the task it names, and its cancel is told once.
OfFirst ==
  /\ epoch = 0 => /\ connState = "connecting" /\ inbox = {}
                  /\ \A i \in Id : list[i] = None
                  /\ \A o \in Object : ~Made(o)
  /\ epoch = 1 =>
       /\ \A m \in inbox : IsInfo(m) => m.task = names[m.id]
       /\ \A o \in Object : Made(o) => objs[o].task = names[objs[o].id]
       /\ \A i \in Id : CancelsOf(i) # {} => i \in canceled
       /\ \A i \in Id : list[i] = Cancel => i \in canceled /\ CancelsOf(i) = {}
       /\ \A i \in Id : \A m, n \in CancelsOf(i) : m = n

\* With one info per id, an object has had it; and what has been canceled is to
\* be processed, or kept in the list, or has found its object.
OneInfo ==
  epoch = 1 /\ MaxInfo = 1 =>
    /\ \A i \in Id : InfosOf(i) # {} => infos[i] = 1
    /\ \A i \in Id : \A m, n \in InfosOf(i) : m = n
    /\ \A o \in Object : Made(o) => /\ infos[objs[o].id] = 1
                                    /\ InfosOf(objs[o].id) = {}
    /\ connState = "up" =>
         \A i \in canceled : \/ CancelsOf(i) # {} \/ list[i] = Cancel
                             \/ \E o \in Object : Made(o) /\ objs[o].id = i

IInv == /\ TypeOK
        /\ NamedInOrder
        /\ Sent
        /\ Listed
        /\ Reachable
        /\ OfFirst
        /\ FirstConnection
        /\ OneInfo
        /\ CancelArrives

=============================================================================
