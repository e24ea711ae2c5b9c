-------------------------- MODULE ConnectionProofs --------------------------
(***************************************************************************)
(* Proofs about what the service holds for a connection: its state ids     *)
(* (TaskState), and the controller that it and the client talk through     *)
(* (Protocol).  They hold for any tasks, versions, handlers and requests,  *)
(* and any number of ids and messages.  That the two give each other what  *)
(* the client relies on are the theorems about StateIds and Requests.      *)
(***************************************************************************)
EXTENDS TaskState, Protocol, TLAPS

-----------------------------------------------------------------------------
(* The state ids: module TaskState.                                        *)

LEMMA Ids ==
  /\ 0 \in Id /\ Id \subseteq Nat
  /\ None \notin Id /\ None \notin Task /\ None \notin Version
  /\ \A n \in 0 .. MaxId : n < MaxId => n \in Id /\ n + 1 \in 0 .. MaxId
BY MaxIdAssumption, NoneAssumption DEF Id

LEMMA InitIInv == Init => IInv
<1> SUFFICES ASSUME Init PROVE IInv
  OBVIOUS
<1>1. 0 \in 0 .. MaxId BY MaxIdAssumption
<1>2. TypeOK
  BY <1>1 DEF Init, TypeOK, Watchers, Handlers
<1>3. MadeFirst BY DEF Init, MadeFirst, IdleHandler
<1>4. Registered
  BY Ids DEF Init, Registered, IdsAgree, WatchersRegistered, NoWatcher, Watching
<1>5. Issued BY DEF Init, Issued, NoWatcher
<1>6. WatcherKnows BY DEF Init, WatcherKnows, IdleHandler
<1>7. CancelOnce BY Ids DEF Init, CancelOnce
<1> QED BY <1>2, <1>3, <1>4, <1>5, <1>6, <1>7 DEF IInv

-----------------------------------------------------------------------------
(* Versions.                                                               *)

LEMMA FreshIsNew ==
  ASSUME NEW t, NewVersion(t)
  PROVE  Fresh \in Version /\ ~Made(Fresh)
BY DEF NewVersion, Fresh

\* What a step does to the tasks: a new version, a removal, or nothing.
LEMMA StorageSteps ==
  ASSUME IInv, [Next]_vars
  PROVE  \/ UNCHANGED storage
         \/ \E t \in Task : NewVersion(t)
         \/ \E t \in Task : /\ current' = [current EXCEPT ![t] = None]
                            /\ UNCHANGED taskOf
<1> USE DEF storage
<1>1. ASSUME NEW t \in Task, Elsewhere(t)
      PROVE  \/ NewVersion(t)
             \/ current' = [current EXCEPT ![t] = None] /\ UNCHANGED taskOf
  BY <1>1 DEF Elsewhere
<1>2. ASSUME NEW h \in Handler, NEW t \in Task, QueueTaskNew(h, t) PROVE NewVersion(t)
  BY <1>2 DEF QueueTaskNew
<1>3. ASSUME NEW h \in Handler, handler[h].at = "act" PROVE handler[h].task \in Task
  BY <1>3 DEF IInv, TypeOK, Handlers, IdleHandler
<1>4. ASSUME NEW h \in Handler, TaskStatusSet(h)
      PROVE  UNCHANGED storage \/ \E t \in Task : NewVersion(t)
  <2>1. handler[h].task \in Task BY <1>3, <1>4 DEF TaskStatusSet
  <2> QED BY <1>4, <2>1 DEF TaskStatusSet
<1>5. ASSUME NEW h \in Handler, TaskRemove(h)
      PROVE  \E t \in Task : /\ current' = [current EXCEPT ![t] = None]
                             /\ UNCHANGED taskOf
  BY <1>3, <1>5 DEF TaskRemove
<1>6. ASSUME NEW h \in Handler, NEW t \in Task,
             TaskFound(h, t) \/ TaskStatusSubscribe(h, t)
      PROVE  UNCHANGED storage
  BY <1>6 DEF TaskFound, TaskStatusSubscribe
<1>7. ASSUME NEW h \in Handler, HandlerStep(h), ~TaskStatusSet(h), ~TaskRemove(h)
      PROVE  UNCHANGED storage
  BY <1>7 DEF HandlerStep, StatusGet, GetOrNewId, SendInfo, Go, StatusChanged,
              StatusEnd, CheckCanceled
<1>8. ASSUME NEW h, NEW op, NEW i, GetTask(h, op, i) PROVE UNCHANGED storage
  BY <1>8 DEF GetTask
<1>9. ASSUME NEW i \in Id, WatcherStep(i) PROVE UNCHANGED storage
  BY <1>9 DEF WatcherStep, WatchBegin, WatchCancel, WatchEnd, Remove
<1>10. CASE Disconnect \/ UNCHANGED vars BY <1>10 DEF Disconnect, vars
<1> QED BY <1>1, <1>2, <1>4, <1>5, <1>6, <1>7, <1>8, <1>9, <1>10 DEF Next

\* A version stays a version of its task, and canceled once it is.
LEMMA VersionStays ==
  ASSUME IInv, [Next]_vars, NEW v \in Version
  PROVE  /\ Made(v) => Made(v)' /\ taskOf'[v] = taskOf[v]
         /\ Canceled(v) => Canceled(v)'
<1>t. /\ taskOf \in [Version -> Task \cup {None}]
      /\ current \in [Task -> Version \cup {None}]
  BY DEF IInv, TypeOK
<1>1. CASE UNCHANGED storage BY <1>1 DEF storage, Made, Canceled
<1>2. ASSUME NEW t \in Task, NewVersion(t)
      PROVE  /\ Made(v) => Made(v)' /\ taskOf'[v] = taskOf[v]
             /\ Canceled(v) => Canceled(v)'
  <2>1. Fresh \in Version /\ ~Made(Fresh) BY <1>2, FreshIsNew
  <2>2. /\ taskOf' = [taskOf EXCEPT ![Fresh] = t]
        /\ current' = [current EXCEPT ![t] = Fresh]
    BY <1>2 DEF NewVersion
  <2>3. Made(v) => v # Fresh BY <2>1
  <2> QED BY <1>t, <2>1, <2>2, <2>3 DEF Made, Canceled
<1>3. ASSUME NEW t \in Task, current' = [current EXCEPT ![t] = None], UNCHANGED taskOf
      PROVE  /\ Made(v) => Made(v)' /\ taskOf'[v] = taskOf[v]
             /\ Canceled(v) => Canceled(v)'
  BY <1>t, <1>3, Ids DEF Made, Canceled
<1> QED BY <1>1, <1>2, <1>3, StorageSteps

LEMMA StorageType ==
  ASSUME IInv, [Next]_vars
  PROVE  /\ taskOf' \in [Version -> Task \cup {None}]
         /\ current' \in [Task -> Version \cup {None}]
         /\ \A t \in Task : current'[t] # None => taskOf'[current'[t]] = t
<1>t. /\ taskOf \in [Version -> Task \cup {None}]
      /\ current \in [Task -> Version \cup {None}]
      /\ \A t \in Task : current[t] # None => taskOf[current[t]] = t
  BY DEF IInv, TypeOK, MadeFirst
<1>1. CASE UNCHANGED storage BY <1>t, <1>1 DEF storage
<1>2. ASSUME NEW t \in Task, NewVersion(t)
      PROVE  /\ taskOf' \in [Version -> Task \cup {None}]
             /\ current' \in [Task -> Version \cup {None}]
             /\ \A u \in Task : current'[u] # None => taskOf'[current'[u]] = u
  <2>1. Fresh \in Version /\ taskOf[Fresh] = None BY <1>2, FreshIsNew DEF Made
  <2>2. /\ taskOf' = [taskOf EXCEPT ![Fresh] = t]
        /\ current' = [current EXCEPT ![t] = Fresh]
    BY <1>2 DEF NewVersion
  <2> QED BY <1>t, <2>1, <2>2, Ids
<1>3. ASSUME NEW t \in Task, current' = [current EXCEPT ![t] = None], UNCHANGED taskOf
      PROVE  /\ taskOf' \in [Version -> Task \cup {None}]
             /\ current' \in [Task -> Version \cup {None}]
             /\ \A u \in Task : current'[u] # None => taskOf'[current'[u]] = u
  BY <1>t, <1>3
<1> QED BY <1>1, <1>2, <1>3, StorageSteps

-----------------------------------------------------------------------------
(* Handlers.                                                               *)

\* What a handler may become: what it then has of a version is of one that was
\* made, and an id it gets from getOrNewId only.
HandlerGoes(h, x) ==
  /\ x \in Handlers
  /\ handler' = [handler EXCEPT ![h] = x]
  /\ x.at \notin {"idle", "follow"} =>
       x.version \in Version /\ taskOf'[x.version] # None
  /\ x.at \in {"send", "go"} =>
       \/ GetOrNewId(h)
       \/ /\ handler[h].at = "send"
          /\ x.id = handler[h].id /\ x.version = handler[h].version

\* The fields of a handler at work.
LEMMA AtWork ==
  ASSUME IInv, NEW h \in Handler, handler[h].at # "idle"
  PROVE  /\ handler[h] \in [at : {"found", "send", "go", "await", "follow", "looked", "act"},
                            op : {"info", "status", "set", "remove"},
                            task : Task, version : Version \cup {None}, id : Id \cup {None}]
         /\ handler[h].at # "follow" =>
              handler[h].version \in Version /\ Made(handler[h].version)
BY DEF IInv, TypeOK, Handlers, IdleHandler, MadeFirst

LEMMA Begins ==
  ASSUME NEW h \in Handler, NEW at \in {"found", "follow", "looked"},
         NEW op \in {"info", "status", "set", "remove"},
         NEW t \in Task, NEW v \in Version \cup {None}, Begin(h, at, op, t, v),
         at # "follow" => v \in Version /\ taskOf'[v] # None
  PROVE  \E x : HandlerGoes(h, x)
<1> DEFINE x == [at |-> at, op |-> op, task |-> t, version |-> v, id |-> None]
<1>1. x \in Handlers BY DEF Handlers
<1>2. handler' = [handler EXCEPT ![h] = x] BY DEF Begin
<1>3. HandlerGoes(h, x) BY <1>1, <1>2 DEF HandlerGoes
<1> QED BY <1>3

LEMMA Ends ==
  ASSUME NEW h \in Handler, End(h)
  PROVE  \E x : HandlerGoes(h, x)
<1>1. HandlerGoes(h, IdleHandler) BY DEF End, HandlerGoes, IdleHandler, Handlers
<1> QED BY <1>1

\* Two steps that only change a field.
LEMMA GoesOn ==
  ASSUME IInv, [Next]_vars, NEW h \in Handler, handler[h].at \in {"send", "looked", "go"},
         NEW at \in {"go", "act", "await"},
         at = "go" => handler[h].at = "send",
         handler' = [handler EXCEPT ![h].at = at]
  PROVE  \E x : HandlerGoes(h, x)
<1> DEFINE x == [handler[h] EXCEPT !.at = at]
<1>1. /\ handler[h] \in [at : {"found", "send", "go", "await", "follow", "looked", "act"},
                         op : {"info", "status", "set", "remove"},
                         task : Task, version : Version \cup {None}, id : Id \cup {None}]
      /\ handler[h].version \in Version /\ Made(handler[h].version)
  BY AtWork
<1>2. /\ x \in Handlers /\ x.at = at
      /\ x.version = handler[h].version /\ x.id = handler[h].id
  BY <1>1 DEF Handlers
<1>3. handler' = [handler EXCEPT ![h] = x] OBVIOUS
<1>4. taskOf'[x.version] # None BY <1>1, <1>2, VersionStays DEF Made
<1> HIDE DEF x
<1>5. HandlerGoes(h, x) BY <1>1, <1>2, <1>3, <1>4 DEF HandlerGoes
<1> QED BY <1>5

LEMMA HandlerSteps ==
  ASSUME IInv, [Next]_vars
  PROVE  UNCHANGED handler \/ \E h \in Handler : \E x : HandlerGoes(h, x)
<1>1. ASSUME NEW t \in Task, Elsewhere(t) PROVE UNCHANGED handler
  BY <1>1 DEF Elsewhere
<1>v. ASSUME NEW t \in Task, NewVersion(t)
      PROVE  Fresh \in Version /\ taskOf'[Fresh] # None
  <2>1. Fresh \in Version BY <1>v, FreshIsNew
  <2>2. taskOf' = [taskOf EXCEPT ![Fresh] = t] BY <1>v DEF NewVersion
  <2>3. taskOf'[Fresh] = t BY <2>1, <2>2 DEF IInv, TypeOK
  <2> QED BY <2>1, <2>3, Ids
<1>f. ASSUME NEW t \in Task, current[t] # None
      PROVE  current[t] \in Version /\ taskOf'[current[t]] # None
  <2>1. current[t] \in Version /\ Made(current[t])
    BY <1>f, Ids DEF IInv, TypeOK, MadeFirst, Made
  <2>2. PICK v \in Version : v = current[t] BY <2>1
  <2> QED BY <2>1, <2>2, VersionStays DEF Made
<1>2. ASSUME NEW h \in Handler, NEW t \in Task, QueueTaskNew(h, t)
      PROVE  \E x : HandlerGoes(h, x)
  <2>1. NewVersion(t) /\ Begin(h, "found", "info", t, Fresh)
    BY <1>2 DEF QueueTaskNew
  <2> QED BY <1>v, <2>1, Begins
<1>3. ASSUME NEW h \in Handler, NEW t \in Task, TaskFound(h, t)
      PROVE  \E x : HandlerGoes(h, x)
  <2>1. current[t] # None /\ Begin(h, "found", "info", t, current[t])
    BY <1>3 DEF TaskFound
  <2> QED BY <1>f, <2>1, Begins
<1>4. ASSUME NEW h \in Handler, NEW t \in Task, TaskStatusSubscribe(h, t)
      PROVE  \E x : HandlerGoes(h, x)
  BY <1>4, Begins DEF TaskStatusSubscribe
<1>5. ASSUME NEW h \in Handler, NEW op \in {"set", "remove"}, NEW i \in Id, GetTask(h, op, i)
      PROVE  \E x : HandlerGoes(h, x)
  <2>1. PICK v \in Version : v = tasks[i] BY <1>5 DEF GetTask, IInv, TypeOK
  <2>3. Made(v) /\ Begin(h, "looked", op, taskOf[v], v)
    BY <1>5, <2>1 DEF GetTask, IInv, MadeFirst
  <2>2. taskOf[v] \in Task BY <2>3 DEF IInv, TypeOK, Made
  <2>4. taskOf'[v] # None BY <2>3, VersionStays DEF Made
  <2> QED BY <2>2, <2>3, <2>4, Begins
<1>6. ASSUME NEW h \in Handler, StatusGet(h) PROVE \E x : HandlerGoes(h, x)
  <2>1. PICK t \in Task : t = handler[h].task BY <1>6, AtWork DEF StatusGet
  <2>2. CASE current[t] = None BY <1>6, <2>1, <2>2, Ends DEF StatusGet
  <2>3. CASE current[t] # None
    <3>1. Begin(h, "found", "status", t, current[t]) BY <1>6, <2>1, <2>3 DEF StatusGet
    <3> QED BY <1>f, <2>3, <3>1, Begins
  <2> QED BY <2>2, <2>3
<1>7. ASSUME NEW h \in Handler, GetOrNewId(h) PROVE \E x : HandlerGoes(h, x)
  <2>1. PICK i \in Id : handler' = [handler EXCEPT ![h] =
                                      [handler[h] EXCEPT !.at = "send", !.id = i]]
    <3> DEFINE v == handler[h].version
    <3>1. v \in Version BY <1>7, AtWork DEF GetOrNewId
    <3>2. CASE ids[v] # None
      <4>1. ids[v] \in Id BY <3>1, <3>2 DEF IInv, TypeOK
      <4>2. handler' = [handler EXCEPT ![h].at = "send", ![h].id = ids[v]]
        BY <1>7, <3>2 DEF GetOrNewId
      <4> QED BY <4>1, <4>2
    <3>3. CASE ids[v] = None
      <4>1. nextId < MaxId /\ handler' = [handler EXCEPT ![h].at = "send", ![h].id = nextId]
        BY <1>7, <3>3 DEF GetOrNewId
      <4>2. nextId \in Id BY <4>1, Ids DEF IInv, TypeOK
      <4> QED BY <4>1, <4>2
    <3> QED BY <3>2, <3>3
  <2> DEFINE x == [handler[h] EXCEPT !.at = "send", !.id = i]
  <2>2. /\ handler[h] \in [at : {"found", "send", "go", "await", "follow", "looked", "act"},
                           op : {"info", "status", "set", "remove"},
                           task : Task, version : Version \cup {None}, id : Id \cup {None}]
        /\ handler[h].version \in Version /\ Made(handler[h].version)
    BY <1>7, AtWork DEF GetOrNewId
  <2>3. x \in Handlers /\ x.version = handler[h].version BY <2>2 DEF Handlers
  <2>4. taskOf'[x.version] # None BY <2>2, <2>3, VersionStays DEF Made
  <2> HIDE DEF x
  <2>5. handler' = [handler EXCEPT ![h] = x] BY <2>1 DEF x
  <2>6. HandlerGoes(h, x) BY <1>7, <2>2, <2>3, <2>4, <2>5 DEF HandlerGoes
  <2> QED BY <2>6
<1>8. ASSUME NEW h \in Handler, SendInfo(h) PROVE \E x : HandlerGoes(h, x)
  BY <1>8, GoesOn DEF SendInfo
<1>9. ASSUME NEW h \in Handler, Go(h) PROVE \E x : HandlerGoes(h, x)
  <2>1. CASE handler[h].op = "status"
    <3>1. handler' = [handler EXCEPT ![h].at = "await"]
      BY <1>9, <2>1 DEF Go, AfterSend, IInv, TypeOK
    <3> QED BY <1>9, <3>1, GoesOn DEF Go
  <2>2. CASE handler[h].op # "status"
    <3>1. End(h) BY <1>9, <2>2 DEF Go, AfterSend, End, IInv, TypeOK
    <3> QED BY <3>1, Ends
  <2> QED BY <2>1, <2>2
<1>10. ASSUME NEW h \in Handler, StatusChanged(h) PROVE \E x : HandlerGoes(h, x)
  <2>1. PICK t \in Task : t = handler[h].task BY <1>10, AtWork DEF StatusChanged
  <2> QED BY <1>10, <2>1, Begins DEF StatusChanged
<1>11. ASSUME NEW h \in Handler, StatusEnd(h) PROVE \E x : HandlerGoes(h, x)
  BY <1>11, Ends DEF StatusEnd
<1>12. ASSUME NEW h \in Handler, CheckCanceled(h) PROVE \E x : HandlerGoes(h, x)
  BY <1>12, Ends, GoesOn DEF CheckCanceled
<1>13. ASSUME NEW h \in Handler, TaskStatusSet(h) PROVE \E x : HandlerGoes(h, x)
  <2>1. PICK t \in Task : t = handler[h].task BY <1>13, AtWork DEF TaskStatusSet
  <2>2. \/ End(h)
        \/ NewVersion(t) /\ Begin(h, "found", "info", t, Fresh)
    BY <1>13, <2>1 DEF TaskStatusSet
  <2> QED BY <1>v, <2>2, Begins, Ends
<1>14. ASSUME NEW h \in Handler, TaskRemove(h) PROVE \E x : HandlerGoes(h, x)
  BY <1>14, Ends DEF TaskRemove
<1>15. ASSUME NEW i \in Id, WatcherStep(i) PROVE UNCHANGED handler
  BY <1>15 DEF WatcherStep, WatchBegin, WatchCancel, WatchEnd, Remove
<1>16. CASE Disconnect \/ UNCHANGED vars BY <1>16 DEF Disconnect, vars
<1> QED BY <1>1, <1>2, <1>3, <1>4, <1>5, <1>6, <1>7, <1>8, <1>9, <1>10, <1>11,
           <1>12, <1>13, <1>14, <1>15, <1>16
        DEF Next, HandlerStep

-----------------------------------------------------------------------------
(* Ids and their watchers.                                                 *)

\* A new id, with what getOrNewId makes of it.
NewId(v) ==
  /\ v \in Version /\ Made(v) /\ ids[v] = None
  /\ nextId \in Id /\ nextId' = nextId + 1 /\ nextId' \in 0 .. MaxId
  /\ tasks[nextId] = None
  /\ ids' = [ids EXCEPT ![v] = nextId]
  /\ tasks' = [tasks EXCEPT ![nextId] = v]
  /\ watch' = [watch EXCEPT ![nextId] = [at |-> "ready", version |-> v, id |-> None]]

\* A watcher that goes on without removing its id.
WatcherGoes(i, w) ==
  /\ w \in Watchers /\ watch' = [watch EXCEPT ![i] = w]
  /\ watch[i].at \in {"ready", "started", "waiting"}
  /\ w.at \in {"started", "waiting", "removing"}
  /\ w.version = watch[i].version
  /\ w.at \in {"waiting", "removing"} => w.id = i

\* A watcher that ends, and its id with it.
IdRemoved(i) ==
  /\ watch[i].at = "removing" /\ ids[watch[i].version] = i
  /\ watch[i].version \in Version
  /\ nextId' = nextId
  /\ ids' = [ids EXCEPT ![watch[i].version] = None]
  /\ tasks' = [tasks EXCEPT ![i] = None]
  /\ watch' = [watch EXCEPT ![i].at = "done"]

LEMMA WatcherOf ==
  ASSUME IInv, NEW i \in Id, watch[i].at \in Watching
  PROVE  /\ watch[i] \in [at : {"ready", "started", "waiting", "removing", "done"},
                          version : Version, id : Id \cup {None}]
         /\ tasks[i] = watch[i].version /\ ids[watch[i].version] = i
<1>1. watch[i] \in [at : {"ready", "started", "waiting", "removing", "done"},
                    version : Version, id : Id \cup {None}]
  BY DEF IInv, TypeOK, Watchers, NoWatcher, Watching
<1>2. tasks[i] = watch[i].version BY DEF IInv, Registered, WatchersRegistered
<1>3. ids[watch[i].version] = i
  BY <1>1, <1>2 DEF IInv, Registered, IdsAgree
<1> QED BY <1>1, <1>2, <1>3

LEMMA WatcherGoesOn ==
  ASSUME IInv, NEW i \in Id, watch[i].at \in {"ready", "started", "waiting"},
         NEW at \in {"started", "removing"},
         at = "removing" => watch[i].at = "waiting",
         watch' = [watch EXCEPT ![i].at = at]
  PROVE  \E w : WatcherGoes(i, w)
<1> DEFINE w == [watch[i] EXCEPT !.at = at]
<1>1. /\ watch[i] \in [at : {"ready", "started", "waiting", "removing", "done"},
                       version : Version, id : Id \cup {None}]
  BY WatcherOf DEF Watching
<1>2. w \in Watchers /\ w.at = at /\ w.version = watch[i].version /\ w.id = watch[i].id
  BY <1>1 DEF Watchers
<1>3. watch' = [watch EXCEPT ![i] = w] OBVIOUS
<1> HIDE DEF w
<1>4. WatcherGoes(i, w)
  BY <1>2, <1>3 DEF WatcherGoes, IInv, Issued
<1> QED BY <1>4

LEMMA RegistrySteps ==
  ASSUME IInv, [Next]_vars
  PROVE  \/ UNCHANGED <<registry, watch>>
         \/ \E v : NewId(v)
         \/ UNCHANGED registry /\ \E i \in Id : \E w : WatcherGoes(i, w)
         \/ \E i \in Id : IdRemoved(i)
<1>1. ASSUME NEW h \in Handler, GetOrNewId(h)
      PROVE  UNCHANGED <<registry, watch>> \/ \E v : NewId(v)
  <2> DEFINE v == handler[h].version
  <2>1. v \in Version /\ Made(v) BY <1>1, AtWork DEF GetOrNewId
  <2>2. CASE ids[v] # None BY <1>1, <2>2 DEF GetOrNewId
  <2>3. CASE ids[v] = None
    <3>1. /\ nextId < MaxId /\ nextId' = nextId + 1
          /\ ids' = [ids EXCEPT ![v] = nextId]
          /\ tasks' = [tasks EXCEPT ![nextId] = v]
          /\ watch' = [watch EXCEPT ![nextId] =
                         [at |-> "ready", version |-> v, id |-> None]]
      BY <1>1, <2>3 DEF GetOrNewId
    <3>2. nextId \in Id /\ nextId' \in 0 .. MaxId BY <3>1, Ids DEF IInv, TypeOK
    <3>3. watch[nextId] = NoWatcher BY <3>2, Ids DEF IInv, Issued
    <3>4. tasks[nextId] = None
      BY <3>2, <3>3 DEF IInv, Registered, WatchersRegistered, NoWatcher, Watching
    <3>5. NewId(v) BY <2>1, <2>3, <3>1, <3>2, <3>4 DEF NewId
    <3> QED BY <3>5
  <2> QED BY <2>2, <2>3
<1>2. ASSUME NEW h \in Handler, Go(h)
      PROVE  \/ UNCHANGED <<registry, watch>>
             \/ UNCHANGED registry /\ \E i \in Id : \E w : WatcherGoes(i, w)
  <2>1. PICK i \in Id : i = handler[h].id BY <1>2 DEF Go, IInv, WatcherKnows
  <2>2. CASE watch[i].at = "ready"
    <3>1. watch' = [watch EXCEPT ![i].at = "started"]
      BY <1>2, <2>1, <2>2 DEF Go, Started
    <3> QED BY <1>2, <2>2, <3>1, WatcherGoesOn DEF Go
  <2>3. CASE watch[i].at # "ready"
    BY <1>2, <2>1, <2>3 DEF Go, Started
  <2> QED BY <2>2, <2>3
<1>3. ASSUME NEW i \in Id, WatchBegin(i) PROVE \E w : WatcherGoes(i, w)
  <2> DEFINE w == [watch[i] EXCEPT !.id = i, !.at = "waiting"]
  <2>1. /\ watch[i].at = "started"
        /\ watch[i] \in [at : {"ready", "started", "waiting", "removing", "done"},
                         version : Version, id : Id \cup {None}]
        /\ ids[watch[i].version] = i
    BY <1>3, WatcherOf DEF WatchBegin, Watching
  <2>2. watch' = [watch EXCEPT ![i] = w]
    <3>1. i # None BY Ids
    <3> QED BY <1>3, <2>1, <3>1 DEF WatchBegin
  <2>3. /\ w \in Watchers /\ w.at = "waiting"
        /\ w.version = watch[i].version /\ w.id = i
    BY <2>1 DEF Watchers
  <2> HIDE DEF w
  <2>4. WatcherGoes(i, w) BY <2>1, <2>2, <2>3 DEF WatcherGoes
  <2> QED BY <2>4
<1>4. ASSUME NEW i \in Id, WatchCancel(i) PROVE \E w : WatcherGoes(i, w)
  BY <1>4, WatcherGoesOn DEF WatchCancel
<1>5. ASSUME NEW i \in Id, WatchEnd(i) PROVE \E w : WatcherGoes(i, w)
  BY <1>5, WatcherGoesOn DEF WatchEnd
<1>6. ASSUME NEW i \in Id, Remove(i) PROVE IdRemoved(i)
  <2>1. watch[i].version \in Version /\ ids[watch[i].version] = i
    BY <1>6, WatcherOf DEF Remove, Watching
  <2>2. i # None BY Ids
  <2> QED BY <1>6, <2>1, <2>2 DEF Remove, IdRemoved
<1>7. ASSUME NEW i \in Id, WatchBegin(i) \/ WatchCancel(i) \/ WatchEnd(i)
      PROVE  UNCHANGED registry
  BY <1>7 DEF WatchBegin, WatchCancel, WatchEnd
<1>8. ASSUME NEW h \in Handler, HandlerStep(h), ~GetOrNewId(h), ~Go(h)
      PROVE  UNCHANGED <<registry, watch>>
  BY <1>8 DEF HandlerStep, StatusGet, SendInfo, StatusChanged, StatusEnd,
              CheckCanceled, TaskStatusSet, TaskRemove
<1>9. ASSUME NEW h, NEW t, QueueTaskNew(h, t) \/ TaskFound(h, t) \/ TaskStatusSubscribe(h, t)
      PROVE  UNCHANGED <<registry, watch>>
  BY <1>9 DEF QueueTaskNew, TaskFound, TaskStatusSubscribe
<1>10. ASSUME NEW h, NEW op, NEW i, GetTask(h, op, i) PROVE UNCHANGED <<registry, watch>>
  BY <1>10 DEF GetTask
<1>11. ASSUME NEW t, Elsewhere(t) PROVE UNCHANGED <<registry, watch>>
  BY <1>11 DEF Elsewhere
<1>12. CASE Disconnect \/ UNCHANGED vars BY <1>12 DEF Disconnect, vars
<1> QED BY <1>1, <1>2, <1>3, <1>4, <1>5, <1>6, <1>7, <1>8, <1>9, <1>10, <1>11, <1>12
        DEF Next, WatcherStep

\* What a watcher keeps of an id does not change.
LEMMA MeaningStays ==
  ASSUME IInv, [Next]_vars
  PROVE  /\ nextId' \in Nat /\ nextId <= nextId'
         /\ \A i \in Id : i < nextId => watch'[i].version = watch[i].version
<1>t. /\ nextId \in Nat /\ Id \subseteq Nat /\ watch \in [Id -> Watchers]
  BY Ids DEF IInv, TypeOK
<1>1. CASE UNCHANGED <<registry, watch>> BY <1>t, <1>1 DEF registry
<1>2. ASSUME NEW v, NewId(v)
      PROVE  /\ nextId' \in Nat /\ nextId <= nextId'
             /\ \A i \in Id : i < nextId => watch'[i].version = watch[i].version
  BY <1>t, <1>2 DEF NewId
<1>3. ASSUME UNCHANGED registry, NEW i \in Id, NEW w, WatcherGoes(i, w)
      PROVE  /\ nextId' \in Nat /\ nextId <= nextId'
             /\ \A j \in Id : j < nextId => watch'[j].version = watch[j].version
  BY <1>t, <1>3 DEF WatcherGoes, registry
<1>4. ASSUME NEW i \in Id, IdRemoved(i)
      PROVE  /\ nextId' \in Nat /\ nextId <= nextId'
             /\ \A j \in Id : j < nextId => watch'[j].version = watch[j].version
  <2>1. watch[i] \in [at : {"ready", "started", "waiting", "removing", "done"},
                      version : Version, id : Id \cup {None}]
    BY <1>4, WatcherOf DEF IdRemoved, Watching
  <2> QED BY <1>t, <1>4, <2>1 DEF IdRemoved
<1> QED BY <1>1, <1>2, <1>3, <1>4, RegistrySteps

LEMMA RegistryType ==
  ASSUME IInv, [Next]_vars
  PROVE  /\ nextId' \in 0 .. MaxId
         /\ ids' \in [Version -> Id \cup {None}]
         /\ tasks' \in [Id -> Version \cup {None}]
         /\ watch' \in [Id -> Watchers]
<1>t. /\ nextId \in 0 .. MaxId
      /\ ids \in [Version -> Id \cup {None}]
      /\ tasks \in [Id -> Version \cup {None}]
      /\ watch \in [Id -> Watchers]
  BY DEF IInv, TypeOK
<1>1. CASE UNCHANGED <<registry, watch>> BY <1>t, <1>1 DEF registry
<1>2. ASSUME NEW v, NewId(v)
      PROVE  /\ nextId' \in 0 .. MaxId
             /\ ids' \in [Version -> Id \cup {None}]
             /\ tasks' \in [Id -> Version \cup {None}]
             /\ watch' \in [Id -> Watchers]
  <2>1. [at |-> "ready", version |-> v, id |-> None] \in Watchers
    BY <1>2 DEF NewId, Watchers
  <2> QED BY <1>t, <1>2, <2>1 DEF NewId
<1>3. ASSUME UNCHANGED registry, NEW i \in Id, NEW w, WatcherGoes(i, w)
      PROVE  watch' \in [Id -> Watchers]
  BY <1>t, <1>3 DEF WatcherGoes
<1>4. ASSUME NEW i \in Id, IdRemoved(i)
      PROVE  /\ nextId' \in 0 .. MaxId
             /\ ids' \in [Version -> Id \cup {None}]
             /\ tasks' \in [Id -> Version \cup {None}]
             /\ watch' \in [Id -> Watchers]
  <2>1. watch[i] \in [at : {"ready", "started", "waiting", "removing", "done"},
                      version : Version, id : Id \cup {None}]
    BY <1>4, WatcherOf DEF IdRemoved, Watching
  <2>2. [watch[i] EXCEPT !.at = "done"] \in Watchers BY <2>1 DEF Watchers
  <2> QED BY <1>t, <1>4, <2>2 DEF IdRemoved
<1> QED BY <1>t, <1>1, <1>2, <1>3, <1>4, RegistrySteps DEF registry

LEMMA RegisteredStep == IInv /\ [Next]_vars => Registered'
<1> SUFFICES ASSUME IInv, [Next]_vars PROVE Registered'
  OBVIOUS
<1>t. /\ ids \in [Version -> Id \cup {None}]
      /\ tasks \in [Id -> Version \cup {None}]
      /\ watch \in [Id -> Watchers]
      /\ None \notin Id /\ None \notin Version
  BY Ids DEF IInv, TypeOK
<1>i. /\ \A v \in Version, i \in Id : ids[v] = i <=> tasks[i] = v
      /\ \A i \in Id : /\ watch[i].at \in Watching => tasks[i] = watch[i].version
                       /\ tasks[i] # None => watch[i].at \in Watching
  BY DEF IInv, Registered, IdsAgree, WatchersRegistered
<1> SUFFICES /\ \A v \in Version, i \in Id : ids'[v] = i <=> tasks'[i] = v
             /\ \A i \in Id : /\ watch'[i].at \in Watching => tasks'[i] = watch'[i].version
                              /\ tasks'[i] # None => watch'[i].at \in Watching
  BY DEF Registered, IdsAgree, WatchersRegistered, Watching
<1>1. CASE UNCHANGED <<registry, watch>> BY <1>i, <1>1 DEF registry
<1>2. ASSUME NEW u, NewId(u)
      PROVE  /\ \A v \in Version, i \in Id : ids'[v] = i <=> tasks'[i] = v
             /\ \A i \in Id : /\ watch'[i].at \in Watching => tasks'[i] = watch'[i].version
                              /\ tasks'[i] # None => watch'[i].at \in Watching
  <2>1. \A v \in Version, i \in Id : ids'[v] = i <=> tasks'[i] = v
    BY <1>t, <1>i, <1>2 DEF NewId
  <2>2. /\ watch'[nextId].at = "ready" /\ watch'[nextId].version = u
        /\ tasks'[nextId] = u
        /\ \A i \in Id \ {nextId} : watch'[i] = watch[i] /\ tasks'[i] = tasks[i]
    BY <1>t, <1>2 DEF NewId
  <2> QED BY <1>t, <1>i, <2>1, <2>2 DEF Watching
<1>3. ASSUME UNCHANGED registry, NEW j \in Id, NEW w, WatcherGoes(j, w)
      PROVE  \A i \in Id : /\ watch'[i].at \in Watching => tasks'[i] = watch'[i].version
                           /\ tasks'[i] # None => watch'[i].at \in Watching
  <2>1. /\ watch'[j] = w /\ w.at \in Watching /\ w.version = watch[j].version
        /\ watch[j].at \in Watching /\ tasks' = tasks
        /\ \A i \in Id \ {j} : watch'[i] = watch[i]
    BY <1>t, <1>3 DEF WatcherGoes, Watching, registry
  <2> QED BY <1>i, <2>1
<1>4. ASSUME NEW j \in Id, IdRemoved(j)
      PROVE  /\ \A v \in Version, i \in Id : ids'[v] = i <=> tasks'[i] = v
             /\ \A i \in Id : /\ watch'[i].at \in Watching => tasks'[i] = watch'[i].version
                              /\ tasks'[i] # None => watch'[i].at \in Watching
  <2>1. PICK u \in Version : u = watch[j].version BY <1>4 DEF IdRemoved
  <2>2. /\ ids[u] = j /\ tasks[j] = u
        /\ ids' = [ids EXCEPT ![u] = None]
        /\ tasks' = [tasks EXCEPT ![j] = None]
    BY <1>i, <1>4, <2>1 DEF IdRemoved
  <2>3. \A v \in Version, i \in Id : ids'[v] = i <=> tasks'[i] = v
    BY <1>t, <1>i, <2>2
  <2>4. /\ watch'[j].at = "done"
        /\ \A i \in Id \ {j} : watch'[i] = watch[i] /\ tasks'[i] = tasks[i]
    <3>1. watch[j] \in [at : {"ready", "started", "waiting", "removing", "done"},
                        version : Version, id : Id \cup {None}]
      BY <1>4, WatcherOf DEF IdRemoved, Watching
    <3> QED BY <1>t, <1>4, <2>2, <3>1 DEF IdRemoved
  <2>5. tasks'[j] = None BY <1>t, <2>2
  <2> QED BY <1>i, <2>3, <2>4, <2>5 DEF Watching
<1> QED BY <1>i, <1>1, <1>2, <1>3, <1>4, RegistrySteps DEF registry

LEMMA IssuedStep == IInv /\ [Next]_vars => Issued'
<1> SUFFICES ASSUME IInv, [Next]_vars PROVE Issued'
  OBVIOUS
<1>t. /\ nextId \in Nat /\ Id \subseteq Nat /\ watch \in [Id -> Watchers]
      /\ \A i \in Id : i >= nextId => watch[i] = NoWatcher
      /\ \A i \in Id : watch[i].at \in {"waiting", "removing"} => watch[i].id = i
  BY Ids DEF IInv, TypeOK, Issued
<1>1. CASE UNCHANGED <<registry, watch>> BY <1>t, <1>1 DEF registry, Issued
<1>2. ASSUME NEW v, NewId(v) PROVE Issued'
  BY <1>t, <1>2 DEF NewId, Issued
<1>3. ASSUME UNCHANGED registry, NEW i \in Id, NEW w, WatcherGoes(i, w) PROVE Issued'
  <2>1. i < nextId BY <1>t, <1>3 DEF WatcherGoes, NoWatcher
  <2> QED BY <1>t, <1>3, <2>1 DEF WatcherGoes, registry, Issued
<1>4. ASSUME NEW i \in Id, IdRemoved(i) PROVE Issued'
  <2>1. i < nextId BY <1>t, <1>4 DEF IdRemoved, NoWatcher
  <2>2. watch[i] \in [at : {"ready", "started", "waiting", "removing", "done"},
                      version : Version, id : Id \cup {None}]
    BY <1>4, WatcherOf DEF IdRemoved, Watching
  <2>3. watch'[i].at = "done" /\ \A j \in Id \ {i} : watch'[j] = watch[j]
    BY <1>t, <1>4, <2>2 DEF IdRemoved
  <2> QED BY <1>t, <1>4, <2>1, <2>3 DEF IdRemoved, Issued
<1> QED BY <1>1, <1>2, <1>3, <1>4, RegistrySteps

-----------------------------------------------------------------------------
(* Versions made, and what is known of them.                               *)

LEMMA MadeStep == IInv /\ [Next]_vars => MadeFirst'
<1> SUFFICES ASSUME IInv, [Next]_vars PROVE MadeFirst'
  OBVIOUS
<1>1. \A t \in Task : current'[t] # None => taskOf'[current'[t]] = t
  BY StorageType
<1>m. \A v \in Version : Made(v) => taskOf'[v] # None
  BY VersionStays DEF Made
<1>2. ASSUME NEW i \in Id, tasks'[i] # None PROVE taskOf'[tasks'[i]] # None
  <2>t. /\ tasks \in [Id -> Version \cup {None}]
        /\ tasks[i] # None => Made(tasks[i])
    BY DEF IInv, TypeOK, MadeFirst
  <2>1. \/ tasks'[i] = tasks[i] \/ tasks'[i] = None
        \/ tasks'[i] \in Version /\ Made(tasks'[i])
    BY <2>t, RegistrySteps DEF registry, NewId, IdRemoved
  <2> QED BY <1>2, <1>m, <2>t, <2>1
<1>3. ASSUME NEW h \in Handler, handler'[h].at \notin {"idle", "follow"}
      PROVE  handler'[h].version \in Version /\ taskOf'[handler'[h].version] # None
  <2>1. CASE handler'[h] = handler[h]
    BY <1>3, <1>m, <2>1 DEF IInv, MadeFirst
  <2>2. ASSUME NEW x, HandlerGoes(h, x) PROVE handler'[h] = x
    BY <2>2 DEF HandlerGoes, IInv, TypeOK
  <2>3. ASSUME NEW g \in Handler, NEW x, HandlerGoes(g, x), g # h
        PROVE  handler'[h] = handler[h]
    BY <2>3 DEF HandlerGoes, IInv, TypeOK
  <2> QED BY <1>3, <2>1, <2>2, <2>3, HandlerSteps DEF HandlerGoes
<1> QED BY <1>1, <1>2, <1>3 DEF MadeFirst, Made

\* What is told to the client: the info of a handler, the cancel of a watcher.
LEMMA ToldSteps ==
  ASSUME IInv, [Next]_vars
  PROVE  /\ up' \in BOOLEAN
         /\ \/ told' = told
            \/ \E h \in Handler :
                 /\ handler[h].at = "send"
                 /\ told' = told \cup {<<handler[h].id, handler[h].version>>}
         /\ \/ cancelSent' = cancelSent
            \/ \E i \in Id : /\ watch[i].id = i /\ i < nextId
                             /\ Canceled(watch[i].version)
                             /\ watch[i].version \in Version
                             /\ WatchCancel(i)
                             /\ cancelSent' = cancelSent \cup {i}
<1> USE DEF IInv, TypeOK
<1>1. ASSUME NEW i \in Id, WatchCancel(i)
      PROVE  \/ cancelSent' = cancelSent
             \/ /\ watch[i].id = i /\ i < nextId
                /\ Canceled(watch[i].version)
                /\ watch[i].version \in Version
                /\ WatchCancel(i)
                /\ cancelSent' = cancelSent \cup {i}
  <2>1. watch[i].id = i BY <1>1 DEF WatchCancel, Issued
  <2>2. i < nextId BY <1>1, Ids DEF WatchCancel, Issued, NoWatcher
  <2>3. watch[i].version \in Version BY <1>1, WatcherOf DEF WatchCancel, Watching
  <2> QED BY <1>1, <2>1, <2>2, <2>3 DEF WatchCancel
<1>2. ASSUME NEW i \in Id, WatcherStep(i)
      PROVE  told' = told /\ up' = up /\ (WatchCancel(i) \/ cancelSent' = cancelSent)
  BY <1>2 DEF WatcherStep, WatchBegin, WatchCancel, WatchEnd, Remove
<1>3. ASSUME NEW h \in Handler, SendInfo(h)
      PROVE  /\ up' = up /\ cancelSent' = cancelSent
             /\ \/ told' = told
                \/ /\ handler[h].at = "send"
                   /\ told' = told \cup {<<handler[h].id, handler[h].version>>}
  BY <1>3 DEF SendInfo
<1>4. ASSUME NEW h \in Handler, HandlerStep(h), ~SendInfo(h)
      PROVE  UNCHANGED <<up, told, cancelSent>>
  BY <1>4 DEF HandlerStep, StatusGet, GetOrNewId, Go, StatusChanged, StatusEnd,
              CheckCanceled, TaskStatusSet, TaskRemove
<1>5. ASSUME NEW h, NEW t, QueueTaskNew(h, t) \/ TaskFound(h, t) \/ TaskStatusSubscribe(h, t)
      PROVE  UNCHANGED <<up, told, cancelSent>>
  BY <1>5 DEF QueueTaskNew, TaskFound, TaskStatusSubscribe
<1>6. ASSUME NEW h, NEW op, NEW i, GetTask(h, op, i) PROVE UNCHANGED <<up, told, cancelSent>>
  BY <1>6 DEF GetTask
<1>7. ASSUME NEW t, Elsewhere(t) PROVE UNCHANGED <<up, told, cancelSent>>
  BY <1>7 DEF Elsewhere
<1>8. CASE Disconnect \/ UNCHANGED vars BY <1>8 DEF Disconnect, vars
<1> QED BY <1>1, <1>2, <1>3, <1>4, <1>5, <1>6, <1>7, <1>8 DEF Next

LEMMA KnowsStep == IInv /\ [Next]_vars => WatcherKnows'
<1> SUFFICES ASSUME IInv, [Next]_vars PROVE WatcherKnows'
  OBVIOUS
<1>t. /\ nextId \in Nat /\ Id \subseteq Nat /\ nextId' \in Nat /\ nextId <= nextId'
      /\ \A i \in Id : i < nextId => watch'[i].version = watch[i].version
  BY Ids, MeaningStays DEF IInv, TypeOK
<1>1. ASSUME NEW h \in Handler, handler'[h].at \in {"send", "go"}
      PROVE  LET i == handler'[h].id
             IN  i \in Id /\ i < nextId' /\ watch'[i].version = handler'[h].version
  <2>1. ASSUME handler[h].at \in {"send", "go"},
               handler'[h].id = handler[h].id, handler'[h].version = handler[h].version
        PROVE  LET i == handler'[h].id
               IN  i \in Id /\ i < nextId' /\ watch'[i].version = handler'[h].version
    <3>1. PICK i \in Id : /\ i = handler[h].id /\ i < nextId
                          /\ watch[i].version = handler[h].version
      BY <2>1 DEF IInv, WatcherKnows
    <3>2. i < nextId' BY <1>t, <3>1
    <3>3. watch'[i].version = handler'[h].version BY <1>t, <2>1, <3>1
    <3> QED BY <2>1, <3>1, <3>2, <3>3
  <2>2. CASE GetOrNewId(h)
    <3> DEFINE v == handler[h].version
    <3>w. /\ v \in Version
          /\ handler[h] \in [at : {"found", "send", "go", "await", "follow", "looked", "act"},
                             op : {"info", "status", "set", "remove"},
                             task : Task, version : Version \cup {None}, id : Id \cup {None}]
      BY <2>2, AtWork DEF GetOrNewId
    <3>1. CASE ids[v] # None
      <4>1. PICK i \in Id : i = ids[v] BY <3>w, <3>1 DEF IInv, TypeOK
      <4>2. tasks[i] = v /\ watch[i].at \in Watching
        BY <3>w, <4>1, Ids DEF IInv, Registered, IdsAgree, WatchersRegistered
      <4>3. watch[i].version = v BY <4>2, WatcherOf
      <4>4. i < nextId BY <1>t, <4>2 DEF IInv, Issued, NoWatcher, Watching
      <4>5. handler'[h].id = i /\ handler'[h].version = v
        <5>1. handler' = [handler EXCEPT ![h] = [handler[h] EXCEPT !.at = "send", !.id = i]]
          BY <2>2, <3>1, <4>1 DEF GetOrNewId
        <5> QED BY <3>w, <5>1 DEF IInv, TypeOK
      <4> QED BY <1>t, <4>3, <4>4, <4>5
    <3>2. CASE ids[v] = None
      <4>1. /\ nextId < MaxId /\ nextId' = nextId + 1
            /\ watch' = [watch EXCEPT ![nextId] =
                           [at |-> "ready", version |-> v, id |-> None]]
            /\ handler' = [handler EXCEPT ![h] =
                             [handler[h] EXCEPT !.at = "send", !.id = nextId]]
        BY <2>2, <3>2 DEF GetOrNewId
      <4>2. nextId \in Id BY <4>1, Ids DEF IInv, TypeOK
      <4>3. handler'[h].id = nextId /\ handler'[h].version = v
        BY <3>w, <4>1 DEF IInv, TypeOK
      <4>4. watch'[nextId].version = v BY <4>1, <4>2 DEF IInv, TypeOK
      <4> QED BY <1>t, <4>1, <4>2, <4>3, <4>4
    <3> QED BY <3>1, <3>2
  <2>3. CASE handler'[h] = handler[h] BY <1>1, <2>1, <2>3
  <2>4. ASSUME NEW x, HandlerGoes(h, x) PROVE handler'[h] = x
    BY <2>4 DEF HandlerGoes, IInv, TypeOK
  <2>5. ASSUME NEW g \in Handler, NEW x, HandlerGoes(g, x), g # h
        PROVE  handler'[h] = handler[h]
    BY <2>5 DEF HandlerGoes, IInv, TypeOK
  <2>6. ASSUME NEW x, HandlerGoes(h, x)
        PROVE  \/ GetOrNewId(h)
               \/ /\ handler[h].at = "send"
                  /\ x.id = handler[h].id /\ x.version = handler[h].version
    BY <1>1, <2>4, <2>6 DEF HandlerGoes
  <2> HIDE DEF HandlerGoes
  <2> QED BY <2>1, <2>2, <2>3, <2>4, <2>5, <2>6, HandlerSteps
<1>2. ASSUME NEW p \in told' PROVE p[1] < nextId' /\ watch'[p[1]].version = p[2]
  <2>1. CASE p \in told
    <3>1. PICK i \in Id : i = p[1] /\ i < nextId /\ watch[i].version = p[2]
      BY <2>1 DEF IInv, TypeOK, WatcherKnows
    <3>2. i < nextId' BY <1>t, <3>1
    <3> QED BY <1>t, <3>1, <3>2
  <2>2. ASSUME NEW h \in Handler, handler[h].at = "send",
               p = <<handler[h].id, handler[h].version>>
        PROVE  p[1] < nextId' /\ watch'[p[1]].version = p[2]
    <3>1. PICK i \in Id : /\ i = handler[h].id /\ i < nextId
                          /\ watch[i].version = handler[h].version
      BY <2>2 DEF IInv, WatcherKnows
    <3>2. i < nextId' BY <1>t, <3>1
    <3>3. p[1] = i /\ p[2] = watch[i].version BY <2>2, <3>1
    <3> QED BY <1>t, <3>1, <3>2, <3>3
  <2> QED BY <2>1, <2>2, ToldSteps
<1>3. ASSUME NEW i \in cancelSent'
      PROVE  /\ i < nextId' /\ watch'[i].version \in Version
             /\ Canceled(watch[i].version)'
  <2>1. /\ i \in Id /\ i < nextId /\ Canceled(watch[i].version)
        /\ watch[i].version \in Version
    <3>1. CASE i \in cancelSent BY <3>1 DEF IInv, TypeOK, WatcherKnows
    <3>2. CASE i \notin cancelSent BY <3>2, ToldSteps
    <3> QED BY <3>1, <3>2
  <2>2. PICK v \in Version : v = watch[i].version BY <2>1
  <2>3. Canceled(v)' BY <2>1, <2>2, VersionStays
  <2>4. watch'[i].version = v BY <1>t, <2>1, <2>2
  <2>5. Canceled(watch[i].version)' BY <2>3, <2>4 DEF Canceled, Made
  <2>6. i < nextId'
    <3>1. PICK j \in Nat : j = i /\ j < nextId BY <1>t, <2>1
    <3>2. j < nextId' BY <1>t, <3>1
    <3> QED BY <3>1, <3>2
  <2> QED BY <2>4, <2>5, <2>6
<1> QED BY <1>1, <1>2, <1>3 DEF WatcherKnows

LEMMA OnceStep == IInv /\ [Next]_vars => CancelOnce'
<1> SUFFICES ASSUME IInv, [Next]_vars PROVE CancelOnce'
  OBVIOUS
<1>t. /\ nextId \in Nat /\ Id \subseteq Nat /\ watch \in [Id -> Watchers]
      /\ taskOf \in [Version -> Task \cup {None}]
      /\ \A i \in cancelSent : i < nextId
  BY Ids DEF IInv, TypeOK, WatcherKnows
<1>1. ASSUME NEW i \in Id, i < nextId'
      PROVE  watch'[i].version \in Version /\ Made(watch[i].version)'
  <2>1. CASE i < nextId
    <3>1. PICK v \in Version : v = watch[i].version /\ Made(v)
      BY <2>1 DEF IInv, CancelOnce
    <3>2. watch'[i].version = v BY <2>1, <3>1, MeaningStays
    <3>3. Made(v)' BY <3>1, VersionStays
    <3> QED BY <3>2, <3>3 DEF Made
  <2>2. CASE ~(i < nextId)
    <3>1. PICK v : NewId(v)
      BY <1>t, <1>1, <2>2, RegistrySteps DEF registry, IdRemoved
    <3>2. i = nextId BY <1>t, <1>1, <2>2, <3>1 DEF NewId
    <3>3. watch'[i].version = v BY <1>t, <3>1, <3>2 DEF NewId
    <3>4. v \in Version /\ Made(v)' BY <3>1, VersionStays DEF NewId
    <3> QED BY <3>3, <3>4 DEF Made
  <2> QED BY <2>1, <2>2
<1>2. ASSUME NEW i \in Id, watch'[i].at \in {"ready", "started", "waiting"}
      PROVE  i \notin cancelSent'
  <2>1. i \notin cancelSent
    <3>1. CASE watch[i].at \in {"ready", "started", "waiting"}
      BY <3>1 DEF IInv, CancelOnce
    <3>2. CASE watch'[i] = watch[i] BY <1>2, <3>1, <3>2
    <3>3. ASSUME NEW v, NewId(v), watch'[i] # watch[i] PROVE i \notin cancelSent
      <4>1. i = nextId BY <1>t, <3>3 DEF NewId
      <4> QED BY <1>t, <4>1
    <3>4. ASSUME NEW j \in Id, NEW w, WatcherGoes(j, w), watch'[i] # watch[i]
          PROVE  i \notin cancelSent
      <4>1. i = j BY <1>t, <3>4 DEF WatcherGoes
      <4> QED BY <3>1, <3>4, <4>1 DEF WatcherGoes
    <3>5. ASSUME NEW j \in Id, IdRemoved(j), watch'[i] # watch[i]
          PROVE  i \notin cancelSent
      <4>1. i = j BY <1>t, <3>5 DEF IdRemoved
      <4>2. watch'[i] = [watch[i] EXCEPT !.at = "done"]
        BY <1>t, <3>5, <4>1 DEF IdRemoved
      <4>3. watch[i] \in [at : {"ready", "started", "waiting", "removing", "done"},
                          version : Version, id : Id \cup {None}]
        BY <3>5, <4>1, WatcherOf DEF IdRemoved, Watching
      <4> QED BY <1>2, <4>2, <4>3
    <3> QED BY <3>2, <3>3, <3>4, <3>5, RegistrySteps
  <2>2. ASSUME NEW j \in Id, WatchCancel(j) PROVE watch'[j].at = "removing"
    <3>1. watch[j] \in [at : {"ready", "started", "waiting", "removing", "done"},
                        version : Version, id : Id \cup {None}]
      BY <2>2, WatcherOf DEF WatchCancel, Watching
    <3> QED BY <1>t, <2>2, <3>1 DEF WatchCancel
  <2> QED BY <1>2, <2>1, <2>2, ToldSteps
<1> QED BY <1>1, <1>2 DEF CancelOnce

LEMMA TypeStep == IInv /\ [Next]_vars => TypeOK'
<1> SUFFICES ASSUME IInv, [Next]_vars PROVE TypeOK'
  OBVIOUS
<1>1. told' \subseteq Id \X Version
  <2>1. ASSUME NEW h \in Handler, handler[h].at = "send"
        PROVE  <<handler[h].id, handler[h].version>> \in Id \X Version
    BY <2>1 DEF IInv, WatcherKnows, MadeFirst
  <2> QED BY <2>1, ToldSteps DEF IInv, TypeOK
<1>2. cancelSent' \subseteq Id /\ up' \in BOOLEAN
  BY ToldSteps DEF IInv, TypeOK
<1>3. handler' \in [Handler -> Handlers]
  BY HandlerSteps DEF HandlerGoes, IInv, TypeOK
<1> QED BY <1>1, <1>2, <1>3, StorageType, RegistryType DEF TypeOK

-----------------------------------------------------------------------------
(* What the client sees: an action of the service is one of StateIds, or   *)
(* nothing.                                                                *)

\* An id goes on to name the same task, and is canceled once it is.
LEMMA IdStays ==
  ASSUME IInv, [Next]_vars, NEW i \in Id, i < nextId
  PROVE  /\ i < nextId'
         /\ taskOf'[watch'[i].version] = taskOf[watch[i].version]
         /\ taskOf[watch[i].version] \in Task
         /\ Canceled(watch[i].version) => Canceled(watch[i].version)'
<1>1. PICK v \in Version : v = watch[i].version /\ Made(v)
  BY DEF IInv, CancelOnce
<1>2. watch'[i].version = v BY <1>1, MeaningStays
<1>3. taskOf'[v] = taskOf[v] /\ (Canceled(v) => Canceled(v)')
  BY <1>1, VersionStays
<1>4. Canceled(watch[i].version) => Canceled(watch[i].version)'
  BY <1>1, <1>2, <1>3 DEF Canceled, Made
<1>5. nextId \in Nat /\ i \in Nat /\ nextId' \in Nat /\ nextId <= nextId'
  BY Ids, MeaningStays DEF IInv, TypeOK
<1>6. i < nextId'
  <2>1. PICK n \in Nat, m \in Nat : n = nextId /\ m = nextId' BY <1>5
  <2> QED BY <1>5, <2>1
<1>7. taskOf[v] \in Task BY <1>1 DEF IInv, TypeOK, Made
<1> QED BY <1>1, <1>2, <1>3, <1>4, <1>6, <1>7

\* The ids handed out, as StateIds has them.
LEMMA NamedIds ==
  ASSUME IInv
  PROVE  /\ Named \subseteq Id
         /\ \A i \in Id : i \in Named <=> i < nextId
         /\ Contract!Id = Id /\ Contract!Used = Named
         /\ nextId \in Nat /\ nextId <= MaxId
<1>1. nextId \in 0 .. MaxId /\ nextId \in Nat /\ Id \subseteq Nat
  BY Ids DEF IInv, TypeOK
<1>2. Named \subseteq Id BY <1>1, MaxIdAssumption DEF Named, Id
<1>3. \A i \in Id : i \in Named <=> i < nextId
  BY <1>1, MaxIdAssumption DEF Named, Id
<1>4. Contract!Id = Id BY DEF Contract!Id, Id
<1>5. \A i \in Id : i \in Named => taskOf[watch[i].version] # None
  BY <1>3 DEF IInv, CancelOnce, Made
<1>6. Contract!Used = Named
  BY <1>2, <1>4, <1>5 DEF Contract!Used
<1> QED BY <1>1, <1>2, <1>3, <1>4, <1>6

\* The variables of StateIds, by what becomes of their members.
LEMMA ToldStays ==
  ASSUME IInv, [Next]_vars, NEW p \in told
  PROVE  taskOf'[p[2]] = taskOf[p[2]]
<1>1. PICK i \in Id : i = p[1] /\ i < nextId /\ watch[i].version = p[2]
  BY DEF IInv, TypeOK, WatcherKnows
<1>2. p[2] \in Version /\ Made(p[2]) BY <1>1 DEF IInv, CancelOnce
<1> QED BY <1>2, VersionStays

LEMMA ToldFixed ==
  ASSUME IInv, [Next]_vars, told' = told
  PROVE  {<<p[1], taskOf'[p[2]]>> : p \in told'} =
         {<<p[1], taskOf[p[2]]>> : p \in told}
BY ToldStays

LEMMA NamesFixed ==
  ASSUME IInv, [Next]_vars, nextId' = nextId
  PROVE  [i \in Id |-> IF i \in Named' THEN taskOf'[watch'[i].version] ELSE None] =
         [i \in Id |-> IF i \in Named THEN taskOf[watch[i].version] ELSE None]
<1>1. \A i \in Named : i \in Id /\ i < nextId BY NamedIds
<1>2. Named' = Named BY DEF Named
<1> QED BY <1>1, <1>2, IdStays

LEMMA ChangedFixed ==
  ASSUME IInv, [Next]_vars, nextId' = nextId, UNCHANGED storage
  PROVE  {i \in Named' : Canceled(watch[i].version)'} =
         {i \in Named : Canceled(watch[i].version)}
<1>1. \A i \in Named : i \in Id /\ i < nextId BY NamedIds
<1>2. Named' = Named BY DEF Named
<1>3. \A i \in Named : watch'[i].version = watch[i].version BY <1>1, MeaningStays
<1> QED BY <1>2, <1>3 DEF Canceled, Made, storage

LEMMA NameStep ==
  ASSUME IInv, [Next]_vars, NEW v, NewId(v),
         UNCHANGED <<storage, up, told, cancelSent>>
  PROVE  Contract!Next
<1>t. nextId \in Id /\ nextId \in Nat /\ watch \in [Id -> Watchers]
  BY Ids DEF NewId, IInv, TypeOK
<1>1. PICK n \in Contract!Id, t \in Task, late \in BOOLEAN :
        n = nextId /\ t = taskOf[v] /\ late = Canceled(v)
  BY <1>t, NamedIds DEF NewId, IInv, TypeOK, Made, Canceled
<1>2. Named' = Named \cup {nextId} /\ nextId \notin Named
  BY <1>t DEF NewId, Named
<1>3. watch'[nextId].version = v BY <1>t DEF NewId
<1>4. \A i \in Named : i \in Id /\ watch'[i].version = watch[i].version
  BY <1>2, <1>t, NamedIds DEF NewId
<1>5. [i \in Id |-> IF i \in Named' THEN taskOf'[watch'[i].version] ELSE None] =
      [[i \in Id |-> IF i \in Named THEN taskOf[watch[i].version] ELSE None]
         EXCEPT ![n] = t]
  BY <1>t, <1>1, <1>2, <1>3, <1>4 DEF storage
<1>6. {i \in Named' : Canceled(watch[i].version)'} =
      IF late THEN {i \in Named : Canceled(watch[i].version)} \cup {n}
              ELSE {i \in Named : Canceled(watch[i].version)}
  BY <1>1, <1>2, <1>3, <1>4 DEF Canceled, Made, storage
<1>7. Contract!Used = 0 .. n - 1 BY <1>1, NamedIds DEF Named
<1>8. UNCHANGED <<up, cancelSent, {<<p[1], taskOf[p[2]]>> : p \in told}>>
  BY ToldFixed
<1>9. Contract!Name(n, t, late)
  BY <1>5, <1>6, <1>7, <1>8 DEF Contract!Name
<1> QED BY <1>9 DEF Contract!Next

\* getOrNewId gives a name, an info or a cancel is sent, and whatever makes
\* a version another's predecessor changes the ids that name it, all at once.
LEMMA ContractStep == IInv /\ [Next]_vars => [Contract!Next]_(Contract!vars)
<1> SUFFICES ASSUME IInv, [Next]_vars
             PROVE  Contract!Next \/ UNCHANGED Contract!vars
  OBVIOUS
<1> DEFINE Goal == Contract!Next \/ UNCHANGED Contract!vars
<1>s. ASSUME nextId' = nextId, UNCHANGED <<storage, up, told, cancelSent>>
      PROVE  Goal
  BY <1>s, NamesFixed, ChangedFixed, ToldFixed DEF Contract!vars
<1>c. ASSUME UNCHANGED <<registry, watch, up, told, cancelSent>> PROVE Goal
  <2> DEFINE I == {i \in Named' : Canceled(watch[i].version)'}
  <2>1. nextId' = nextId BY <1>c DEF registry
  <2>2. Named' = Named BY <2>1 DEF Named
  <2>3. {i \in Named : Canceled(watch[i].version)} \subseteq I
    BY <2>2, NamedIds, IdStays
  <2>4. I = {i \in Named : Canceled(watch[i].version)} \cup I BY <2>3
  <2>5. I \subseteq Contract!Used /\ I \in SUBSET Contract!Id BY <2>2, NamedIds
  <2>6. Contract!Change(I)
    BY <1>c, <2>1, <2>4, <2>5, NamesFixed, ToldFixed DEF Contract!Change
  <2> QED BY <2>5, <2>6 DEF Contract!Next
<1>1. ASSUME NEW t \in Task, Elsewhere(t) PROVE Goal
  BY <1>1, <1>c DEF Elsewhere
<1>2. CASE Disconnect
  <2>1. UNCHANGED <<storage, registry, told, cancelSent>> BY <1>2 DEF Disconnect
  <2>2. Contract!Disconnect
    BY <1>2, <2>1, NamesFixed, ChangedFixed, ToldFixed
    DEF Disconnect, Contract!Disconnect, registry
  <2> QED BY <2>2 DEF Contract!Next
<1>3. ASSUME NEW h \in Handler, NEW t \in Task,
             QueueTaskNew(h, t) \/ TaskFound(h, t) \/ TaskStatusSubscribe(h, t)
      PROVE  Goal
  BY <1>3, <1>c DEF QueueTaskNew, TaskFound, TaskStatusSubscribe
<1>4. ASSUME NEW h, NEW op, NEW i, GetTask(h, op, i) PROVE Goal
  BY <1>4, <1>c DEF GetTask
<1>5. ASSUME NEW h \in Handler, GetOrNewId(h) PROVE Goal
  <2>1. UNCHANGED <<storage, up, told, cancelSent>> BY <1>5 DEF GetOrNewId
  <2>2. CASE UNCHANGED registry BY <1>s, <2>1, <2>2 DEF registry
  <2>3. ASSUME NEW v, NewId(v) PROVE Goal BY <2>1, <2>3, NameStep
  <2>4. UNCHANGED registry \/ nextId' = nextId + 1 BY <1>5 DEF GetOrNewId
  <2>5. ASSUME NEW i \in Id, IdRemoved(i) PROVE UNCHANGED registry
    BY <2>4, <2>5, NamedIds DEF IdRemoved
  <2> QED BY <2>2, <2>3, <2>5, RegistrySteps DEF registry
<1>6. ASSUME NEW h \in Handler, SendInfo(h) PROVE Goal
  <2>1. nextId' = nextId /\ UNCHANGED <<storage, up, cancelSent>>
    BY <1>6 DEF SendInfo, registry
  <2>2. CASE ~up BY <1>6, <1>s, <2>1, <2>2 DEF SendInfo
  <2>3. CASE up
    <3>1. PICK i \in Id : /\ i = handler[h].id /\ i < nextId
                          /\ watch[i].version = handler[h].version
      BY <1>6 DEF SendInfo, IInv, WatcherKnows
    <3>2. told' = told \cup {<<i, watch[i].version>>} BY <1>6, <2>3, <3>1 DEF SendInfo
    <3>3. i \in Contract!Used /\ i \in Named /\ i \in Contract!Id
      BY <3>1, NamedIds
    <3>4. {<<p[1], taskOf'[p[2]]>> : p \in told'} =
          {<<p[1], taskOf[p[2]]>> : p \in told} \cup {<<i, taskOf[watch[i].version]>>}
      <4>1. PICK T, f, v : T = told /\ f = taskOf /\ v = watch[i].version
        OBVIOUS
      <4>2. told' = T \cup {<<i, v>>} /\ taskOf' = f
        BY <2>1, <3>2, <4>1 DEF storage
      <4> DEFINE G(p) == <<p[1], f[p[2]]>>
      <4>3. G(<<i, v>>) = <<i, f[v]>> OBVIOUS
      <4> HIDE DEF G
      <4>4. {G(p) : p \in T \cup {<<i, v>>}} = {G(p) : p \in T} \cup {G(<<i, v>>)}
        OBVIOUS
      <4> QED BY <4>1, <4>2, <4>3, <4>4 DEF G
    <3>5. Contract!Info(i)
      BY <2>1, <2>3, <3>1, <3>3, <3>4, NamesFixed, ChangedFixed DEF Contract!Info
    <3> QED BY <3>3, <3>5 DEF Contract!Next
  <2> QED BY <2>2, <2>3
<1>7. ASSUME NEW h \in Handler, Go(h) \/ StatusGet(h) \/ StatusChanged(h)
                               \/ StatusEnd(h) \/ CheckCanceled(h)
      PROVE  Goal
  BY <1>7, <1>s DEF Go, StatusGet, StatusChanged, StatusEnd, CheckCanceled, registry
<1>8. ASSUME NEW h \in Handler, TaskStatusSet(h) \/ TaskRemove(h) PROVE Goal
  BY <1>8, <1>c DEF TaskStatusSet, TaskRemove
<1>9. ASSUME NEW i \in Id, WatchBegin(i) \/ WatchEnd(i) \/ Remove(i) PROVE Goal
  BY <1>9, <1>s DEF WatchBegin, WatchEnd, Remove, registry
<1>10. ASSUME NEW i \in Id, WatchCancel(i) PROVE Goal
  <2>1. nextId' = nextId /\ UNCHANGED <<storage, up, told>>
    BY <1>10 DEF WatchCancel, registry
  <2>2. CASE ~up BY <1>10, <1>s, <2>1, <2>2 DEF WatchCancel
  <2>3. CASE up
    <3>1. watch[i].id = i /\ i < nextId
      <4>1. watch[i].id = i /\ watch[i] # NoWatcher
        BY <1>10 DEF WatchCancel, IInv, Issued, NoWatcher
      <4>2. i \in Nat /\ nextId \in Nat BY Ids, NamedIds
      <4> QED BY <4>1, <4>2 DEF IInv, Issued
    <3>2. i \in Named /\ i \in Contract!Id BY <3>1, NamedIds
    <3>3. i \notin cancelSent BY <1>10 DEF WatchCancel, IInv, CancelOnce
    <3>4. cancelSent' = cancelSent \cup {i} BY <1>10, <2>3, <3>1 DEF WatchCancel
    <3>5. Contract!SendCancel(i)
      BY <1>10, <2>1, <2>3, <3>2, <3>3, <3>4, NamesFixed, ChangedFixed, ToldFixed
      DEF WatchCancel, Contract!SendCancel
    <3> QED BY <3>2, <3>5 DEF Contract!Next
  <2> QED BY <2>2, <2>3
<1>11. CASE UNCHANGED vars BY <1>11, <1>s DEF vars, registry
<1> QED BY <1>1, <1>2, <1>3, <1>4, <1>5, <1>6, <1>7, <1>8, <1>9, <1>10, <1>11
  DEF Next, HandlerStep, WatcherStep

-----------------------------------------------------------------------------
(* The theorems.                                                           *)

\* The parts need each other: an id is what it was made for because its watcher
\* never changes, and the watcher finds the id because the registry is whole.
THEOREM Invariance == Spec => []IInv
<1>1. IInv /\ [Next]_vars => IInv'
  BY TypeStep, MadeStep, RegisteredStep, IssuedStep, KnowsStep, OnceStep
  DEF IInv
<1> QED BY InitIInv, <1>1, PTL DEF Spec

\* For any number of handlers that register, tell and remove versions at once:
\* the maps stay inverse to each other, and no id is without a watcher that
\* will remove it (task-state.go:42-55, 93-103).
THEOREM RegistryWhole == Spec => []Registered
<1>1. IInv => Registered BY DEF IInv
<1> QED BY Invariance, <1>1, PTL

\* An id never means another version to the client, and no version is told to
\* be canceled that is not, although ids are forgotten and versions registered
\* anew while handlers still have the old id.
THEOREM ClientToldRight == Spec => []ToldRight
<1>1. IInv => ToldRight
  <2>1. WatcherKnows => IdMeansVersion BY DEF WatcherKnows, IdMeansVersion
  <2>2. WatcherKnows => CancelMeansCanceled
    BY DEF WatcherKnows, CancelMeansCanceled
  <2> QED BY <2>1, <2>2 DEF IInv, ToldRight
<1> QED BY Invariance, <1>1, PTL

\* The service keeps the contract that the tasks of the client rest on, however
\* its handlers, watchers and the other connections interleave.
THEOREM ServiceKeepsContract == Spec => ImplementsStateIds
<1>1. Init => Contract!Init
  BY DEF Init, Contract!Init, Contract!Id, Id, Named
<1> QED BY <1>1, Invariance, ContractStep, PTL
        DEF Spec, ImplementsStateIds, Contract!Spec

-----------------------------------------------------------------------------
(* The controller: module Protocol.                                        *)

LEMMA ControllerInit == PInit => PIInv
<1> SUFFICES ASSUME PInit PROVE PIInv
  OBVIOUS
<1>1. OneInHand BY DEF PInit, OneInHand
<1>2. PTypeOK
  <2>1. messages \in 0 .. MaxMessages BY ParametersAssumption DEF PInit
  <2> QED BY <2>1 DEF PInit, PTypeOK
<1>3. LostBefore BY DEF PInit, LostBefore
<1>4. ChannelsKept
  BY
  DEF PInit, ChannelsKept, NoneForgotten, ListedIfOpen,
      NilMeansFinished
<1>5. AllPlaced BY DEF PInit, AllPlaced, Placed
<1> QED BY <1>1, <1>2, <1>3, <1>4, <1>5 DEF PIInv

LEMMA OneInHandStep == PIInv /\ [PNext]_pvars => OneInHand'
<1> SUFFICES ASSUME PIInv, [PNext]_pvars PROVE OneInHand'
  OBVIOUS
<1> USE DEF PIInv, OneInHand
<1>1. ASSUME UNCHANGED <<reader, hand>> PROVE OneInHand'
  BY <1>1
<1>2. ASSUME NEW r \in Request, \/ Store(r) \/ Sender(r)
                                \/ Answer(r)
      PROVE  OneInHand'
  BY <1>1, <1>2
  DEF Store, Sender, Answer, Write, WriteFail,
      CloseFailed, Receive
<1>3. CASE Break \/ OwnerLeaves
  BY <1>1, <1>3 DEF Break, OwnerLeaves
<1>4. CASE OwnerTakes \/ ReadMessage \/ ReadFail
  BY <1>4 DEF OwnerTakes, ReadMessage, ReadFail
<1>5. ASSUME NEW r \in Request, ReadAnswer(r) PROVE OneInHand'
  BY <1>5 DEF ReadAnswer
<1>6. ASSUME NEW r \in Request, PutAnswer(r) PROVE OneInHand'
  BY <1>6 DEF PutAnswer
<1>7. CASE Stop
  BY <1>7 DEF Stop, CloseFinished, CloseConn, Release
<1>8. CASE UNCHANGED pvars BY <1>1, <1>8 DEF pvars
<1> QED BY <1>2, <1>3, <1>4, <1>5, <1>6, <1>7, <1>8 DEF PNext, Reader

LEMMA ControllerTypeStep == PIInv /\ [PNext]_pvars => PTypeOK'
<1> SUFFICES ASSUME PIInv, [PNext]_pvars PROVE PTypeOK'
  OBVIOUS
<1> USE DEF PIInv, PTypeOK, calls, wire
<1>1. ASSUME NEW r \in Request, \/ Store(r) \/ Sender(r)
                                \/ Answer(r)
      PROVE  PTypeOK'
  BY <1>1
  DEF Store, Sender, Answer, Write, WriteFail,
      CloseFailed, Receive
<1>2. CASE Break \/ OwnerLeaves \/ OwnerTakes
  BY <1>2 DEF Break, OwnerLeaves, OwnerTakes
<1>3. CASE ReadMessage \/ ReadFail
  <2>1. messages' \in 0 .. MaxMessages
    BY <1>3, ParametersAssumption DEF ReadMessage, ReadFail
  <2> QED BY <1>3, <2>1 DEF ReadMessage, ReadFail
<1>4. ASSUME NEW r \in Request, ReadAnswer(r) PROVE PTypeOK'
  BY <1>4 DEF ReadAnswer
<1>5. ASSUME NEW r \in Request, PutAnswer(r) PROVE PTypeOK'
  BY <1>5 DEF PutAnswer
<1>6. CASE Stop
  BY <1>6 DEF Stop, CloseFinished, CloseConn, Release
<1>7. CASE UNCHANGED pvars BY <1>7 DEF pvars
<1> QED BY <1>1, <1>2, <1>3, <1>4, <1>5, <1>6, <1>7 DEF PNext, Reader

LEMMA LostStep == PIInv /\ [PNext]_pvars => LostBefore'
<1> SUFFICES ASSUME PIInv, [PNext]_pvars PROVE LostBefore'
  OBVIOUS
<1> USE DEF PIInv, PTypeOK, LostBefore, calls, wire
<1>1. ASSUME NEW r \in Request, \/ Store(r) \/ Sender(r)
                                \/ Answer(r)
      PROVE  LostBefore'
  BY <1>1
  DEF Store, Sender, Answer, Write, WriteFail,
      CloseFailed, Receive
<1>2. CASE Break \/ OwnerLeaves \/ OwnerTakes
  BY <1>2 DEF Break, OwnerLeaves, OwnerTakes
<1>3. CASE ReadMessage \/ ReadFail
  BY <1>3 DEF ReadMessage, ReadFail
<1>4. ASSUME NEW r \in Request, ReadAnswer(r) \/ PutAnswer(r)
      PROVE  LostBefore'
  BY <1>4 DEF ReadAnswer, PutAnswer, OneInHand
<1>5. CASE Stop
  BY <1>5 DEF Stop, CloseFinished, CloseConn, Release
<1>6. CASE UNCHANGED pvars BY <1>6 DEF pvars
<1> QED BY <1>1, <1>2, <1>3, <1>4, <1>5, <1>6 DEF PNext, Reader

LEMMA PlacedStep == PIInv /\ [PNext]_pvars => AllPlaced'
<1> SUFFICES ASSUME PIInv, [PNext]_pvars, NEW q \in Request PROVE Placed(q)'
  BY DEF AllPlaced
<1> USE DEF Placed, Closed, calls, wire
<1>t. /\ channel \in [Request -> {"none", "open", "full", "answered", "nil"}]
      /\ sender \in [Request -> {"idle", "stored", "waiting", "failed", "refused",
                                "done"}]
  BY DEF PIInv, PTypeOK
<1>q. Placed(q) BY DEF PIInv, AllPlaced
<1>h. OneInHand /\ LostBefore /\ NilMeansFinished
  BY DEF PIInv, ChannelsKept
<1>1. ASSUME NEW r \in Request, Store(r) PROVE Placed(q)'
  BY <1>1, <1>t, <1>q DEF Store
<1>2. ASSUME NEW r \in Request, Write(r) PROVE Placed(q)'
  BY <1>2, <1>t, <1>q, <1>h DEF Write, LostBefore
<1>3. ASSUME NEW r \in Request, WriteFail(r) PROVE Placed(q)'
  BY <1>3, <1>t, <1>q DEF WriteFail
<1>4. ASSUME NEW r \in Request, CloseFailed(r) PROVE Placed(q)'
  BY <1>4, <1>t, <1>q DEF CloseFailed
<1>5. ASSUME NEW r \in Request, Receive(r) PROVE Placed(q)'
  BY <1>5, <1>t, <1>q DEF Receive
<1>6. ASSUME NEW r \in Request, Answer(r) PROVE Placed(q)'
  BY <1>6, <1>t, <1>q DEF Answer
<1>7. CASE Break \/ OwnerLeaves \/ OwnerTakes \/ ReadMessage \/ ReadFail
  BY <1>7, <1>q, <1>h
  DEF Break, OwnerLeaves, OwnerTakes, ReadMessage, ReadFail, OneInHand
<1>8. ASSUME NEW r \in Request, ReadAnswer(r) PROVE Placed(q)'
  BY <1>8, <1>t, <1>q, <1>h DEF ReadAnswer, OneInHand
<1>9. ASSUME NEW r \in Request, PutAnswer(r) PROVE Placed(q)'
  <2>1. hand = {r} BY <1>9, <1>h DEF PutAnswer, OneInHand
  <2> QED BY <1>9, <2>1, <1>t, <1>q, <1>h DEF PutAnswer, OneInHand
<1>10. CASE CloseFinished \/ CloseConn
  BY <1>10, <1>q DEF CloseFinished, CloseConn
<1>11. CASE Release
  BY <1>11, <1>t, <1>q, <1>h DEF Release, OneInHand
<1>12. CASE UNCHANGED pvars BY <1>12, <1>q DEF pvars
<1> QED BY <1>1, <1>2, <1>3, <1>4, <1>5, <1>6, <1>7, <1>8, <1>9, <1>10, <1>11,
           <1>12
  DEF PNext, Sender, Reader, Stop

-----------------------------------------------------------------------------
(* The channels.                                                           *)

LEMMA ListedStep == PIInv /\ [PNext]_pvars => ListedIfOpen'
<1> SUFFICES ASSUME PIInv, [PNext]_pvars PROVE ListedIfOpen'
  OBVIOUS
<1> USE
  DEF PIInv, ChannelsKept, ListedIfOpen, calls, wire
<1>t. /\ channel \in [Request -> {"none", "open", "full", "answered", "nil"}]
      /\ sender \in [Request -> {"idle", "stored", "waiting", "failed", "refused", "done"}]
  BY DEF PTypeOK
<1>1. ASSUME NEW r \in Request, \/ Store(r) \/ Write(r)
                                \/ WriteFail(r) \/ Answer(r)
      PROVE  ListedIfOpen'
  BY <1>t, <1>1 DEF Store, Write, WriteFail, Answer
<1>2. ASSUME NEW r \in Request, CloseFailed(r) \/ Receive(r)
      PROVE  ListedIfOpen'
  BY <1>t, <1>2 DEF CloseFailed, Receive, Closed
<1>3. CASE \/ Break \/ OwnerLeaves \/ OwnerTakes
           \/ ReadMessage \/ ReadFail
  BY <1>3
  DEF Break, OwnerLeaves, OwnerTakes, ReadMessage,
      ReadFail
<1>4. ASSUME NEW r \in Request, ReadAnswer(r) PROVE ListedIfOpen'
  BY <1>4 DEF ReadAnswer, OneInHand
<1>5. ASSUME NEW r \in Request, PutAnswer(r) PROVE ListedIfOpen'
  <2>1. hand = {r} BY <1>5 DEF PutAnswer, OneInHand
  <2> QED BY <1>t, <1>5, <2>1 DEF PutAnswer, Closed
<1>6. CASE Stop
  BY <1>t, <1>6 DEF Stop, CloseFinished, CloseConn, Release
<1>7. CASE UNCHANGED pvars BY <1>7 DEF pvars
<1> QED BY <1>1, <1>2, <1>3, <1>4, <1>5, <1>6, <1>7
  DEF PNext, Sender, Reader

LEMMA ForgottenStep ==
  PIInv /\ [PNext]_pvars => NoneForgotten'
<1> SUFFICES ASSUME PIInv, [PNext]_pvars PROVE NoneForgotten'
  OBVIOUS
<1> USE
  DEF PIInv, ChannelsKept, NoneForgotten, calls, wire
<1>t. /\ channel \in [Request -> {"none", "open", "full", "answered", "nil"}]
      /\ sender \in [Request -> {"idle", "stored", "waiting", "failed", "refused", "done"}]
  BY DEF PTypeOK
<1>1. ASSUME NEW r \in Request, \/ Store(r) \/ WriteFail(r)
                                \/ Answer(r)
      PROVE  NoneForgotten'
  BY <1>t, <1>1 DEF Store, WriteFail, Answer
<1>2. ASSUME NEW r \in Request, Write(r) PROVE NoneForgotten'
  <2>1. reader' # "gone" BY <1>2 DEF Write, LostBefore
  <2> QED BY <2>1
<1>3. ASSUME NEW r \in Request, CloseFailed(r) \/ Receive(r)
      PROVE  NoneForgotten'
  BY <1>t, <1>3 DEF CloseFailed, Receive, Closed
<1>4. CASE \/ Break \/ OwnerLeaves \/ OwnerTakes
           \/ ReadMessage \/ ReadFail
  BY <1>4
  DEF Break, OwnerLeaves, OwnerTakes, ReadMessage,
      ReadFail
<1>5. ASSUME NEW r \in Request, ReadAnswer(r) \/ PutAnswer(r)
      PROVE  NoneForgotten'
  <2>1. reader' # "gone" BY <1>5
    DEF ReadAnswer, PutAnswer, OneInHand
  <2> QED BY <2>1
<1>6. CASE Stop
  <2>1. CASE Release
    <3>1. \A r \in Request : channel'[r] = "open" => sender'[r] = "failed"
      BY <2>1 DEF Release, ListedIfOpen, OneInHand
    <3> QED BY <3>1
  <2>2. CASE CloseFinished \/ CloseConn
    BY <2>2 DEF CloseFinished, CloseConn
  <2> QED BY <1>6, <2>1, <2>2 DEF Stop
<1>7. CASE UNCHANGED pvars BY <1>7 DEF pvars
<1> QED BY <1>1, <1>2, <1>3, <1>4, <1>5, <1>6, <1>7
  DEF PNext, Sender, Reader

LEMMA NilStep ==
  PIInv /\ [PNext]_pvars => NilMeansFinished'
<1> SUFFICES ASSUME PIInv, [PNext]_pvars
      PROVE  NilMeansFinished'
  OBVIOUS
<1> USE
  DEF PIInv, ChannelsKept, NilMeansFinished, calls, wire
<1>t. /\ channel \in [Request -> {"none", "open", "full", "answered", "nil"}]
      /\ link \in {"up", "broken", "closed"}
  BY DEF PTypeOK
<1>1. ASSUME NEW r \in Request, \/ Store(r) \/ Write(r)
                                \/ WriteFail(r) \/ Answer(r)
                                \/ Receive(r)
      PROVE  NilMeansFinished'
  BY <1>t, <1>1
  DEF Store, Write, WriteFail, Answer, Receive
<1>2. ASSUME NEW r \in Request, CloseFailed(r) PROVE NilMeansFinished'
  BY <1>t, <1>2 DEF CloseFailed, LostBefore
<1>3. CASE \/ Break \/ OwnerLeaves \/ OwnerTakes
           \/ ReadMessage \/ ReadFail
  BY <1>3
  DEF Break, OwnerLeaves, OwnerTakes, ReadMessage,
      ReadFail
<1>4. ASSUME NEW r \in Request, ReadAnswer(r) \/ PutAnswer(r)
      PROVE  NilMeansFinished'
  BY <1>t, <1>4 DEF ReadAnswer, PutAnswer
<1>5. CASE Stop
  BY <1>t, <1>5
  DEF Stop, CloseFinished, CloseConn, Release,
      LostBefore
<1>6. CASE UNCHANGED pvars BY <1>6 DEF pvars
<1> QED BY <1>1, <1>2, <1>3, <1>4, <1>5, <1>6
  DEF PNext, Sender, Reader

-----------------------------------------------------------------------------
(* The theorems.                                                           *)

\* The three facts about channels hold together: what is released at the end
\* is what is listed, and it is released after the connection has been closed,
\* so that no request is written behind it.
THEOREM ControllerInvariance == PSpec => []PIInv
<1>1. PIInv /\ [PNext]_pvars => PIInv'
  BY ControllerTypeStep, OneInHandStep, LostStep, PlacedStep, ListedStep,
     ForgottenStep, NilStep
  DEF PIInv, ChannelsKept
<1> QED BY ControllerInit, <1>1, PTL DEF PSpec

\* For any number of requests under way when the connection ends, and any order
\* of the steps of their goroutines and of connStop: no channel is left waiting
\* for nobody, and none says nil on a connection that is up
\* (controller.go:93-111, conn.go:112-126).
THEOREM ChannelsAreKept == PSpec => []ChannelsKept
<1>1. PIInv => ChannelsKept BY DEF PIInv
<1> QED BY ControllerInvariance, <1>1, PTL

-----------------------------------------------------------------------------
(* What the senders see: an action of the controller is one of Requests, or *)
(* nothing.                                                                *)

LEMMA StatesFixed ==
  ASSUME \A q \in Request : StateOf(q)' = StateOf(q)
  PROVE  UNCHANGED [q \in Request |-> StateOf(q)]
OBVIOUS

LEMMA StateMoves ==
  ASSUME NEW r \in Request, NEW from, NEW to,
         StateOf(r) = from, StateOf(r)' = to,
         \A q \in Request \ {r} : StateOf(q)' = StateOf(q),
         UNCHANGED <<link, finished>>
  PROVE  Promise!Step(r, from, to)
BY DEF Promise!Step

\* Read and written messages, the answer on its way into connRead's hands, and
\* what the caller does with its result are no steps of Requests.
LEMMA RequestsStep ==
  PIInv /\ PIInv' /\ [PNext]_pvars => [Promise!Next]_(Promise!vars)
<1> SUFFICES ASSUME PIInv, PIInv', [PNext]_pvars
             PROVE  Promise!Next \/ UNCHANGED Promise!vars
  OBVIOUS
<1> DEFINE Goal == Promise!Next \/ UNCHANGED Promise!vars
<1> USE DEF calls, wire
<1>t. /\ channel \in [Request -> {"none", "open", "full", "answered", "nil"}]
      /\ sender \in [Request -> {"idle", "stored", "waiting", "failed", "refused",
                                "done"}]
      /\ link \in {"up", "broken", "closed"} /\ finished \in BOOLEAN
  BY DEF PIInv, PTypeOK
<1>q. \A q \in Request : Placed(q) BY DEF PIInv, AllPlaced
<1>h. OneInHand /\ LostBefore /\ NilMeansFinished
  BY DEF PIInv, ChannelsKept
<1>k. ASSUME \A q \in Request : StateOf(q)' = StateOf(q),
             UNCHANGED <<link, finished>>
      PROVE  Goal
  BY <1>k, StatesFixed DEF Promise!vars
<1>1. ASSUME NEW r \in Request, Store(r) PROVE Goal
  <2>1. StateOf(r) = "new" /\ StateOf(r)' = "sent"
    BY <1>1, <1>t, <1>q DEF Store, StateOf, Placed
  <2>2. \A q \in Request \ {r} : StateOf(q)' = StateOf(q)
    BY <1>1, <1>t DEF Store, StateOf
  <2>3. Promise!Send(r) BY <1>1, <2>1, <2>2, StateMoves DEF Store, Promise!Send
  <2> QED BY <2>3 DEF Promise!Next
<1>2. ASSUME NEW r \in Request, Write(r) PROVE Goal
  <2>1. \A q \in Request \ {r} : StateOf(q)' = StateOf(q)
    BY <1>2, <1>t DEF Write, StateOf
  <2>2. StateOf(r) = "sent"
    BY <1>2, <1>t, <1>q, <1>h DEF Write, StateOf, Placed, LostBefore
  <2>3. CASE link = "up"
    <3>1. StateOf(r)' = "asked"
      BY <1>2, <2>3, <1>t, <1>q, <1>h DEF Write, StateOf, Placed, LostBefore
    <3>2. Promise!Ask(r)
      BY <1>2, <2>1, <2>2, <2>3, <3>1, StateMoves DEF Write, Promise!Ask
    <3> QED BY <3>2 DEF Promise!Next
  <2>4. CASE link # "up"
    <3>1. StateOf(r)' = "sent"
      BY <1>2, <2>4, <1>t, <1>q, <1>h DEF Write, StateOf, Placed, LostBefore
    <3> QED BY <1>2, <2>1, <2>2, <3>1, <1>k DEF Write
  <2> QED BY <2>3, <2>4
<1>3. ASSUME NEW r \in Request, WriteFail(r) PROVE Goal
  <2>1. \A q \in Request \ {r} : StateOf(q)' = StateOf(q)
    BY <1>3, <1>t DEF WriteFail, StateOf
  <2>2. StateOf(r) = "sent"
    <3>1. /\ sender[r] = "stored" /\ channel[r] \in {"open", "nil"}
          /\ r \notin asked \cup answers \cup hand
      BY <1>3, <1>q DEF WriteFail, Placed
    <3> QED BY <3>1 DEF StateOf
  <2>4. StateOf(r)' = "error"
    <3>1. sender'[r] = "failed" BY <1>3, <1>t DEF WriteFail
    <3> QED BY <3>1 DEF StateOf
  <2>3. Promise!Fail(r)
    BY <1>3, <2>1, <2>2, <2>4, StateMoves DEF WriteFail, Promise!Fail
  <2> QED BY <2>3 DEF Promise!Next
<1>4. ASSUME NEW r \in Request, CloseFailed(r) PROVE Goal
  <2>1. StateOf(r)' = StateOf(r)
    <3>1. sender[r] = "failed" /\ sender'[r] = "refused"
      BY <1>4, <1>t DEF CloseFailed
    <3> QED BY <3>1 DEF StateOf
  <2>2. \A q \in Request \ {r} : StateOf(q)' = StateOf(q)
    BY <1>4, <1>t DEF CloseFailed, StateOf
  <2> QED BY <1>4, <2>1, <2>2, <1>k DEF CloseFailed
<1>5. ASSUME NEW r \in Request, Receive(r) PROVE Goal
  <2>1. \A q \in Request : StateOf(q)' = StateOf(q)
    BY <1>5, <1>t DEF Receive, Closed, StateOf
  <2> QED BY <1>5, <2>1, <1>k DEF Receive
<1>6. ASSUME NEW r \in Request, Answer(r) PROVE Goal
  <2>1. \A q \in Request \ {r} : StateOf(q)' = StateOf(q)
    BY <1>6, <1>t DEF Answer, StateOf
  <2>2. StateOf(r) = "asked" /\ StateOf(r)' = "replied"
    BY <1>6, <1>t, <1>q, <1>h DEF Answer, StateOf, Placed, NilMeansFinished
  <2>3. Promise!Reply(r)
    BY <1>6, <2>1, <2>2, StateMoves DEF Answer, Promise!Reply
  <2> QED BY <2>3 DEF Promise!Next
<1>7. CASE OwnerTakes \/ ReadMessage \/ ReadFail
  <2>1. \A q \in Request : StateOf(q)' = StateOf(q)
    BY <1>7 DEF OwnerTakes, ReadMessage, ReadFail, StateOf
  <2> QED BY <1>7, <2>1, <1>k DEF OwnerTakes, ReadMessage, ReadFail
<1>8. CASE Break \/ OwnerLeaves \/ CloseConn
  <2>1. \A q \in Request : StateOf(q)' = StateOf(q)
    BY <1>8 DEF Break, OwnerLeaves, CloseConn, StateOf
  <2>2. ~(link' = "up") /\ UNCHANGED finished
    BY <1>8 DEF Break, OwnerLeaves, CloseConn
  <2>3. Promise!Lose BY <2>1, <2>2, StatesFixed DEF Promise!Lose
  <2> QED BY <2>3 DEF Promise!Next
<1>9. CASE CloseFinished
  <2>1. \A q \in Request : StateOf(q)' = StateOf(q)
    BY <1>9 DEF CloseFinished, StateOf
  <2>2. Promise!Finish
    BY <1>9, <2>1, StatesFixed DEF CloseFinished, Promise!Finish
  <2> QED BY <2>2 DEF Promise!Next
<1>10. ASSUME NEW r \in Request, ReadAnswer(r) PROVE Goal
  <2>1. r \in listed /\ hand = {}
    BY <1>10, <1>q, <1>h DEF ReadAnswer, Placed, OneInHand
  <2>2. \A q \in Request : StateOf(q)' = StateOf(q)
    BY <1>10, <2>1 DEF ReadAnswer, StateOf
  <2> QED BY <1>10, <2>2, <1>k DEF ReadAnswer
<1>11. ASSUME NEW r \in Request, PutAnswer(r) PROVE Goal
  <2>1. hand = {r} /\ sender[r] = "waiting" /\ channel[r] \in {"open", "full"}
    BY <1>11, <1>q, <1>h DEF PutAnswer, Placed, OneInHand
  <2>2. \A q \in Request \ {r} : StateOf(q)' = StateOf(q)
    BY <1>11, <2>1, <1>t DEF PutAnswer, StateOf
  <2>3. CASE channel[r] = "open"
    <3>1. StateOf(r) = "replied"
      <4>1. r \notin asked BY <2>1, <1>q DEF Placed
      <4> QED BY <2>1, <2>3, <4>1 DEF StateOf
    <3>4. StateOf(r)' = "value"
      <4>1. sender'[r] = "waiting" /\ channel'[r] = "full"
        BY <1>11, <2>1, <2>3, <1>t DEF PutAnswer, Closed
      <4> QED BY <4>1 DEF StateOf
    <3>2. ~finished BY <2>1, <1>h DEF OneInHand, LostBefore
    <3>3. Promise!Return(r)
      BY <1>11, <2>2, <3>1, <3>4, <3>2, StateMoves DEF PutAnswer, Promise!Return
    <3> QED BY <3>3 DEF Promise!Next
  <2>4. CASE channel[r] = "full"
    <3>1. StateOf(r)' = StateOf(r)
      BY <1>11, <2>1, <2>4, <1>t DEF PutAnswer, StateOf, Closed
    <3> QED BY <1>11, <2>2, <3>1, <1>k DEF PutAnswer
  <2> QED BY <2>1, <2>3, <2>4
<1>12. CASE Release
  <2> DEFINE R == {r \in listed : channel[r] = "open" /\ sender[r] # "stored"}
  <2>1. listed \subseteq Request BY DEF PIInv, PTypeOK
  <2>2. \A q \in Request : q \in R => StateOf(q) \in {"sent", "asked", "replied"}
    BY <1>t, <1>q DEF StateOf, Placed
  <2>3. \A q \in Request : StateOf(q)' = IF q \in R THEN "nil" ELSE StateOf(q)
    <3> SUFFICES ASSUME NEW q \in Request
                 PROVE  StateOf(q)' = IF q \in R THEN "nil" ELSE StateOf(q)
      OBVIOUS
    <3>1. sender'[q] = sender[q] BY <1>12 DEF Release
    <3>2. CASE q \in R
      <4>1. channel'[q] = "nil" BY <1>12, <3>2 DEF Release
      <4>2. sender[q] \in {"waiting", "done"}
        BY <3>2, <1>t, <1>q DEF Placed
      <4> QED BY <3>1, <3>2, <4>1, <4>2 DEF StateOf
    <3>3. CASE q \in listed /\ channel[q] = "open" /\ sender[q] = "stored"
      <4>1. channel'[q] = "nil" BY <1>12, <3>3 DEF Release
      <4>2. UNCHANGED <<asked, answers, hand>> BY <1>12 DEF Release
      <4> QED BY <3>1, <3>3, <4>1, <4>2 DEF StateOf
    <3>4. CASE ~(q \in listed /\ channel[q] = "open")
      <4>1. channel'[q] = channel[q] BY <1>12, <3>4 DEF Release
      <4>2. UNCHANGED <<asked, answers, hand>> BY <1>12 DEF Release
      <4> QED BY <3>1, <3>4, <4>1, <4>2 DEF StateOf
    <3> QED BY <3>2, <3>3, <3>4
  <2>4. finished /\ link # "up" /\ UNCHANGED <<link, finished>>
    BY <1>12, <1>h DEF Release, LostBefore
  <2>5. Promise!Release(R)
    BY <2>1, <2>2, <2>3, <2>4 DEF Promise!Release, Promise!UnderWay
  <2> QED BY <2>1, <2>5 DEF Promise!Next
<1>13. CASE UNCHANGED pvars
  <2>1. \A q \in Request : StateOf(q)' = StateOf(q) BY <1>13 DEF pvars, StateOf
  <2> QED BY <1>13, <2>1, <1>k DEF pvars
<1> QED BY <1>1, <1>2, <1>3, <1>4, <1>5, <1>6, <1>7, <1>8, <1>9, <1>10, <1>11,
           <1>12, <1>13
  DEF PNext, Sender, Reader, Stop

\* Whatever the order in which connRead, connStop and the goroutine of a call get
\* to its channel, the call is told what Requests promises: an error only for a
\* request that the other end never sees, nil only after Finished() is closed
\* and the connection lost, and the first of these for good
\* (controller.go:73-121, conn.go:27-126).
THEOREM ControllerImplementsRequests == PSpec => ImplementsRequests
<1>1. PInit => Promise!Init
  BY DEF PInit, Promise!Init, StateOf
<1> QED BY <1>1, ControllerInvariance, RequestsStep, PTL
        DEF PSpec, ImplementsRequests, Promise!Spec

=============================================================================
