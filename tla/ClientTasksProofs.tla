------------------------- MODULE ClientTasksProofs -------------------------
(***************************************************************************)
(* Proofs about ClientTasks: for any tasks, ids, infos, connections and    *)
(* objects.                                                                *)
(***************************************************************************)
EXTENDS ClientTasks, FiniteSetTheorems, TLAPS

-----------------------------------------------------------------------------
(* What processing a message comes to.                                     *)

\* taskNew makes the object.
Created(m, o) ==
  /\ IsInfo(m)
  /\ list[m.id] \in {None, Cancel}
  /\ objs[o] = None
  /\ \E q \in BOOLEAN :
       objs' = [objs EXCEPT ![o] = NewObject(m, q, list[m.id] = Cancel)]
  /\ list' = [list EXCEPT ![m.id] = IF list[m.id] = None THEN o ELSE None]
  /\ UNCHANGED connState

\* taskNew finds it.
Found(m) ==
  /\ IsInfo(m)
  /\ list[m.id] \in Object
  /\ \E q \in BOOLEAN : Take(list[m.id], m, q)
  /\ UNCHANGED <<list, connState>>

\* A cancel is kept, or finds its object.
Kept(m) ==
  /\ m.kind = "cancel"
  /\ list[m.id] = None
  /\ list' = [list EXCEPT ![m.id] = Cancel]
  /\ UNCHANGED <<objs, connState>>

Hit(m) ==
  /\ m.kind = "cancel"
  /\ list[m.id] \in Object
  /\ objs' = [objs EXCEPT ![list[m.id]].canceled = TRUE]
  /\ list' = [list EXCEPT ![m.id] = None]
  /\ UNCHANGED connState

Panics(m) ==
  /\ \/ /\ IsInfo(m) /\ list[m.id] \in Object
        /\ objs[list[m.id]].task # m.task
        /\ connState' = "oldTask"
     \/ m.kind = "cancel" /\ list[m.id] = Cancel /\ connState' = "notTask"
  /\ UNCHANGED <<list, objs>>

LEMMA ProcessCases ==
  ASSUME TypeOK, NEW m \in inbox, Process(m)
  PROVE  /\ m \in Message
         /\ inbox' = inbox \ {m}
         /\ UNCHANGED <<epoch, names, changed, canceled, infos>>
         /\ \/ \E o \in Object : Created(m, o)
            \/ Found(m) \/ Kept(m) \/ Hit(m) \/ Panics(m)
            \/ m.kind = "subscribed" /\ UNCHANGED <<list, objs, connState>>
<1>1. m \in Message BY DEF TypeOK
<1>2. CASE ProcessInfo(m)
  <2>1. PICK q \in BOOLEAN : TaskNew(m, q)
    BY <1>2 DEF ProcessInfo, TypeOK
  <2>2. IsInfo(m) BY <1>2 DEF ProcessInfo, IsInfo
  <2>3. (\E o \in Object : Created(m, o)) \/ Found(m) \/ Panics(m)
    BY <2>1, <2>2 DEF TaskNew, Differ, Panic, Created, Found, Panics
  <2> QED BY <1>1, <1>2, <2>3 DEF ProcessInfo, service
<1>3. CASE ProcessCancel(m)
  BY <1>1, <1>3 DEF ProcessCancel, service, Panic, Kept, Hit, Panics
<1>4. CASE ProcessSubscribed(m)
  BY <1>1, <1>4 DEF ProcessSubscribed, service
<1> QED BY <1>2, <1>3, <1>4 DEF Process

\* What the service does leaves the client alone.
LEMMA ServiceSteps ==
  ASSUME TypeOK,
         \/ Connect \/ Break \/ AnswerSubscribe
         \/ \E t \in Task : Name(t)
         \/ \E i \in Id : \/ Change(i) \/ SendCancel(i)
                          \/ \E kind \in {"info", "offer"} : Info(kind, i)
  PROVE  UNCHANGED <<list, objs, subscribed>>
BY DEF Connect, Break, AnswerSubscribe, Name, Change, SendCancel, Info, Receive

\* Disconnected cancels what is in the list, Refused one object: nothing is
\* made, and no task or id changes.
LEMMA CancelSteps ==
  ASSUME TypeOK, Listed, Disconnected \/ \E o \in Object : Refused(o)
  PROVE  /\ UNCHANGED <<epoch, names, changed, canceled, infos, inbox>>
         /\ objs' \in [Object -> TaskObject \cup {None}]
         /\ \A o \in Object :
              /\ Made(o)' <=> Made(o)
              /\ Made(o) => /\ objs'[o].task = objs[o].task
                            /\ objs'[o].id = objs[o].id
                            /\ objs[o].canceled => objs'[o].canceled
<1>0. \A x \in TaskObject :
        /\ [x EXCEPT !.canceled = TRUE] \in TaskObject
        /\ [x EXCEPT !.canceled = TRUE].task = x.task
        /\ [x EXCEPT !.canceled = TRUE].id = x.id
        /\ [x EXCEPT !.canceled = TRUE].canceled
        /\ x # None /\ x.task # None /\ x.id \in Id
  BY NoneAssumption, NoObjectAssumption DEF TaskObject
<1>1. objs \in [Object -> TaskObject \cup {None}] BY DEF TypeOK
<1>2. CASE Disconnected
  <2>1. \A o \in Object : (\E i \in Id : list[i] = o) => Made(o)
    BY DEF Listed
  <2> QED BY <1>0, <1>1, <1>2, <2>1 DEF Disconnected, Made, service
<1>3. CASE \E o \in Object : Refused(o)
  BY <1>0, <1>1, <1>3 DEF Refused, Made, service
<1> QED BY <1>2, <1>3

LEMMA ProcessSteps ==
  ASSUME TypeOK, Sent, Listed, NEW m \in inbox
  PROVE  /\ \A o \in Object :
              Created(m, o) =>
                /\ objs' \in [Object -> TaskObject \cup {None}]
                /\ list' \in [Id -> Object \cup {Cancel, None}]
                /\ ~Made(o) /\ objs'[o] # None
                /\ objs'[o].task = m.task /\ objs'[o].id = m.id
                /\ objs'[o].canceled <=> list[m.id] = Cancel
                /\ \A u \in Object \ {o} : objs'[u] = objs[u]
         /\ Found(m) \/ Hit(m) =>
              /\ list[m.id] \in Object
              /\ objs[list[m.id]] # None /\ objs[list[m.id]].id = m.id
              /\ objs' \in [Object -> TaskObject \cup {None}]
              /\ objs'[list[m.id]] # None
              /\ objs'[list[m.id]].id = m.id
              /\ \A u \in Object \ {list[m.id]} : objs'[u] = objs[u]
         /\ Found(m) =>
              /\ objs'[list[m.id]].task = m.task
              /\ objs'[list[m.id]].canceled <=> objs[list[m.id]].canceled
              /\ objs[list[m.id]].orphan => objs'[list[m.id]].orphan
         /\ Hit(m) =>
              /\ list' \in [Id -> Object \cup {Cancel, None}]
              /\ objs'[list[m.id]].task = objs[list[m.id]].task
              /\ objs'[list[m.id]].canceled
<1>1. /\ objs \in [Object -> TaskObject \cup {None}]
      /\ list \in [Id -> Object \cup {Cancel, None}]
      /\ m.id \in Id
  BY DEF TypeOK, Message
<1>2. IsInfo(m) => m.task \in Task BY DEF Sent
<1>3. list[m.id] \in Object =>
        objs[list[m.id]] \in TaskObject /\ objs[list[m.id]].id = m.id
  BY <1>1 DEF Listed, Made
<1>4. \A x \in TaskObject, q \in BOOLEAN :
        /\ [x EXCEPT !.canceled = TRUE] \in TaskObject
        /\ [x EXCEPT !.canceled = TRUE].task = x.task
        /\ [x EXCEPT !.canceled = TRUE].id = x.id
        /\ [x EXCEPT !.canceled = TRUE].canceled
        /\ x # None
  BY NoObjectAssumption DEF TaskObject
<1>5. ASSUME NEW o \in Object, Created(m, o)
      PROVE  /\ objs' \in [Object -> TaskObject \cup {None}]
             /\ list' \in [Id -> Object \cup {Cancel, None}]
             /\ ~Made(o) /\ objs'[o] # None
             /\ objs'[o].task = m.task /\ objs'[o].id = m.id
             /\ objs'[o].canceled <=> list[m.id] = Cancel
             /\ \A u \in Object \ {o} : objs'[u] = objs[u]
  <2>1. PICK q \in BOOLEAN :
          objs' = [objs EXCEPT ![o] = NewObject(m, q, list[m.id] = Cancel)]
    BY <1>5 DEF Created
  <2>2. NewObject(m, q, list[m.id] = Cancel) \in TaskObject
    BY <1>1, <1>2, <1>5 DEF Created, NewObject, TaskObject
  <2> QED BY <1>1, <1>4, <1>5, <2>1, <2>2 DEF Created, NewObject, Made
<1>6. ASSUME Found(m)
      PROVE  /\ objs' \in [Object -> TaskObject \cup {None}]
             /\ objs'[list[m.id]] # None
             /\ objs'[list[m.id]].id = m.id
             /\ \A u \in Object \ {list[m.id]} : objs'[u] = objs[u]
             /\ objs'[list[m.id]].task = m.task
             /\ objs'[list[m.id]].canceled <=> objs[list[m.id]].canceled
             /\ objs[list[m.id]].orphan => objs'[list[m.id]].orphan
  <2>1. PICK q \in BOOLEAN : Take(list[m.id], m, q)
    BY <1>6 DEF Found
  <2> DEFINE x == objs[list[m.id]]
             y == [x EXCEPT !.queue = q, !.task = m.task, !.orphan = @ \/ ~q]
  <2>2. objs' = [objs EXCEPT ![list[m.id]] = y]
    BY <1>1, <1>3, <1>6, <2>1 DEF Take, Found
  <2>3. x \in TaskObject /\ x.id = m.id BY <1>3, <1>6 DEF Found
  <2>4. /\ y \in TaskObject /\ y.id = m.id /\ y.task = m.task
        /\ y.canceled = x.canceled
        /\ x.orphan => y.orphan
    BY <1>2, <1>6, <2>3 DEF TaskObject, Found
  <2> HIDE DEF y
  <2> QED BY <1>1, <1>4, <1>6, <2>2, <2>4 DEF Found
<1>7. ASSUME Hit(m)
      PROVE  /\ list' \in [Id -> Object \cup {Cancel, None}]
             /\ objs' \in [Object -> TaskObject \cup {None}]
             /\ objs'[list[m.id]] # None
             /\ objs'[list[m.id]].id = m.id
             /\ \A u \in Object \ {list[m.id]} : objs'[u] = objs[u]
             /\ objs'[list[m.id]].task = objs[list[m.id]].task
             /\ objs'[list[m.id]].canceled
  BY <1>1, <1>3, <1>4, <1>7 DEF Hit
<1>8. Found(m) \/ Hit(m) => list[m.id] \in Object BY DEF Found, Hit
<1>9. list[m.id] \in Object => objs[list[m.id]] # None BY <1>3, <1>4
<1> QED BY <1>3, <1>5, <1>6, <1>7, <1>8, <1>9

-----------------------------------------------------------------------------
(* Types, and what the service has told.                                   *)

LEMMA InitIInv == Init => IInv
<1> SUFFICES ASSUME Init PROVE IInv
  OBVIOUS
<1>n. None \notin Object /\ None # Cancel BY NoneAssumption
<1>1. TypeOK
  <2>1. epoch \in 0 .. MaxEpoch BY BoundsAssumption DEF Init
  <2>2. infos \in [Id -> 0 .. MaxInfo] BY BoundsAssumption DEF Init
  <2> QED BY <2>1, <2>2 DEF Init, TypeOK
<1>2. NamedInOrder
  <2>1. MaxId \in Nat /\ 0 \in 0 .. MaxId BY BoundsAssumption
  <2>2. Used = 0 .. 0 - 1 BY DEF Init, Used
  <2> QED BY <2>1, <2>2 DEF NamedInOrder
<1>3. Sent /\ Listed /\ Reachable /\ OfFirst /\ OneInfo
  BY <1>n DEF Init, Sent, Listed, Reachable, OfFirst, OneInfo, Made, Live
<1>4. FirstConnection /\ CancelArrives
  BY DEF Init, FirstConnection, CanceledByService, NoPanicFirst, Alive,
         CancelArrives
<1> QED BY <1>1, <1>2, <1>3, <1>4 DEF IInv

\* The next id is not in use.
LEMMA NextId ==
  ASSUME TypeOK, NamedInOrder
  PROVE  /\ Cardinality(Used) \in 0 .. MaxId
         /\ Used = 0 .. Cardinality(Used) - 1
<1>1. PICK n \in 0 .. MaxId : Used = 0 .. n - 1 BY DEF NamedInOrder
<1>2. MaxId \in Nat BY BoundsAssumption
<1>3. Cardinality(0 .. n - 1) = n BY <1>2, FS_Interval
<1> QED BY <1>1, <1>2, <1>3

LEMMA NameSteps ==
  ASSUME TypeOK, NamedInOrder, NEW t \in Task, Name(t)
  PROVE  /\ NamedInOrder'
         /\ names' \in [Id -> Task \cup {None}]
         /\ \A i \in Id : names[i] # None => names'[i] = names[i]
<1> DEFINE n == Cardinality(Used)
<1>1. MaxId \in Nat BY BoundsAssumption
<1>2. n \in 0 .. MaxId /\ n < MaxId /\ Used = 0 .. n - 1
  BY NextId DEF Name
<1>3. names' = [names EXCEPT ![n] = t] BY DEF Name
<1> HIDE DEF n
<1>4. n \in Id /\ names[n] = None
  BY <1>1, <1>2 DEF Id, Used
<1>5. Used' = Used \cup {n}
  BY <1>3, <1>4, NoneAssumption DEF Used, TypeOK
<1>6. Used' = 0 .. (n + 1) - 1 BY <1>1, <1>2, <1>5
<1>7. n + 1 \in 0 .. MaxId BY <1>1, <1>2
<1>8. NamedInOrder' BY <1>6, <1>7 DEF NamedInOrder
<1> QED BY <1>3, <1>4, <1>8 DEF TypeOK

LEMMA NamedStep == IInv /\ [Next]_vars => NamedInOrder'
<1> SUFFICES ASSUME IInv, [Next]_vars PROVE NamedInOrder'
  OBVIOUS
<1> USE DEF IInv
<1>1. ASSUME UNCHANGED names PROVE NamedInOrder'
  BY <1>1 DEF NamedInOrder, Used
<1>2. CASE Connect
  <2>1. MaxId \in Nat /\ 0 \in 0 .. MaxId BY BoundsAssumption
  <2>2. Used' = 0 .. 0 - 1 BY <1>2 DEF Connect, Used
  <2> QED BY <2>1, <2>2 DEF NamedInOrder
<1>3. ASSUME NEW t \in Task, Name(t) PROVE NamedInOrder'
  BY <1>3, NameSteps
<1>4. CASE Break \/ AnswerSubscribe \/ Disconnected \/ UNCHANGED vars
  BY <1>1, <1>4 DEF Break, AnswerSubscribe, Disconnected, vars, service
<1>5. ASSUME NEW i \in Id,
             \/ Change(i) \/ SendCancel(i)
             \/ \E kind \in {"info", "offer"} : Info(kind, i)
      PROVE  NamedInOrder'
  BY <1>1, <1>5 DEF Change, SendCancel, Info
<1>6. ASSUME NEW m \in inbox, Process(m) PROVE NamedInOrder'
  BY <1>1, <1>6, ProcessCases
<1>7. ASSUME NEW o \in Object, Refused(o) PROVE NamedInOrder'
  BY <1>1, <1>7 DEF Refused, service
<1> QED BY <1>2, <1>3, <1>4, <1>5, <1>6, <1>7 DEF Next

LEMMA TypeStep == IInv /\ [Next]_vars => TypeOK'
<1> SUFFICES ASSUME IInv, [Next]_vars PROVE TypeOK'
  OBVIOUS
<1> USE DEF IInv
<1>b. /\ MaxId \in Nat \ {0} /\ MaxInfo \in Nat \ {0} /\ MaxEpoch \in Nat \ {0}
      /\ 0 \in Id
  BY BoundsAssumption DEF Id
<1>1. CASE Connect
  <2>1. epoch' \in 0 .. MaxEpoch BY <1>b, <1>1 DEF Connect, TypeOK
  <2>2. \A i \in Id : infos'[i] \in 0 .. MaxInfo BY <1>b, <1>1 DEF Connect
  <2> QED BY <1>1, <2>1, <2>2 DEF Connect, TypeOK
<1>2. CASE Break BY <1>2 DEF Break, TypeOK, service
<1>3. ASSUME NEW kind \in {"info", "offer", "cancel", "subscribed"},
             NEW i \in Id, NEW n \in 0 .. MaxInfo, NEW t \in Task \cup {None},
             connState = "up", Receive(kind, i, n, t)
      PROVE  inbox' \subseteq Message
  <2>1. epoch \in 1 .. MaxEpoch BY <1>b, <1>3 DEF TypeOK, Sent
  <2>2. [kind |-> kind, epoch |-> epoch, id |-> i, nth |-> n, task |-> t]
          \in Message
    BY <2>1 DEF Message
  <2> QED BY <1>3, <2>2 DEF Receive, TypeOK
<1>4. CASE AnswerSubscribe
  <2>1. inbox' \subseteq Message BY <1>b, <1>3, <1>4 DEF AnswerSubscribe
  <2> QED BY <1>4, <2>1 DEF AnswerSubscribe, TypeOK, service
<1>5. ASSUME NEW t \in Task, Name(t) PROVE TypeOK'
  <2>1. names' \in [Id -> Task \cup {None}] BY <1>5, NameSteps
  <2> QED BY <1>5, <2>1 DEF Name, TypeOK
<1>6. ASSUME NEW i \in Id, Change(i) PROVE TypeOK'
  BY <1>6 DEF Change, TypeOK
<1>7. ASSUME NEW i \in Id, SendCancel(i) PROVE TypeOK'
  <2>1. names[i] \in Task \cup {None} BY DEF TypeOK
  <2>2. inbox' \subseteq Message BY <1>b, <1>3, <1>7, <2>1 DEF SendCancel
  <2> QED BY <1>7, <2>2 DEF SendCancel, TypeOK
<1>8. ASSUME NEW i \in Id, NEW kind \in {"info", "offer"}, Info(kind, i)
      PROVE  TypeOK'
  <2>1. names[i] \in Task \cup {None} /\ infos[i] \in 0 .. MaxInfo
    BY DEF TypeOK
  <2>2. inbox' \subseteq Message BY <1>3, <1>8, <2>1 DEF Info
  <2>3. infos' \in [Id -> 0 .. MaxInfo] BY <1>b, <1>8, <2>1 DEF Info, TypeOK
  <2> QED BY <1>8, <2>2, <2>3 DEF Info, TypeOK
<1>9. ASSUME NEW m \in inbox, Process(m) PROVE TypeOK'
  <2>1. /\ inbox' \subseteq Message
        /\ UNCHANGED <<epoch, names, changed, canceled, infos>>
    BY <1>9, ProcessCases DEF TypeOK
  <2>2. connState' \in {"connecting", "up", "lost", "oldTask", "notTask"}
    BY <1>9, ProcessCases DEF TypeOK, Created, Found, Kept, Hit, Panics
  <2>3. list' \in [Id -> Object \cup {Cancel, None}]
    BY <1>9, ProcessCases, ProcessSteps DEF TypeOK, Found, Kept, Panics
  <2>4. objs' \in [Object -> TaskObject \cup {None}]
    BY <1>9, ProcessCases, ProcessSteps DEF TypeOK, Kept, Panics
  <2>5. subscribed' \in BOOLEAN
    BY <1>9
    DEF Process, ProcessInfo, ProcessCancel, ProcessSubscribed, TypeOK
  <2> QED BY <2>1, <2>2, <2>3, <2>4, <2>5 DEF TypeOK
<1>10. CASE Disconnected \/ \E o \in Object : Refused(o)
  BY <1>10, CancelSteps DEF Disconnected, Refused, TypeOK
<1>11. CASE UNCHANGED vars BY <1>11 DEF vars, service, TypeOK
<1> QED
  BY <1>1, <1>2, <1>4, <1>5, <1>6, <1>7, <1>8, <1>9, <1>10, <1>11 DEF Next

LEMMA SentStep == IInv /\ [Next]_vars => Sent'
<1> SUFFICES ASSUME IInv, [Next]_vars PROVE Sent'
  OBVIOUS
<1> USE DEF IInv, Sent, IsInfo
<1>1. CASE Connect
  BY <1>1, BoundsAssumption DEF Connect, TypeOK
<1>2. CASE Break \/ AnswerSubscribe
  BY <1>2 DEF Break, AnswerSubscribe, Receive
<1>3. ASSUME NEW t \in Task, Name(t) PROVE Sent'
  BY <1>3 DEF Name
<1>4. ASSUME NEW i \in Id, Change(i) \/ SendCancel(i) PROVE Sent'
  BY <1>4 DEF Change, SendCancel, Receive
<1>5. ASSUME NEW i \in Id, NEW kind \in {"info", "offer"}, Info(kind, i)
      PROVE  Sent'
  BY <1>5 DEF Info, Receive, Used, TypeOK
<1>6. ASSUME NEW m \in inbox, Process(m) PROVE Sent'
  BY <1>6, ProcessCases DEF Created, Found, Kept, Hit, Panics
<1>7. CASE Disconnected \/ \E o \in Object : Refused(o)
  BY <1>7 DEF Disconnected, Refused
<1>8. CASE UNCHANGED vars BY <1>8 DEF vars
<1> QED BY <1>1, <1>2, <1>3, <1>4, <1>5, <1>6, <1>7, <1>8 DEF Next

-----------------------------------------------------------------------------
(* The list.                                                               *)

LEMMA ListedStep == IInv /\ [Next]_vars => Listed' /\ Reachable'
<1> SUFFICES ASSUME IInv, [Next]_vars PROVE Listed' /\ Reachable'
  OBVIOUS
<1>t. /\ list \in [Id -> Object \cup {Cancel, None}]
      /\ None \notin Object /\ Cancel \notin Object /\ Cancel # None
      /\ \A o \in Object : Made(o) => objs[o].id \in Id
  BY NoneAssumption DEF IInv, TypeOK, TaskObject, Made
<1> USE DEF IInv, Listed, Reachable, Live, Made
<1>1. CASE UNCHANGED <<list, objs>> BY <1>1
<1>2. CASE Disconnected BY <1>t, <1>2, CancelSteps DEF Disconnected
<1>3. ASSUME NEW u \in Object, Refused(u) PROVE Listed' /\ Reachable'
  <2>1. UNCHANGED list BY <1>3 DEF Refused
  <2> QED BY <1>3, <2>1, CancelSteps
<1>4. ASSUME NEW m \in inbox, Process(m) PROVE Listed' /\ Reachable'
  <2>m. m.id \in Id BY DEF TypeOK, Message
  <2>1. ASSUME NEW o \in Object, Created(m, o) PROVE Listed' /\ Reachable'
    <3>1. /\ list[m.id] \in {None, Cancel}
          /\ list' = [list EXCEPT ![m.id] = IF list[m.id] = None THEN o
                                            ELSE None]
      BY <2>1 DEF Created
    <3> QED BY <1>t, <2>m, <2>1, <3>1, ProcessSteps
  <2>2. CASE Found(m)
    <3>1. UNCHANGED list BY <2>2 DEF Found
    <3> QED BY <1>t, <2>m, <2>2, <3>1, ProcessSteps
  <2>3. CASE Kept(m) BY <1>t, <2>m, <2>3 DEF Kept
  <2>4. CASE Hit(m)
    <3>1. list' = [list EXCEPT ![m.id] = None] BY <2>4 DEF Hit
    <3> QED BY <1>t, <2>m, <2>4, <3>1, ProcessSteps
  <2>5. CASE Panics(m) BY <1>1, <2>5 DEF Panics
  <2> QED BY <1>1, <1>4, <2>1, <2>2, <2>3, <2>4, <2>5, ProcessCases
<1>5. CASE UNCHANGED vars BY <1>1, <1>5 DEF vars
<1> QED BY <1>1, <1>2, <1>3, <1>4, <1>5, ServiceSteps DEF Next

-----------------------------------------------------------------------------
(* The first connection.                                                   *)

\* What a message that is received or taken out does to those of an id.
LEMMA ReceiveSteps ==
  ASSUME NEW kind, NEW i, NEW n, NEW t, Receive(kind, i, n, t)
  PROVE  \E x : /\ inbox' = inbox \cup {x}
                /\ x.kind = kind /\ x.id = i /\ x.task = t
                /\ \A j : CancelsOf(j)' = IF kind = "cancel" /\ j = i
                                            THEN CancelsOf(j) \cup {x}
                                            ELSE CancelsOf(j)
                /\ \A j : InfosOf(j)' = IF kind \in {"info", "offer"} /\ j = i
                                          THEN InfosOf(j) \cup {x}
                                          ELSE InfosOf(j)
<1> DEFINE x == [kind |-> kind, epoch |-> epoch, id |-> i, nth |-> n,
                 task |-> t]
<1>1. inbox' = inbox \cup {x} /\ x.kind = kind /\ x.id = i /\ x.task = t
  BY DEF Receive
<1> HIDE DEF x
<1> QED BY <1>1 DEF CancelsOf, InfosOf, IsInfo

LEMMA TakenOut ==
  ASSUME NEW m \in inbox, inbox' = inbox \ {m}
  PROVE  /\ \A j : CancelsOf(j)' = CancelsOf(j) \ {m}
         /\ \A j : InfosOf(j)' = InfosOf(j) \ {m}
         /\ m.kind = "cancel" => m \in CancelsOf(m.id)
         /\ IsInfo(m) => m \in InfosOf(m.id)
         /\ \A j : j # m.id \/ m.kind # "cancel" =>
              CancelsOf(j)' = CancelsOf(j)
         /\ \A j : j # m.id \/ ~IsInfo(m) => InfosOf(j)' = InfosOf(j)
BY DEF CancelsOf, InfosOf, IsInfo

LEMMA OfFirstStep == IInv /\ [Next]_vars => OfFirst'
<1> SUFFICES ASSUME IInv, [Next]_vars PROVE OfFirst'
  OBVIOUS
<1>t. /\ epoch \in Nat /\ None \notin Task /\ None \notin Object
      /\ None # Cancel /\ Cancel \notin Object
      /\ \A m \in inbox : m.id \in Id
      /\ \A o \in Object : Made(o) => objs[o].id \in Id /\ objs[o].task \in Task
      /\ list \in [Id -> Object \cup {Cancel, None}]
  BY NoneAssumption, BoundsAssumption
  DEF IInv, TypeOK, Message, TaskObject, Made
<1>c. OfFirst BY DEF IInv
<1>1. CASE UNCHANGED vars
  BY <1>c, <1>1 DEF vars, service, OfFirst, Made, CancelsOf
<1>2. CASE Connect
  BY <1>c, <1>t, <1>2 DEF Connect, OfFirst, Made, CancelsOf
<1>3. CASE Break
  BY <1>c, <1>3 DEF Break, service, OfFirst, Made, CancelsOf
<1>4. CASE AnswerSubscribe
  <2>1. epoch # 0 BY <1>4 DEF AnswerSubscribe, IInv, Sent
  <2>2. PICK x : /\ inbox' = inbox \cup {x} /\ x.kind = "subscribed"
                 /\ \A j : CancelsOf(j)' = CancelsOf(j)
    BY <1>4, ReceiveSteps DEF AnswerSubscribe
  <2>3. ~IsInfo(x) BY <2>2 DEF IsInfo
  <2> QED
    BY <1>c, <1>4, <2>1, <2>2, <2>3
    DEF AnswerSubscribe, service, OfFirst, Made
<1>5. ASSUME NEW t \in Task, Name(t) PROVE OfFirst'
  <2>1. /\ \A i \in Id : names[i] # None => names'[i] = names[i]
        /\ UNCHANGED <<connState, epoch, canceled, inbox, list, objs>>
        /\ epoch # 0
    BY <1>5, NameSteps DEF Name, IInv, Sent
  <2>2. \A m \in inbox : IsInfo(m) => m.task \in Task BY DEF IInv, Sent
  <2> QED BY <1>c, <1>t, <2>1, <2>2 DEF OfFirst, Made, CancelsOf
<1>6. ASSUME NEW i \in Id, Change(i) PROVE OfFirst'
  BY <1>c, <1>6 DEF Change, OfFirst, Made, CancelsOf
<1>7. ASSUME NEW i \in Id, SendCancel(i) PROVE OfFirst'
  <2>1. epoch # 0 /\ i \notin canceled BY <1>7 DEF SendCancel, IInv, Sent
  <2>2. PICK x : /\ inbox' = inbox \cup {x} /\ x.kind = "cancel"
                 /\ \A j : CancelsOf(j)' = IF j = i THEN CancelsOf(j) \cup {x}
                                                    ELSE CancelsOf(j)
    BY <1>7, ReceiveSteps DEF SendCancel
  <2>3. ~IsInfo(x) BY <2>2 DEF IsInfo
  <2>4. /\ UNCHANGED <<connState, epoch, names, list, objs>>
        /\ canceled' = canceled \cup {i}
    BY <1>7 DEF SendCancel
  <2>5. epoch = 1 => CancelsOf(i) = {} /\ list[i] # Cancel
    BY <1>c, <2>1 DEF OfFirst
  <2> QED BY <1>c, <2>1, <2>2, <2>3, <2>4, <2>5 DEF OfFirst, Made
<1>8. ASSUME NEW i \in Id, NEW kind \in {"info", "offer"}, Info(kind, i)
      PROVE  OfFirst'
  <2>1. epoch # 0 BY <1>8 DEF Info, IInv, Sent
  <2>2. PICK x : /\ inbox' = inbox \cup {x} /\ x.id = i /\ x.task = names[i]
                 /\ \A j : CancelsOf(j)' = CancelsOf(j)
    BY <1>8, ReceiveSteps DEF Info
  <2>3. UNCHANGED <<connState, epoch, names, canceled, list, objs>>
    BY <1>8 DEF Info
  <2> QED BY <1>c, <2>1, <2>2, <2>3 DEF OfFirst, Made
<1>9. ASSUME NEW m \in inbox, Process(m) PROVE OfFirst'
  <2>0. epoch # 0 BY <1>c DEF OfFirst
  <2>1. /\ inbox' = inbox \ {m} /\ UNCHANGED <<epoch, names, canceled>>
        /\ TypeOK /\ Sent /\ Listed /\ m.id \in Id
    BY <1>9, <1>t, ProcessCases DEF IInv
  <2>2. /\ \A j : CancelsOf(j)' \subseteq CancelsOf(j)
        /\ m.kind = "cancel" => m \in CancelsOf(m.id)
        /\ m.kind = "cancel" =>
             \A j : CancelsOf(j)' = CancelsOf(j) \ {m}
    BY <2>1, TakenOut
  <2>3. ASSUME epoch = 1
        PROVE  /\ \A o \in Object : Made(o)' => objs'[o].task = names[objs'[o].id]
               /\ \A i \in Id : list'[i] = Cancel =>
                    i \in canceled /\ CancelsOf(i)' = {}
    <3>1. /\ \A o \in Object : Made(o) => objs[o].task = names[objs[o].id]
          /\ \A i \in Id : list[i] = Cancel => i \in canceled /\ CancelsOf(i) = {}
          /\ IsInfo(m) => m.task = names[m.id]
          /\ CancelsOf(m.id) # {} => m.id \in canceled
          /\ \A u, v \in CancelsOf(m.id) : u = v
      BY <1>c, <2>1, <2>3 DEF OfFirst
    <3>2. ASSUME NEW o \in Object, Created(m, o)
          PROVE  /\ \A u \in Object : Made(u)' =>
                      objs'[u].task = names[objs'[u].id]
                 /\ \A i \in Id : list'[i] = Cancel => list[i] = Cancel
      <4>1. /\ list' = [list EXCEPT ![m.id] = IF list[m.id] = None THEN o
                                              ELSE None]
            /\ IsInfo(m)
        BY <3>2 DEF Created
      <4>2. /\ objs'[o].task = m.task /\ objs'[o].id = m.id
            /\ \A u \in Object \ {o} : objs'[u] = objs[u]
        BY <2>1, <3>2, ProcessSteps
      <4> QED BY <1>t, <2>1, <3>1, <4>1, <4>2 DEF Made
    <3>3. CASE Found(m)
      <4>1. UNCHANGED list /\ IsInfo(m) BY <3>3 DEF Found
      <4>2. /\ objs'[list[m.id]].task = m.task
            /\ objs'[list[m.id]].id = m.id
            /\ \A u \in Object \ {list[m.id]} : objs'[u] = objs[u]
        BY <2>1, <3>3, ProcessSteps
      <4> QED BY <2>2, <3>1, <4>1, <4>2 DEF Made
    <3>4. CASE Kept(m)
      <4>1. /\ list' = [list EXCEPT ![m.id] = Cancel] /\ UNCHANGED objs
            /\ m.kind = "cancel"
        BY <3>4 DEF Kept
      <4>2. CancelsOf(m.id)' = {} BY <2>2, <3>1, <4>1
      <4> QED BY <1>t, <2>1, <2>2, <3>1, <4>1, <4>2 DEF Made
    <3>5. CASE Hit(m)
      <4>1. list' = [list EXCEPT ![m.id] = None] BY <3>5 DEF Hit
      <4>2. /\ objs[list[m.id]] # None /\ objs[list[m.id]].id = m.id
            /\ objs'[list[m.id]].task = objs[list[m.id]].task
            /\ objs'[list[m.id]].id = m.id
            /\ \A u \in Object \ {list[m.id]} : objs'[u] = objs[u]
            /\ list[m.id] \in Object
        BY <2>1, <3>5, ProcessSteps
      <4> QED BY <1>t, <2>1, <2>2, <3>1, <4>1, <4>2 DEF Made
    <3>6. CASE UNCHANGED <<list, objs>>
      BY <2>2, <3>1, <3>6 DEF Made
    <3> QED
      BY <1>9, <2>1, <2>2, <3>1, <3>2, <3>3, <3>4, <3>5, <3>6, ProcessCases
      DEF Panics
  <2>4. epoch' # 0 BY <2>0, <2>1
  <2>5. ASSUME epoch = 1
        PROVE  /\ \A x \in inbox' : IsInfo(x) => x.task = names[x.id]
               /\ \A i \in Id : CancelsOf(i)' # {} => i \in canceled
               /\ \A i \in Id : \A u, v \in CancelsOf(i)' : u = v
    BY <1>c, <2>1, <2>2, <2>5 DEF OfFirst
  <2> QED BY <2>1, <2>3, <2>4, <2>5 DEF OfFirst
<1>10. CASE Disconnected \/ \E o \in Object : Refused(o)
  <2>1. /\ UNCHANGED <<epoch, names, canceled, inbox>>
        /\ \A o \in Object : /\ Made(o)' <=> Made(o)
                             /\ Made(o) => /\ objs'[o].task = objs[o].task
                                           /\ objs'[o].id = objs[o].id
    BY <1>10, CancelSteps DEF IInv
  <2>2. epoch # 0 BY <1>10, <1>c DEF OfFirst, Disconnected, Refused
  <2>3. \A i \in Id : list'[i] = Cancel => list[i] = Cancel
    BY <1>10, <1>t DEF Disconnected, Refused
  <2> QED BY <1>c, <2>1, <2>2, <2>3 DEF OfFirst, CancelsOf
<1> QED
  BY <1>1, <1>2, <1>3, <1>4, <1>5, <1>6, <1>7, <1>8, <1>9, <1>10 DEF Next

LEMMA FirstStep == IInv /\ [Next]_vars => FirstConnection'
<1> SUFFICES ASSUME IInv, [Next]_vars PROVE FirstConnection'
  OBVIOUS
<1>c. CanceledByService /\ NoPanicFirst BY DEF IInv, FirstConnection
<1>t. /\ TypeOK /\ Sent /\ Listed /\ OfFirst
      /\ epoch \in Nat /\ canceled \subseteq changed
      /\ \A o \in Object : Made(o) => objs[o] \in TaskObject
  BY BoundsAssumption DEF IInv, TypeOK, Made
<1> USE DEF FirstConnection, CanceledByService, NoPanicFirst, Alive
<1>1. CASE Connect
  <2>1. epoch' = 1 => epoch = 0 BY <1>t, <1>1 DEF Connect
  <2> QED BY <1>t, <1>1, <2>1 DEF Connect, OfFirst, Made
<1>2. CASE Break \/ Disconnected
  BY <1>c, <1>2 DEF Break, Disconnected
<1>3. ASSUME UNCHANGED <<connState, epoch, objs>>, changed \subseteq changed'
      PROVE  FirstConnection'
  BY <1>c, <1>3 DEF Made
<1>4. CASE AnswerSubscribe BY <1>3, <1>4 DEF AnswerSubscribe, service
<1>5. ASSUME NEW t \in Task, Name(t) PROVE FirstConnection'
  BY <1>3, <1>5 DEF Name
<1>6. ASSUME NEW i \in Id,
             \/ Change(i) \/ SendCancel(i)
             \/ \E kind \in {"info", "offer"} : Info(kind, i)
      PROVE  FirstConnection'
  BY <1>3, <1>6 DEF Change, SendCancel, Info
<1>7. ASSUME NEW m \in inbox, Process(m) PROVE FirstConnection'
  <2>1. /\ UNCHANGED <<epoch, names, changed>> /\ m.id \in Id
        /\ epoch # 0
    BY <1>t, <1>7, ProcessCases DEF OfFirst, Message
  <2>2. ASSUME epoch = 1
        PROVE  /\ \A o \in Object : Made(o) => objs[o].task = names[objs[o].id]
               /\ IsInfo(m) => m.task = names[m.id]
               /\ list[m.id] = Cancel => m.id \in changed /\ m.kind # "cancel"
               /\ m.kind = "cancel" => m.id \in changed
    <3>1. m.kind = "cancel" => CancelsOf(m.id) # {} BY DEF CancelsOf
    <3> QED BY <1>t, <2>1, <2>2, <3>1 DEF OfFirst
  <2>3. ASSUME NEW o \in Object, Created(m, o) PROVE FirstConnection'
    <3>1. UNCHANGED connState BY <2>3 DEF Created
    <3>2. /\ objs'[o].canceled <=> list[m.id] = Cancel
          /\ objs'[o].id = m.id
          /\ \A u \in Object \ {o} : objs'[u] = objs[u]
      BY <1>t, <2>3, ProcessSteps
    <3> QED BY <1>c, <2>1, <2>2, <3>1, <3>2 DEF Made
  <2>4. CASE Found(m)
    <3>1. UNCHANGED connState BY <2>4 DEF Found
    <3>2. /\ list[m.id] \in Object /\ Made(list[m.id])
          /\ objs[list[m.id]].id = m.id
          /\ objs'[list[m.id]].id = m.id
          /\ objs'[list[m.id]].canceled <=> objs[list[m.id]].canceled
          /\ objs[list[m.id]].orphan => objs'[list[m.id]].orphan
          /\ \A u \in Object \ {list[m.id]} : objs'[u] = objs[u]
      BY <1>t, <2>4, ProcessSteps DEF Made
    <3> QED BY <1>c, <2>1, <3>1, <3>2 DEF Made
  <2>5. CASE Kept(m)
    <3>1. UNCHANGED <<connState, objs>> BY <2>5 DEF Kept
    <3> QED BY <1>3, <2>1, <3>1
  <2>6. CASE Hit(m)
    <3>1. UNCHANGED connState /\ m.kind = "cancel" BY <2>6 DEF Hit
    <3>2. /\ objs'[list[m.id]].id = m.id
          /\ \A u \in Object \ {list[m.id]} : objs'[u] = objs[u]
      BY <1>t, <2>6, ProcessSteps
    <3> QED BY <1>c, <2>1, <2>2, <3>1, <3>2 DEF Made
  <2>7. CASE Panics(m)
    <3>1. epoch = 1 => ~Panics(m)
      BY <1>t, <2>1, <2>2 DEF Panics, Listed
    <3>2. epoch' > 1 BY <1>t, <2>1, <2>7, <3>1
    <3> QED BY <1>t, <2>1, <3>2
  <2> QED BY <1>3, <1>t, <1>7, <2>1, <2>3, <2>4, <2>5, <2>6, <2>7, ProcessCases
<1>8. ASSUME NEW u \in Object, Refused(u) PROVE FirstConnection'
  <2>1. /\ objs' = [objs EXCEPT ![u].canceled = TRUE]
        /\ UNCHANGED <<connState, epoch, changed>>
        /\ objs[u] \in TaskObject
        /\ objs[u].orphan \/ objs[u].id \in changed
    BY <1>t, <1>8 DEF Refused, service, Made
  <2>2. /\ objs'[u].orphan = objs[u].orphan /\ objs'[u].id = objs[u].id
        /\ \A o \in Object \ {u} : objs'[o] = objs[o]
    BY <1>t, <2>1 DEF TypeOK, TaskObject
  <2> QED BY <1>c, <2>1, <2>2 DEF Made
<1>9. CASE UNCHANGED vars BY <1>3, <1>9 DEF vars, service
<1> QED BY <1>1, <1>2, <1>4, <1>5, <1>6, <1>7, <1>8, <1>9 DEF Next

-----------------------------------------------------------------------------
(* One info per id.                                                        *)

LEMMA OneInfoStep == IInv /\ [Next]_vars => OneInfo'
<1> SUFFICES ASSUME IInv, [Next]_vars, (epoch = 1)', MaxInfo = 1
             PROVE  OneInfo'
  BY DEF OneInfo
<1>t. /\ TypeOK /\ Sent /\ Listed /\ OfFirst /\ OneInfo
      /\ epoch \in Nat /\ canceled \subseteq changed
      /\ infos \in [Id -> 0 .. MaxInfo]
      /\ \A o \in Object : Made(o) => objs[o].id \in Id
      /\ \A m \in inbox : m.id \in Id
      /\ list \in [Id -> Object \cup {Cancel, None}]
  BY BoundsAssumption DEF IInv, TypeOK, Made, Message, TaskObject
<1>n. None \notin Object /\ Cancel \notin Object /\ None # Cancel
  BY NoneAssumption
<1>1. CASE Connect
  <2>1. epoch = 0 BY <1>t, <1>1 DEF Connect
  <2> QED BY <1>t, <1>1, <2>1 DEF Connect, OfFirst, OneInfo, Made, InfosOf
<1>2. CASE Break
  BY <1>t, <1>2 DEF Break, service, OneInfo, Made, InfosOf
<1>3. CASE Disconnected \/ \E o \in Object : Refused(o)
  <2>1. /\ UNCHANGED <<epoch, canceled, infos, inbox>>
        /\ \A o \in Object : /\ Made(o)' <=> Made(o)
                             /\ Made(o) => objs'[o].id = objs[o].id
    BY <1>t, <1>3, CancelSteps
  <2>2. connState' = "up" => connState = "up" /\ UNCHANGED list
    BY <1>3 DEF Disconnected, Refused
  <2> QED BY <1>t, <2>1, <2>2 DEF OneInfo, InfosOf, CancelsOf
<1>4. ASSUME UNCHANGED <<connState, epoch, canceled, infos, inbox, list, objs>>
      PROVE  OneInfo'
  BY <1>t, <1>4 DEF OneInfo, Made, InfosOf, CancelsOf
<1>5. CASE AnswerSubscribe
  <2>1. /\ \A j : CancelsOf(j)' = CancelsOf(j)
        /\ \A j : InfosOf(j)' = InfosOf(j)
    BY <1>5, ReceiveSteps DEF AnswerSubscribe
  <2> QED BY <1>t, <1>5, <2>1 DEF AnswerSubscribe, service, OneInfo, Made
<1>6. ASSUME NEW t \in Task, Name(t) PROVE OneInfo'
  BY <1>4, <1>6 DEF Name
<1>7. ASSUME NEW i \in Id, Change(i) PROVE OneInfo'
  BY <1>4, <1>7 DEF Change
<1>8. ASSUME NEW i \in Id, SendCancel(i) PROVE OneInfo'
  <2>1. /\ \A j : CancelsOf(j) \subseteq CancelsOf(j)'
        /\ CancelsOf(i)' # {}
        /\ \A j : InfosOf(j)' = InfosOf(j)
    BY <1>8, ReceiveSteps DEF SendCancel
  <2>2. /\ canceled' = canceled \cup {i}
        /\ UNCHANGED <<connState, epoch, infos, list, objs>>
    BY <1>8 DEF SendCancel
  <2> QED BY <1>t, <2>1, <2>2 DEF OneInfo, Made
<1>9. ASSUME NEW i \in Id, NEW kind \in {"info", "offer"}, Info(kind, i)
      PROVE  OneInfo'
  <2>1. PICK x : /\ \A j : CancelsOf(j)' = CancelsOf(j)
                 /\ \A j : InfosOf(j)' = IF j = i THEN InfosOf(j) \cup {x}
                                                  ELSE InfosOf(j)
    BY <1>9, ReceiveSteps DEF Info
  <2>0. infos[i] = 0
    <3>1. infos[i] \in 0 .. MaxInfo BY <1>t
    <3>2. infos[i] < MaxInfo BY <1>9 DEF Info
    <3> QED BY <3>1, <3>2
  <2>2. /\ infos[i] = 0 /\ infos' = [infos EXCEPT ![i] = 1]
        /\ UNCHANGED <<connState, epoch, canceled, list, objs>>
    BY <1>t, <1>9, <2>0 DEF Info
  <2>3. InfosOf(i) = {} /\ \A o \in Object : Made(o) => objs[o].id # i
    BY <1>t, <2>2 DEF OneInfo
  <2> QED BY <1>t, <2>1, <2>2, <2>3 DEF OneInfo, Made
<1>10. ASSUME NEW m \in inbox, Process(m) PROVE OneInfo'
  <2>1. /\ inbox' = inbox \ {m} /\ UNCHANGED <<epoch, canceled, infos>>
        /\ m.id \in Id
    BY <1>t, <1>10, ProcessCases
  <2>2. /\ \A j : InfosOf(j)' = InfosOf(j) \ {m}
        /\ IsInfo(m) => m \in InfosOf(m.id)
        /\ \A j : j # m.id \/ m.kind # "cancel" => CancelsOf(j)' = CancelsOf(j)
    BY <2>1, TakenOut
  <2>3. ASSUME \A o \in Object : /\ Made(o)' <=> Made(o)
                                 /\ Made(o) => objs'[o].id = objs[o].id,
               connState' = "up" =>
                 /\ connState = "up"
                 /\ \A j \in canceled :
                      \/ CancelsOf(j)' # {} \/ list'[j] = Cancel
                      \/ \E o \in Object : Made(o) /\ objs[o].id = j
        PROVE  OneInfo'
    BY <1>t, <2>1, <2>2, <2>3 DEF OneInfo
  <2>4. ASSUME NEW o \in Object, Created(m, o) PROVE OneInfo'
    <3>1. /\ UNCHANGED connState /\ IsInfo(m) /\ m.kind # "cancel"
          /\ list' = [list EXCEPT ![m.id] = IF list[m.id] = None THEN o
                                            ELSE None]
      BY <2>4 DEF Created, IsInfo
    <3>2. /\ Made(o)' /\ ~Made(o) /\ objs'[o].id = m.id
          /\ \A u \in Object \ {o} : objs'[u] = objs[u]
      BY <1>t, <2>4, ProcessSteps DEF Made
    <3>3. InfosOf(m.id)' = {} /\ infos[m.id] = 1
      BY <1>t, <2>1, <2>2, <3>1 DEF OneInfo
    <3>4. /\ \A j \in Id : InfosOf(j)' # {} => infos'[j] = 1
          /\ \A j \in Id : \A u, v \in InfosOf(j)' : u = v
      BY <1>t, <2>1, <2>2 DEF OneInfo
    <3>5. ASSUME NEW u \in Object, Made(u)'
          PROVE  infos'[objs'[u].id] = 1 /\ InfosOf(objs[u].id)' = {}
      <4>1. CASE u = o
        BY <2>1, <3>2, <3>3, <4>1 DEF InfosOf
      <4>2. CASE u # o
        <5>1. Made(u) /\ objs'[u] = objs[u] BY <3>2, <3>5, <4>2 DEF Made
        <5>2. infos[objs[u].id] = 1 /\ InfosOf(objs[u].id) = {}
          BY <1>t, <2>1, <5>1 DEF OneInfo
        <5> QED BY <2>1, <5>1, <5>2 DEF InfosOf
      <4> QED BY <4>1, <4>2
    <3>6. ASSUME connState' = "up", NEW j \in canceled
          PROVE  \/ CancelsOf(j)' # {} \/ list'[j] = Cancel
                 \/ \E u \in Object : Made(u)' /\ objs'[u].id = j
      <4>1. CASE j = m.id BY <3>2, <4>1
      <4>2. CASE j # m.id
        <5>1. CancelsOf(j)' = CancelsOf(j) /\ list'[j] = list[j]
          BY <1>t, <2>2, <3>1, <4>2 DEF TypeOK
        <5>2. \A u \in Object : Made(u) => Made(u)' /\ objs'[u].id = objs[u].id
          BY <3>2 DEF Made
        <5>3. \/ CancelsOf(j) # {} \/ list[j] = Cancel
              \/ \E u \in Object : Made(u) /\ objs[u].id = j
          BY <1>t, <2>1, <3>1, <3>6 DEF OneInfo
        <5> QED BY <5>1, <5>2, <5>3
      <4> QED BY <4>1, <4>2
    <3>7. UNCHANGED canceled BY <2>1
    <3> QED BY <3>4, <3>5, <3>6, <3>7 DEF OneInfo
  <2>5. CASE Found(m)
    <3>1. UNCHANGED <<connState, list>> /\ m.kind # "cancel"
      BY <2>5 DEF Found, IsInfo
    <3>2. \A o \in Object : /\ Made(o)' <=> Made(o)
                            /\ Made(o) => objs'[o].id = objs[o].id
      BY <1>t, <2>5, ProcessSteps DEF Made
    <3> QED BY <1>t, <2>1, <2>2, <2>3, <3>1, <3>2 DEF OneInfo
  <2>6. CASE Kept(m)
    <3>1. /\ UNCHANGED <<connState, objs>>
          /\ list' = [list EXCEPT ![m.id] = Cancel]
      BY <2>6 DEF Kept
    <3>2. list'[m.id] = Cancel /\ \A j \in Id : j # m.id => list'[j] = list[j]
      BY <1>t, <2>1, <3>1
    <3>3. canceled \subseteq Id BY <1>t DEF TypeOK
    <3>4. ASSUME connState = "up", NEW j \in canceled
          PROVE  \/ CancelsOf(j)' # {} \/ list'[j] = Cancel
                 \/ \E o \in Object : Made(o) /\ objs[o].id = j
      BY <1>t, <2>1, <2>2, <3>2, <3>3, <3>4 DEF OneInfo
    <3>5. \A o \in Object : /\ Made(o)' <=> Made(o)
                            /\ Made(o) => objs'[o].id = objs[o].id
      BY <3>1 DEF Made
    <3> QED BY <2>3, <3>1, <3>4, <3>5
  <2>7. CASE Hit(m)
    <3>1. /\ UNCHANGED connState /\ list[m.id] \in Object
          /\ list' = [list EXCEPT ![m.id] = None]
      BY <2>7 DEF Hit
    <3>2. /\ \A o \in Object : /\ Made(o)' <=> Made(o)
                               /\ Made(o) => objs'[o].id = objs[o].id
          /\ Made(list[m.id]) /\ objs[list[m.id]].id = m.id
      BY <1>t, <2>7, ProcessSteps DEF Made
    <3>3. canceled \subseteq Id BY <1>t DEF TypeOK
    <3>4. ASSUME connState = "up", NEW j \in canceled
          PROVE  \/ CancelsOf(j)' # {} \/ list'[j] = Cancel
                 \/ \E o \in Object : Made(o) /\ objs[o].id = j
      <4>1. CASE j = m.id BY <3>1, <3>2, <4>1
      <4>2. CASE j # m.id
        BY <1>t, <2>1, <2>2, <3>1, <3>3, <3>4, <4>2 DEF OneInfo
      <4> QED BY <4>1, <4>2
    <3> QED BY <2>3, <3>1, <3>2, <3>4
  <2>8. CASE Panics(m)
    <3>1. connState' # "up" /\ UNCHANGED objs BY <2>8 DEF Panics
    <3> QED BY <2>3, <3>1 DEF Made
  <2>9. CASE m.kind = "subscribed" /\ UNCHANGED <<list, objs, connState>>
    BY <1>t, <2>1, <2>2, <2>3, <2>9 DEF OneInfo, Made
  <2> QED BY <1>t, <1>10, <2>4, <2>5, <2>6, <2>7, <2>8, <2>9, ProcessCases
<1>11. CASE UNCHANGED vars BY <1>4, <1>11 DEF vars, service
<1> QED
  BY <1>1, <1>2, <1>3, <1>5, <1>6, <1>7, <1>8, <1>9, <1>10, <1>11 DEF Next

LEMMA ArrivesStep == IInv /\ [Next]_vars => CancelArrives'
<1> SUFFICES ASSUME IInv, [Next]_vars, (epoch = 1)', connState' = "up",
                    MaxInfo = 1
             PROVE  (\A o \in Object :
                       Live(o) /\ objs[o].id \in canceled =>
                         CancelsOf(objs[o].id) # {})'
  BY DEF CancelArrives, CancelsOf
<1>t. /\ TypeOK /\ Sent /\ Listed /\ Reachable /\ OfFirst /\ OneInfo
      /\ epoch \in Nat
      /\ \A o \in Object : Made(o) => objs[o].id \in Id
      /\ \A m \in inbox : m.id \in Id
  BY BoundsAssumption DEF IInv, TypeOK, Made, Message, TaskObject
<1>n. None \notin Object /\ Cancel \notin Object /\ None # Cancel
  BY NoneAssumption
<1>c. epoch = 1 /\ connState = "up" =>
        \A o \in Object : Live(o) /\ objs[o].id \in canceled =>
                            CancelsOf(objs[o].id) # {}
  BY DEF IInv, CancelArrives, CancelsOf
<1> USE DEF Live
<1>1. CASE Connect
  <2>1. epoch = 0 BY <1>t, <1>1 DEF Connect
  <2> QED BY <1>t, <1>1, <2>1 DEF Connect, OfFirst, Made
<1>2. CASE Break \/ Disconnected BY <1>2 DEF Break, Disconnected
<1>3. ASSUME UNCHANGED <<connState, epoch, canceled, objs>>,
             \A j \in Id : CancelsOf(j) \subseteq CancelsOf(j)'
      PROVE  (\A o \in Object : Live(o) /\ objs[o].id \in canceled =>
                                  CancelsOf(objs[o].id) # {})'
  BY <1>c, <1>t, <1>3 DEF Made, CancelsOf
<1>4. CASE AnswerSubscribe
  <2>1. \A j : CancelsOf(j)' = CancelsOf(j)
    BY <1>4, ReceiveSteps DEF AnswerSubscribe
  <2> QED BY <1>3, <1>4, <2>1 DEF AnswerSubscribe, service
<1>5. ASSUME NEW t \in Task, Name(t)
      PROVE  (\A o \in Object : Live(o) /\ objs[o].id \in canceled =>
                                  CancelsOf(objs[o].id) # {})'
  BY <1>3, <1>5 DEF Name, CancelsOf
<1>6. ASSUME NEW i \in Id, Change(i)
      PROVE  (\A o \in Object : Live(o) /\ objs[o].id \in canceled =>
                                  CancelsOf(objs[o].id) # {})'
  BY <1>3, <1>6 DEF Change, CancelsOf
<1>7. ASSUME NEW i \in Id, SendCancel(i)
      PROVE  (\A o \in Object : Live(o) /\ objs[o].id \in canceled =>
                                  CancelsOf(objs[o].id) # {})'
  <2>1. PICK x : /\ inbox' = inbox \cup {x}
                 /\ x.kind = "cancel" /\ x.id = i
    BY <1>7, ReceiveSteps DEF SendCancel
  <2>2. /\ canceled' = canceled \cup {i}
        /\ UNCHANGED <<connState, epoch, objs>>
    BY <1>7 DEF SendCancel
  <2> QED BY <1>c, <2>1, <2>2 DEF Made, CancelsOf
<1>8. ASSUME NEW i \in Id, NEW kind \in {"info", "offer"}, Info(kind, i)
      PROVE  (\A o \in Object : Live(o) /\ objs[o].id \in canceled =>
                                  CancelsOf(objs[o].id) # {})'
  <2>1. \A j : CancelsOf(j)' = CancelsOf(j) BY <1>8, ReceiveSteps DEF Info
  <2> QED BY <1>3, <1>8, <2>1 DEF Info
<1>9. ASSUME NEW m \in inbox, Process(m)
      PROVE  (\A o \in Object : Live(o) /\ objs[o].id \in canceled =>
                                  CancelsOf(objs[o].id) # {})'
  <2>1. /\ inbox' = inbox \ {m} /\ UNCHANGED <<epoch, canceled>> /\ m.id \in Id
        /\ epoch = 1
    BY <1>t, <1>9, ProcessCases
  <2>2. /\ \A j : j # m.id \/ m.kind # "cancel" => CancelsOf(j)' = CancelsOf(j)
        /\ IsInfo(m) => m \in InfosOf(m.id)
    BY <2>1, TakenOut
  <2> SUFFICES ASSUME NEW u \in Object, Live(u)', objs'[u].id \in canceled
               PROVE  CancelsOf(objs[u].id)' # {}
    BY <2>1
  <2>3. ASSUME NEW o \in Object, Created(m, o)
        PROVE  CancelsOf(objs[u].id)' # {}
    <3>1. UNCHANGED connState /\ IsInfo(m) /\ m.kind # "cancel"
      BY <2>3 DEF Created, IsInfo
    <3>2. /\ objs'[o].id = m.id
          /\ objs'[o].canceled <=> list[m.id] = Cancel
          /\ \A v \in Object \ {o} : objs'[v] = objs[v]
      BY <1>t, <2>3, ProcessSteps
    <3>3. CASE u = o
      <4>1. m.id \in canceled /\ list[m.id] # Cancel
        BY <3>2, <3>3
      <4>2. \A v \in Object : Made(v) => objs[v].id # m.id
        BY <1>t, <2>1, <2>2, <3>1 DEF OneInfo
      <4>3. CancelsOf(m.id) # {}
        BY <1>t, <2>1, <3>1, <4>1, <4>2 DEF OneInfo
      <4> QED BY <2>2, <3>1, <3>2, <3>3, <4>3 DEF CancelsOf
    <3>4. CASE u # o
      <4>1. objs'[u] = objs[u] /\ Live(u) BY <3>2, <3>4 DEF Made
      <4> QED BY <1>c, <2>1, <2>2, <3>1, <4>1 DEF CancelsOf
    <3> QED BY <3>3, <3>4
  <2>4. CASE Found(m)
    <3>1. UNCHANGED connState /\ m.kind # "cancel" BY <2>4 DEF Found, IsInfo
    <3>2. Live(u) /\ objs'[u].id = objs[u].id
      BY <1>t, <2>4, ProcessSteps DEF Made
    <3> QED BY <1>c, <2>1, <2>2, <3>1, <3>2 DEF CancelsOf
  <2>5. CASE Kept(m)
    <3>1. UNCHANGED <<connState, objs>> /\ list[m.id] = None BY <2>5 DEF Kept
    <3>2. Live(u) /\ objs'[u] = objs[u] BY <3>1 DEF Made
    <3>3. objs[u].id # m.id BY <1>n, <1>t, <3>1, <3>2 DEF Reachable
    <3> QED BY <1>c, <2>1, <2>2, <3>1, <3>2, <3>3 DEF CancelsOf
  <2>6. CASE Hit(m)
    <3>1. UNCHANGED connState /\ list[m.id] \in Object BY <2>6 DEF Hit
    <3>2. /\ objs'[list[m.id]].canceled
          /\ \A v \in Object \ {list[m.id]} : objs'[v] = objs[v]
      BY <1>t, <2>6, ProcessSteps
    <3>3. u # list[m.id] /\ objs'[u] = objs[u] /\ Live(u)
      BY <3>2 DEF Made
    <3>4. objs[u].id # m.id BY <1>t, <3>3 DEF Reachable
    <3> QED BY <1>c, <2>1, <2>2, <3>1, <3>3, <3>4 DEF CancelsOf
  <2>7. CASE Panics(m) BY <2>7 DEF Panics
  <2>8. CASE m.kind = "subscribed" /\ UNCHANGED <<list, objs, connState>>
    <3>1. Live(u) /\ objs'[u] = objs[u] BY <2>8 DEF Made
    <3> QED BY <1>c, <2>1, <2>2, <2>8, <3>1 DEF CancelsOf
  <2> QED BY <1>t, <1>9, <2>3, <2>4, <2>5, <2>6, <2>7, <2>8, ProcessCases
<1>10. ASSUME NEW v \in Object, Refused(v)
       PROVE  (\A o \in Object : Live(o) /\ objs[o].id \in canceled =>
                                   CancelsOf(objs[o].id) # {})'
  <2>1. /\ UNCHANGED <<epoch, canceled, inbox>>
        /\ \A o \in Object :
             /\ Made(o)' <=> Made(o)
             /\ Made(o) => /\ objs'[o].id = objs[o].id
                           /\ objs[o].canceled => objs'[o].canceled
    BY <1>t, <1>10, CancelSteps
  <2>2. UNCHANGED connState BY <1>10 DEF Refused
  <2> QED BY <1>c, <2>1, <2>2 DEF CancelsOf
<1>11. CASE UNCHANGED vars
  BY <1>3, <1>11 DEF vars, service, CancelsOf
<1> QED BY <1>1, <1>2, <1>4, <1>5, <1>6, <1>7, <1>8, <1>9, <1>10, <1>11 DEF Next

-----------------------------------------------------------------------------
(* The theorems.                                                           *)

\* Every step of the client and the service keeps the invariant.
THEOREM Invariance == Spec => []IInv
<1>1. Init => IInv BY InitIInv
<1>2. IInv /\ [Next]_vars => IInv'
  BY TypeStep, NamedStep, SentStep, ListedStep, OfFirstStep, FirstStep,
     OneInfoStep, ArrivesStep DEF IInv
<1> QED BY <1>1, <1>2, PTL DEF Spec

\* connDisconnected and processTaskCancel find every object that is not
\* canceled in client.task.list.
THEOREM NoneOutOfReach == Spec => []Reachable
<1>1. IInv => Reachable BY DEF IInv
<1> QED BY <1>1, Invariance, PTL

\* Until the client reconnects, taskNew and processTaskCancel do not panic, and
\* what they cancel the service has canceled.
THEOREM FirstIsTrue == Spec => []FirstConnection
<1>1. IInv => FirstConnection BY DEF IInv
<1> QED BY <1>1, Invariance, PTL

\* With one info per state id, whatever the order of the goroutines of connRead
\* and taskNew, no cancel of the first connection is lost.
THEOREM NoCancelLost == Spec => []CancelArrives
<1>1. IInv => CancelArrives BY DEF IInv
<1> QED BY <1>1, Invariance, PTL

=============================================================================
