---------------------------- MODULE ClientProofs ----------------------------
(***************************************************************************)
(* Proofs about Client: for any calls, starts and connections.             *)
(***************************************************************************)
EXTENDS Client, TLAPS

LEMMA Bounds ==
  /\ MaxStarts \in Nat /\ MaxConn \in Nat /\ 0 < MaxConn
  /\ Gen \subseteq Nat /\ Conn \subseteq Nat
  /\ 0 \notin Gen /\ 0 \notin Conn
BY BoundsAssumption DEF Gen, Conn

LEMMA Kinds ==
  /\ \A o \in Getter : o \notin Asker /\ o \notin Setter
  /\ \A o \in Asker : o \notin Setter
  /\ Call = Getter \cup Asker \cup Setter
BY CallsAssumption DEF Call

LEMMA IdleType == Idle \in Operation
BY BoundsAssumption DEF Idle, Operation

LEMMA InitIInv == Init => IInv
<1> SUFFICES ASSUME Init PROVE IInv
  OBVIOUS
<1> USE Bounds DEF Init
<1>1. TypeOK
  <2>1. op \in [Call -> Operation] BY IdleType
  <2>2. /\ 0 \in 0 .. MaxStarts /\ 0 \in 0 .. MaxConn
    OBVIOUS
  <2> QED BY <2>1, <2>2 DEF TypeOK
<1>2. InOrder
  <2> USE DEF InOrder, Gen
  <2> QED OBVIOUS
<1>3. Connected BY DEF Connected
<1>4. Kept BY DEF Kept
<1>5. ASSUME NEW o \in Call PROVE CallOf(o) /\ Effects(o)
  <2>1. CallOf(o) BY DEF CallOf, Timely, Idle, OnWay
  <2>2. Effects(o) BY DEF Effects, Answers, Idle
  <2> QED BY <2>1, <2>2
<1>6. OnTask BY DEF OnTask, OnWay, Idle, Call
<1>7. NilMeansStopped BY DEF NilMeansStopped, Idle, Call
<1> QED BY <1>1, <1>2, <1>3, <1>4, <1>5, <1>6, <1>7 DEF IInv

-----------------------------------------------------------------------------
(* What a step does to the variables.                                      *)

\* The steps of a call, which leave the worker and the connections alone.
Acts(o) == \/ o \in Getter /\ GetQueue(o)
           \/ o \in Asker /\ Ask(o)
           \/ o \in Setter /\ Set(o)
           \/ Proceed(o) \/ Answer(o) \/ \E k \in Conn : Handle(o, k)

LEMMA ActsOnOne ==
  ASSUME TypeOK, NEW o \in Call, Acts(o)
  PROVE  /\ UNCHANGED <<starts, dials>>
         /\ \A p \in Call \ {o} : op'[p] = op[p]
<1> USE DEF TypeOK, End, Step, Again
<1>1. CASE GetQueue(o) BY <1>1 DEF GetQueue
<1>2. CASE Ask(o) BY <1>2 DEF Ask
<1>3. CASE Set(o) BY <1>3 DEF Set
<1>4. CASE Look(o) BY <1>4 DEF Look
<1>5. CASE Pick(o) BY <1>5 DEF Pick
<1>6. CASE GiveUp(o) BY <1>6 DEF GiveUp
<1>7. CASE Send(o) BY <1>7 DEF Send
<1>8. CASE Released(o) BY <1>8 DEF Released
<1>9. CASE Fill(o) BY <1>9 DEF Fill
<1>10. CASE QueueCtl(o) BY <1>10 DEF QueueCtl
<1>11. CASE QueueCtx(o) BY <1>11 DEF QueueCtx
<1>12. ASSUME NEW k \in Conn, Handle(o, k)
       PROVE  /\ UNCHANGED <<starts, dials>>
              /\ \A p \in Call \ {o} : op'[p] = op[p]
  BY <1>12 DEF Handle
<1>13. CASE Answer(o) BY <1>13 DEF Answer
<1>14. CASE AskRefused(o) BY <1>14 DEF AskRefused
<1>15. CASE Panicked(o) BY <1>15 DEF Panicked
<1>16. CASE SetRefused(o) BY <1>16 DEF SetRefused
<1> QED
  BY <1>1, <1>2, <1>3, <1>4, <1>5, <1>6, <1>7, <1>8, <1>9, <1>10, <1>11,
     <1>12, <1>13, <1>14, <1>15, <1>16
  DEF Acts, Proceed

\* All other steps leave the calls and the queue alone.
Rest == \/ \E g \in Gen : Start(g) \/ Worker(g) \/ Dialer(g) \/ WorkerPanic(g)
        \/ StartEnd \/ Stop \/ UNCHANGED vars
        \/ \E k \in Conn : Break(k) \/ Finish(k) \/ Release(k)

LEMMA NextSplits ==
  [Next]_vars => Rest \/ \E o \in Call : Acts(o)
BY Kinds DEF Next, Rest, Acts

LEMMA RestKeeps ==
  Rest => /\ UNCHANGED <<op, queue>>
          /\ \/ UNCHANGED task
             \/ task' = IF task = None THEN None
                        ELSE [task EXCEPT !.canceled = TRUE]
BY DEF Rest, vars, starts, dials, Start, Worker, WorkerClose, WorkerFinished,
       StopEnd, Dialer, Dial, DialStop, Redial, DialerEnd, Disconnected,
       WorkerPanic, StartEnd, Stop, Break, Finish, Release

-----------------------------------------------------------------------------
(* Starts and connections.                                                 *)

\* The newest start alone may have a connWorker that goes on.
LEMMA Newest ==
  ASSUME TypeOK, InOrder, NEW g \in Gen, dialer[g] \in {"dial", "offer"}
  PROVE  g = ctl /\ g \notin finished
<1>1. g \notin finished BY DEF InOrder
<1>2. ~(g < ctl) /\ ~(g > ctl) BY <1>1 DEF InOrder
<1> QED BY <1>1, <1>2, Bounds DEF TypeOK, Gen

LEMMA OrderStep ==
  ASSUME TypeOK, InOrder, [Next]_vars
  PROVE  InOrder'
<1> USE DEF starts, dials
<1>1. ASSUME NEW g \in Gen, Start(g) PROVE InOrder'
  <2>1. /\ worker = 0 /\ ~starting /\ worker' = 0 /\ starting' = TRUE
        /\ dialer[g] = "none" /\ ctl' = g /\ open' = open \cup {g}
        /\ dialer'[g] = "dial" /\ \A h \in Gen \ {g} : dialer'[h] = dialer[h]
        /\ \A h \in Gen : h < g => dialer[h] # "none"
        /\ UNCHANGED <<canceled, finished>>
    BY <1>1 DEF Start, TypeOK
  <2>n. ctl \in Nat /\ g \in Nat BY Bounds DEF TypeOK
  <2>2. g > ctl /\ \A h \in Gen : h < g => h <= ctl
    BY <2>1, <2>n, Bounds DEF InOrder
  <2>3. \A h \in Gen : h <= ctl => h \in finished
    BY <2>1, <2>2 DEF InOrder, TypeOK, Gen
  <2>4. g \notin finished /\ g \notin canceled
    BY <2>2, Bounds DEF InOrder, TypeOK, Gen
  <2>5. \A h \in Gen : h <= g <=> h <= ctl \/ h = g
    BY <2>2, <2>n, Bounds
  <2>6. \A h \in Gen : h > g <=> ~(h <= ctl \/ h = g)
    BY <2>2, <2>n, Bounds
  <2>7. \A h \in Gen : h < g => h <= ctl /\ h # g
    BY <2>2, <2>n, Bounds
  <2>8. \A h \in Gen : ~(h <= ctl) <=> h > ctl
    BY <2>n, Bounds
  <2>9. \A h \in Gen : /\ dialer'[h] = "none" <=> h > g
                       /\ h < g => h \in finished
                       /\ h <= g <=> h \in open' \cup canceled
                       /\ h \in finished =>
                            dialer'[h] = "gone" /\ h \notin open'
    BY <2>1, <2>3, <2>4, <2>5, <2>6, <2>7, <2>8 DEF InOrder
  <2> QED BY <2>1, <2>9 DEF InOrder
<1>2. CASE StartEnd
  BY <1>2 DEF StartEnd, InOrder, TypeOK
<1>3. CASE Stop
  <2>1. worker \in Gen /\ worker = ctl
    BY <1>3, Bounds DEF Stop, InOrder, TypeOK, Gen
  <2>2. worker \in open \cup canceled BY <2>1, Bounds DEF InOrder, Gen
  <2> QED BY <1>3, <2>2 DEF Stop, InOrder
<1>4. ASSUME NEW g \in Gen, WorkerPanic(g) PROVE InOrder'
  <2>1. g \in open \cup canceled
    BY <1>4, Newest, Bounds DEF WorkerPanic, InOrder, Gen
  <2> QED BY <1>4, <2>1 DEF WorkerPanic, InOrder
<1>5. ASSUME NEW g \in Gen, WorkerClose(g) PROVE InOrder'
  BY <1>5 DEF WorkerClose, InOrder
<1>6. ASSUME NEW g \in Gen, WorkerFinished(g) PROVE InOrder'
  BY <1>6 DEF WorkerFinished, InOrder
<1>7. ASSUME NEW g \in Gen, StopEnd(g) PROVE InOrder'
  BY <1>7 DEF StopEnd, InOrder
<1>8. ASSUME NEW g \in Gen, Dialer(g) PROVE InOrder'
  <2>1. /\ UNCHANGED <<worker, ctl, starting, open, canceled, finished>>
        /\ dialer[g] \in {"dial", "offer"} /\ dialer'[g] # "none"
        /\ \A h \in Gen \ {g} : dialer'[h] = dialer[h]
    BY <1>8 DEF Dialer, Dial, DialStop, Redial, DialerEnd, TypeOK
  <2>2. g \notin finished BY <2>1, Newest
  <2> QED BY <2>1, <2>2 DEF InOrder
<1>9. ASSUME NEW k \in Conn, Break(k) \/ Finish(k) \/ Release(k) PROVE InOrder'
  BY <1>9 DEF Break, Finish, Release, InOrder
<1>10. CASE UNCHANGED vars BY <1>10 DEF vars, InOrder
<1>11. ASSUME NEW o \in Call, Acts(o) PROVE InOrder'
  BY <1>11, ActsOnOne DEF InOrder
<1> QED
  BY NextSplits, <1>1, <1>2, <1>3, <1>4, <1>5, <1>6, <1>7, <1>8, <1>9, <1>10,
     <1>11
  DEF Rest, Worker

LEMMA ConnectedStep ==
  ASSUME TypeOK, InOrder, Connected, [Next]_vars
  PROVE  Connected'
<1> USE DEF starts, dials
<1>1. ASSUME NEW g \in Gen, Start(g) PROVE Connected'
  <2>1. /\ dialer[g] = "none" /\ dialer'[g] = "dial"
        /\ \A h \in Gen \ {g} : dialer'[h] = dialer[h]
        /\ UNCHANGED <<conn, link, cleaned>>
    BY <1>1 DEF Start, TypeOK
  <2> QED BY <2>1 DEF Connected
<1>2. ASSUME NEW g \in Gen, Dial(g) PROVE Connected'
  <2>1. PICK k \in Conn :
          /\ link[k] = "none" /\ \A j \in Conn : j < k => link[j] # "none"
          /\ link' = [link EXCEPT ![k] = "up"]
          /\ conn' = [conn EXCEPT ![g] = k]
    BY <1>2 DEF Dial
  <2>2. /\ dialer[g] = "dial" /\ dialer'[g] = "offer" /\ conn'[g] = k
        /\ link'[k] = "up" /\ \A j \in Conn \ {k} : link'[j] = link[j]
        /\ \A h \in Gen \ {g} : dialer'[h] = dialer[h] /\ conn'[h] = conn[h]
        /\ UNCHANGED cleaned
    BY <1>2, <2>1 DEF Dial, TypeOK
  <2>3. \A h \in Gen : dialer[h] # "offer" BY <2>2, Newest
  <2>4. \A j \in Conn : link[j] # "none" => j < k
    BY <2>1, Bounds DEF Connected, Conn
  <2>5. \A j, h \in Conn : j < h /\ link'[h] # "none" => link'[j] # "none"
    BY <2>1, <2>2, <2>4 DEF Connected
  <2>6. \A j \in Conn : link'[j] # "none" => j <= k
    BY <2>2, <2>4, Bounds DEF Conn
  <2>7. \A j \in Conn : link[j] # "none" => j \in cleaned
    BY <2>3 DEF Connected
  <2> QED BY <2>2, <2>3, <2>5, <2>6, <2>7 DEF Connected
<1>3. ASSUME NEW g \in Gen, DialStop(g) PROVE Connected'
  BY <1>3 DEF DialStop, Connected, TypeOK
<1>4. ASSUME NEW g \in Gen, Redial(g) \/ DialerEnd(g) PROVE Connected'
  <2>1. /\ dialer[g] = "offer" /\ dialer'[g] # "offer"
        /\ \A h \in Gen \ {g} : dialer'[h] = dialer[h]
        /\ cleaned' = cleaned \cup {conn[g]} /\ UNCHANGED conn
        /\ \A k \in Conn : link'[k] = "none" <=> link[k] = "none"
    BY <1>4 DEF Redial, DialerEnd, Disconnected, TypeOK
  <2> QED BY <2>1 DEF Connected
<1>5. ASSUME NEW k \in Conn, Break(k) \/ Finish(k) \/ Release(k)
      PROVE  Connected'
  <2>1. /\ UNCHANGED <<dialer, conn, cleaned>>
        /\ \A j \in Conn : link'[j] = "none" <=> link[j] = "none"
    BY <1>5 DEF Break, Finish, Release, TypeOK
  <2> QED BY <2>1 DEF Connected
<1>6. ASSUME UNCHANGED dials PROVE Connected'
  BY <1>6 DEF Connected
<1>7. ASSUME NEW g \in Gen, Worker(g) \/ WorkerPanic(g) PROVE Connected'
  BY <1>6, <1>7 DEF Worker, WorkerClose, WorkerFinished, StopEnd, WorkerPanic
<1>8. CASE StartEnd \/ Stop \/ UNCHANGED vars
  BY <1>6, <1>8 DEF StartEnd, Stop, vars
<1>9. ASSUME NEW o \in Call, Acts(o) PROVE Connected'
  BY <1>6, <1>9, ActsOnOne
<1> QED
  BY NextSplits, <1>1, <1>2, <1>3, <1>4, <1>5, <1>7, <1>8, <1>9
  DEF Rest, Dialer

-----------------------------------------------------------------------------
(* Calls.                                                                  *)

LEMMA RestOfCalls ==
  ASSUME TypeOK, InOrder, Rest
  PROVE  /\ ctl <= ctl'
         /\ starting' => starting \/ ctl < ctl'
         /\ \A k \in Conn : /\ link[k] # "none" => link'[k] # "none"
                            /\ link[k] = "finished" => link'[k] = "finished"
         /\ \A o \in Asker \cup Setter :
              op[o].pc # "end" /\ op[o].ctx \notin finished =>
                op[o].ctx \notin finished'
<1> USE DEF starts, dials
<1>n. ctl \in Nat BY Bounds DEF TypeOK
<1>1. ASSUME NEW g \in Gen, Start(g)
      PROVE  /\ ctl < ctl' /\ UNCHANGED <<link, finished>>
             /\ ctl' \in Nat
  <2>1. g > ctl BY <1>1 DEF Start, InOrder
  <2> QED BY <1>1, <1>n, <2>1, Bounds DEF Start
<1>2. ASSUME NEW g \in Gen, WorkerFinished(g)
      PROVE  /\ UNCHANGED <<ctl, starting, link>>
             /\ \A o \in Asker \cup Setter :
                  op[o].pc # "end" /\ op[o].ctx \notin finished =>
                    op[o].ctx \notin finished'
  BY <1>2 DEF WorkerFinished, Below
<1>3. ASSUME NEW g \in Gen, WorkerClose(g) \/ StopEnd(g) \/ WorkerPanic(g)
      PROVE  UNCHANGED <<ctl, starting, link, finished>>
  BY <1>3 DEF WorkerClose, StopEnd, WorkerPanic
<1>4. ASSUME NEW g \in Gen, Dialer(g)
      PROVE  /\ UNCHANGED <<ctl, starting, finished>>
             /\ \A k \in Conn : /\ link[k] # "none" => link'[k] # "none"
                                /\ link[k] = "finished" => link'[k] = "finished"
  BY <1>4 DEF Dialer, Dial, DialStop, Redial, DialerEnd, TypeOK
<1>5. ASSUME NEW j \in Conn, Break(j) \/ Finish(j) \/ Release(j)
      PROVE  /\ UNCHANGED <<ctl, starting, finished>>
             /\ \A k \in Conn : /\ link[k] # "none" => link'[k] # "none"
                                /\ link[k] = "finished" => link'[k] = "finished"
  BY <1>5 DEF Break, Finish, Release, TypeOK
<1>6. CASE StartEnd
  <2>1. UNCHANGED <<ctl, link, finished>> /\ ~starting' BY <1>6 DEF StartEnd
  <2> QED BY <1>n, <2>1
<1>7. CASE Stop \/ UNCHANGED vars
  <2>1. UNCHANGED <<ctl, starting, link, finished>> BY <1>7 DEF Stop, vars
  <2> QED BY <1>n, <2>1
<1> QED BY <1>n, <1>1, <1>2, <1>3, <1>4, <1>5, <1>6, <1>7 DEF Rest, Worker

\* What was in time stays so.
LEMMA TimelyStays ==
  ASSUME TypeOK, InOrder, [Next]_vars, NEW c, Timely(c),
         c.ctl \in Nat, c.ctx \in Nat
  PROVE  /\ Timely(c)'
         /\ ctl <= ctl'
<1>n. ctl \in Nat /\ ctl' \in Nat
  <2>1. UNCHANGED ctl \/ ctl' \in Gen
    <3>1. ASSUME NEW o \in Call, Acts(o) PROVE UNCHANGED ctl
      BY <3>1, ActsOnOne DEF starts
    <3>2. Rest => UNCHANGED ctl \/ ctl' \in Gen
      BY DEF Rest, starts, vars, Start, Worker, WorkerClose, WorkerFinished,
             StopEnd, Dialer, Dial, DialStop, Redial, DialerEnd, WorkerPanic,
             StartEnd, Stop, Break, Finish, Release
    <3> QED BY <3>1, <3>2, NextSplits
  <2>2. ctl \in 0 .. MaxStarts BY DEF TypeOK
  <2>3. ctl \in Nat BY <2>2, Bounds
  <2> QED BY <2>1, <2>3, Bounds
<1>1. ctl <= ctl' /\ (starting' => starting \/ ctl < ctl')
  <2>1. CASE Rest BY <2>1, RestOfCalls
  <2>2. CASE \E o \in Call : Acts(o)
    <3>1. UNCHANGED <<ctl, starting>> BY <2>2, ActsOnOne DEF starts
    <3> QED BY <1>n, <3>1
  <2> QED BY <2>1, <2>2, NextSplits
<1> QED BY <1>n, <1>1 DEF Timely

\* What is made of the fields of the client.
LEMMA MadeTimely ==
  ASSUME TypeOK, InOrder, NEW i \in Nat, i <= ctl
  PROVE  /\ worker <= ctl
         /\ worker = 0 \/ i <= worker
         /\ starting => worker = 0
BY Bounds DEF InOrder, TypeOK

LEMMA KeptStep ==
  ASSUME TypeOK, InOrder, Kept, OnTask, \A o \in Call : CallOf(o), [Next]_vars
  PROVE  Kept'
<1> USE Bounds
<1>1. ASSUME UNCHANGED queue, queue # None PROVE Timely(queue)'
  <2>1. PICK c : c = queue OBVIOUS
  <2>2. c.ctl \in Nat /\ c.ctx \in Nat BY <1>1, <2>1 DEF TypeOK, Object
  <2>3. Timely(c) BY <1>1, <2>1 DEF Kept
  <2>4. Timely(c)' BY <2>2, <2>3, TimelyStays
  <2>5. c = queue' BY <1>1, <2>1
  <2> QED BY <2>4, <2>5 DEF Timely
<1>2. ASSUME task # None, task' # None,
             task'.ctl = task.ctl /\ task'.ctx = task.ctx
      PROVE  Timely(task)'
  <2>1. PICK c : c = task OBVIOUS
  <2>2. c.ctl \in Nat /\ c.ctx \in Nat
    <3>1. c \in TaskObject BY <1>2, <2>1 DEF TypeOK
    <3>2. c.ctl \in 0 .. MaxStarts /\ c.ctx \in Gen BY <3>1 DEF TaskObject
    <3>3. c.ctl \in Nat BY <3>2
    <3>4. c.ctx \in Nat BY <3>2
    <3> QED BY <3>3, <3>4
  <2>3. Timely(c) BY <1>2, <2>1 DEF Kept
  <2>4. Timely(c)' BY <2>2, <2>3, TimelyStays
  <2> QED BY <1>2, <2>1, <2>4 DEF Timely
<1>3. CASE Rest
  <2>1. UNCHANGED queue BY <1>3, RestKeeps
  <2>2. task' # None =>
          task # None /\ task'.ctl = task.ctl /\ task'.ctx = task.ctx
    BY <1>3, RestKeeps DEF TypeOK, TaskObject
  <2> QED BY <1>1, <1>2, <2>1, <2>2 DEF Kept
<1>4. ASSUME NEW o \in Call, Acts(o) PROVE Kept'
  <2>1. UNCHANGED <<ctl, starting, worker>> BY <1>4, ActsOnOne DEF starts
  <2>2. CASE UNCHANGED <<queue, task>> BY <1>1, <1>2, <2>2 DEF Kept
  <2>3. CASE QueueCtx(o)
    <3>1. queue' = [ctl |-> op[o].ctl, ctx |-> worker] /\ UNCHANGED task
      BY <2>3 DEF QueueCtx
    <3>2. op[o].ctl \in Nat /\ op[o].ctl <= ctl
      BY DEF TypeOK, Operation, CallOf
    <3>3. Timely(queue)' BY <2>1, <3>1, <3>2, MadeTimely DEF Timely
    <3> QED BY <1>2, <3>1, <3>3 DEF Kept
  <2>4. CASE Fill(o) /\ task' # task
    <3>1. /\ UNCHANGED queue /\ task = None
          /\ task'.ctl = ctl /\ task'.ctx = worker
      BY <2>4 DEF Fill, TaskMade
    <3>2. ctl \in Nat /\ ctl <= ctl BY DEF TypeOK
    <3>3. Timely(task)' BY <2>1, <3>1, <3>2, MadeTimely DEF Timely
    <3> QED BY <1>1, <3>1, <3>3 DEF Kept
  <2>6. CASE SetRefused(o) /\ task' # task
    <3>1. /\ o \in Setter /\ op[o].pc = "fill" /\ UNCHANGED queue
          /\ task' = [task EXCEPT !.canceled = TRUE]
      BY <2>6 DEF SetRefused
    <3>2. task # None BY <3>1 DEF OnTask, OnWay
    <3>3. task \in TaskObject BY <3>2 DEF TypeOK
    <3>4. task'.ctl = task.ctl /\ task'.ctx = task.ctx
      BY <3>1, <3>3 DEF TaskObject
    <3> QED BY <1>1, <1>2, <3>1, <3>2, <3>4 DEF Kept
  <2>5. \/ UNCHANGED <<queue, task>>
        \/ QueueCtx(o)
        \/ Fill(o) /\ task' # task
        \/ SetRefused(o) /\ task' # task
    BY <1>4
    DEF Acts, Proceed, GetQueue, Ask, Set, Look, Pick, GiveUp, Send, Released,
        Fill, QueueCtl, Handle, Answer, AskRefused, Panicked, SetRefused
  <2> QED BY <2>2, <2>3, <2>4, <2>5, <2>6
<1> QED BY <1>3, <1>4, NextSplits

-----------------------------------------------------------------------------
(* Calls, and what they have done.                                         *)

LEMMA RestCall ==
  ASSUME TypeOK, InOrder, Rest, NEW o \in Call, CallOf(o), Effects(o)
  PROVE  CallOf(o)' /\ Effects(o)'
<1>1. op' = op BY RestKeeps
<1>2. PICK q \in Operation : q = op[o] BY DEF TypeOK
<1>3. q = op'[o] BY <1>1, <1>2
<1>4. q.ctl \in Nat /\ q.ctx \in Nat /\ q.via \in Nat
  BY Bounds DEF Operation
<1>5. [Next]_vars BY DEF Next, Rest
<1>6. /\ \A k \in Conn : /\ link[k] # "none" => link'[k] # "none"
                         /\ link[k] = "finished" => link'[k] = "finished"
      /\ o \notin Getter /\ q.pc # "end" /\ q.ctx \notin finished =>
           q.ctx \notin finished'
  BY <1>2, RestOfCalls, Kinds
<1>7. q.via # 0 => q.via \in Conn BY <1>4, Bounds DEF Operation, Conn
<1>8. CallOf(o)'
  <2>1. ctl <= ctl' /\ ctl \in Nat /\ ctl' \in Nat
    <3>1. ctl <= ctl' BY RestOfCalls
    <3> QED BY <3>1, RestOfCalls, Bounds DEF TypeOK, Rest, starts, dials, vars,
               Start, Worker, WorkerClose, WorkerFinished, StopEnd, Dialer,
               Dial, DialStop, Redial, DialerEnd, WorkerPanic, StartEnd, Stop,
               Break, Finish, Release
  <2>2. q.ctl <= ctl' BY <1>2, <1>4, <2>1 DEF CallOf
  <2>3. o \notin Getter => Timely(q)'
    BY <1>2, <1>4, <1>5, TimelyStays DEF CallOf
  <2>4. o \notin Getter => Timely(op[o])' BY <1>3, <2>3 DEF Timely
  <2> QED BY <1>2, <1>3, <1>6, <1>7, <2>2, <2>4 DEF CallOf, OnWay
<1>9. Effects(o)'
  <2>1. \A k \in q.sent : /\ link[k] # "none" => link'[k] # "none"
                          /\ link[k] = "finished" => link'[k] = "finished"
    BY <1>6 DEF Operation
  <2> QED BY <1>2, <1>3, <2>1 DEF Effects
<1> QED BY <1>8, <1>9

\* A step of another call.
LEMMA OtherCall ==
  ASSUME TypeOK, NEW p \in Call, NEW o \in Call \ {p}, Acts(p),
         CallOf(o), Effects(o)
  PROVE  CallOf(o)' /\ Effects(o)'
<1>1. /\ op'[o] = op[o]
      /\ UNCHANGED <<ctl, starting, finished, link>>
  BY ActsOnOne DEF starts, dials
<1>2. CallOf(o)' BY <1>1 DEF CallOf, Timely
<1>3. Effects(o)' BY <1>1 DEF Effects
<1> QED BY <1>2, <1>3

\* What End, Step and Again make of a call.
LEMMA MovesOf ==
  ASSUME op \in [Call -> Operation], NEW o \in Call
  PROVE  /\ \A res : End(o, res) =>
              /\ op'[o] = [op[o] EXCEPT !.pc = "end", !.result = res]
              /\ op'[o].pc = "end"
         /\ \A from, to : Step(o, from, to) =>
              /\ op[o].pc = from
              /\ op'[o] = [op[o] EXCEPT !.pc = to]
              /\ op'[o].pc = to
         /\ Again(o) =>
              op'[o] = [op[o] EXCEPT
                         !.pc = IF o \in Getter THEN "look" ELSE "pick"]
<1>t. op[o] \in Operation OBVIOUS
<1>1. ASSUME NEW res, End(o, res)
      PROVE  /\ op'[o] = [op[o] EXCEPT !.pc = "end", !.result = res]
             /\ op'[o].pc = "end"
  <2>1. op'[o] = [op[o] EXCEPT !.pc = "end", !.result = res] BY <1>1 DEF End
  <2> QED BY <1>t, <2>1 DEF Operation
<1>2. ASSUME NEW from, NEW to, Step(o, from, to)
      PROVE  /\ op[o].pc = from
             /\ op'[o] = [op[o] EXCEPT !.pc = to]
             /\ op'[o].pc = to
  <2>1. op[o].pc = from /\ op'[o] = [op[o] EXCEPT !.pc = to] BY <1>2 DEF Step
  <2> QED BY <1>t, <2>1 DEF Operation
<1>3. Again(o) =>
        op'[o] = [op[o] EXCEPT !.pc = IF o \in Getter THEN "look" ELSE "pick"]
  BY DEF Again
<1> QED BY <1>1, <1>2, <1>3

\* A step of a call itself: one step per action, with what it makes of op[o].
LEMMA OwnCall ==
  ASSUME TypeOK, InOrder, Connected, Kept, NEW o \in Call, Acts(o),
         CallOf(o), Effects(o)
  PROVE  CallOf(o)' /\ Effects(o)'
<1> DEFINE q == op[o]
           r == op'[o]
<1> USE DEF Answers
<1>u. UNCHANGED <<ctl, starting, finished, link>>
  BY ActsOnOne DEF starts, dials
<1>t. /\ q \in Operation /\ op \in [Call -> Operation]
      /\ ctl \in Nat /\ q.via \in Nat /\ q.ctl \in Nat /\ q.ctx \in Nat
      /\ q.sent \subseteq Conn /\ q.done \subseteq Conn
  BY Bounds DEF TypeOK, Operation
\* Most steps leave alone where the request has been written.
<1>a. ASSUME r.via = q.via, r.sent = q.sent, r.done = q.done,
             r.pc \in {"look", "pick", "send"} =>
               /\ \A k \in q.sent : link[k] = "finished"
               /\ o \in Setter => q.sent = {},
             r.pc = "wait" => q.via \in q.sent,
             r.pc \in {"fill", "keep"} => q.via \in q.done,
             r.result \in Answers /\ o \notin Getter => q.via \in q.done
      PROVE  Effects(o)'
  BY <1>a, <1>u DEF Effects
\* A context that is kept is still in time.
<1>c. ASSUME r.ctl = q.ctl, r.ctx = q.ctx
      PROVE  o \notin Getter => Timely(op[o])'
  BY <1>c, <1>u DEF CallOf, Timely
<1>1. CASE o \in Getter /\ GetQueue(o)
  <2>1. q = Idle BY <1>1 DEF GetQueue, CallOf
  <2>2. \/ r = [Idle EXCEPT !.pc = "end", !.result = "value"]
        \/ r = [Idle EXCEPT !.pc = "look"]
    BY <1>1, <1>t, <2>1 DEF GetQueue, End, Step
  <2>3. CallOf(o)' BY <1>1, <1>t, <1>u, <2>1, <2>2 DEF CallOf, Idle, OnWay
  <2>4. Effects(o)' BY <1>1, <1>a, <2>1, <2>2 DEF Idle
  <2> QED BY <2>3, <2>4
<1>2. CASE o \in Asker /\ Ask(o)
  <2>1. q = Idle /\ queue # None BY <1>2 DEF Ask, CallOf
  <2>2. \/ r = [Idle EXCEPT !.pc = "end", !.result = "panic"]
        \/ /\ queue.ctx # 0
           /\ r = [Idle EXCEPT !.pc = "pick", !.ctl = queue.ctl,
                               !.ctx = queue.ctx]
    BY <1>2, <1>t, <2>1 DEF Ask, End
  <2>3. Timely(queue) BY <2>1 DEF Kept
  <2>5. CallOf(o)'
    <3>1. CASE r = [Idle EXCEPT !.pc = "end", !.result = "panic"]
      <4>1. r.ctl = 0 /\ r.ctx = 0 BY <3>1 DEF Idle
      <4> QED BY <1>t, <1>u, <3>1, <4>1 DEF CallOf, Timely, Idle, OnWay
    <3>2. CASE /\ queue.ctx # 0
               /\ r = [Idle EXCEPT !.pc = "pick", !.ctl = queue.ctl,
                                   !.ctx = queue.ctx]
      <4>1. r.ctl = queue.ctl /\ r.ctx = queue.ctx BY <3>2 DEF Idle
      <4> QED BY <1>u, <2>3, <3>2, <4>1 DEF CallOf, Timely, Idle, OnWay
    <3> QED BY <2>2, <3>1, <3>2
  <2>6. Effects(o)'
    <3>1. CASE r = [Idle EXCEPT !.pc = "end", !.result = "panic"]
      BY <1>a, <2>1, <3>1 DEF Idle
    <3>2. CASE r = [Idle EXCEPT !.pc = "pick", !.ctl = queue.ctl,
                                !.ctx = queue.ctx]
      BY <1>a, <2>1, <3>2 DEF Idle
    <3> QED BY <2>2, <3>1, <3>2
  <2> QED BY <2>5, <2>6
<1>3. CASE o \in Setter /\ Set(o)
  <2>1. q = Idle /\ task # None BY <1>3 DEF Set, CallOf
  <2>2. r = [Idle EXCEPT !.pc = "pick", !.ctl = task.ctl, !.ctx = task.ctx,
                         !.late = task.canceled]
    BY <1>3, <1>t, <2>1 DEF Set
  <2>3. Timely(task) BY <2>1 DEF Kept
  <2>4. task.ctx # 0 BY <2>1, Bounds DEF TypeOK, TaskObject
  <2>5. CallOf(o)'
    <3>1. r.ctl <= ctl /\ Timely(op[o])'
      BY <1>u, <2>2, <2>3 DEF Timely, Idle
    <3> QED BY <1>u, <2>2, <2>4, <3>1 DEF CallOf, Idle, OnWay
  <2>6. Effects(o)' BY <1>a, <2>1, <2>2 DEF Idle
  <2> QED BY <2>5, <2>6
<1>4. CASE Look(o)
  <2>1. q.pc = "look" /\ r = [q EXCEPT !.pc = "pick", !.ctl = ctl] /\ ctl <= ctl
    BY <1>4, <1>t, Bounds DEF Look, TypeOK
  <2>2. /\ o \in Getter /\ o \notin Setter /\ q.result = "none"
        /\ \A k \in q.sent : link[k] = "finished"
    BY <2>1, Kinds DEF CallOf, Effects
  <2>3. CallOf(o)' BY <1>t, <1>u, <2>1, <2>2 DEF CallOf, OnWay, Operation
  <2>4. Effects(o)' BY <1>a, <1>t, <2>1, <2>2 DEF Operation
  <2> QED BY <2>3, <2>4
<1>5. CASE Pick(o) /\ r.pc = "send"
  <2>1. /\ q.pc = "pick" /\ q.ctl \in open /\ dialer[q.ctl] = "offer"
        /\ r = [q EXCEPT !.pc = "send", !.via = conn[q.ctl]]
    <3>1. q.pc = "pick" BY <1>5 DEF Pick
    <3>2. CASE q.ctl \notin open
      <4>1. End(o, "nil") BY <1>5, <3>2 DEF Pick
      <4>2. r.pc = "end" BY <1>t, <4>1, MovesOf DEF Operation
      <4> QED BY <1>5, <4>2
    <3>3. CASE q.ctl \in open
      BY <1>5, <1>t, <3>1, <3>3 DEF Pick
    <3> QED BY <3>2, <3>3
  <2>2. q.ctl \in Gen BY <2>1 DEF TypeOK
  <2>3. q.ctl = ctl /\ q.ctl \notin finished BY <2>1, <2>2, Newest
  <2>4. /\ conn[q.ctl] \in Conn /\ link[conn[q.ctl]] # "none"
        /\ \A k \in Conn : link[k] # "none" => k <= conn[q.ctl]
    BY <2>1, <2>2 DEF Connected
  <2>5. q.result = "none" BY <2>1 DEF CallOf
  <2>6. o \notin Getter => q.ctx = q.ctl
    BY <1>t, <2>1, <2>3 DEF CallOf, Timely, OnWay
  <2>7. CallOf(o)'
    BY <1>c, <1>t, <1>u, <2>1, <2>3, <2>4, <2>5, <2>6, Bounds
    DEF CallOf, OnWay, Operation
  <2>8. /\ r.via = conn[q.ctl] /\ r.sent = q.sent /\ r.done = q.done
        /\ r.result = "none"
    BY <1>t, <2>1, <2>5 DEF Operation
  <2>9. \A k \in q.sent : link[k] = "finished" /\ k <= conn[q.ctl]
    BY <1>t, <2>1, <2>4 DEF Effects
  <2>10. o \in Setter => q.sent = {} BY <2>1 DEF Effects
  <2>11. Effects(o)'
    BY <1>5, <1>u, <2>8, <2>9, <2>10 DEF Effects
  <2> QED BY <2>7, <2>11
<1>6. CASE \/ Pick(o) /\ r.pc # "send"
           \/ GiveUp(o)
           \/ Released(o) /\ o \in Setter
  <2>1. /\ q.pc \in {"pick", "wait"}
        /\ r = [q EXCEPT !.pc = "end", !.result = "nil"]
    <3>1. q.pc \in {"pick", "wait"} BY <1>6 DEF Pick, GiveUp, Released
    <3>2. CASE End(o, "nil") BY <1>t, <3>1, <3>2, MovesOf
    <3>3. CASE ~End(o, "nil")
      <4>1. Pick(o) /\ op' = [op EXCEPT ![o].pc = "send", ![o].via = conn[q.ctl]]
        BY <1>6, <3>3 DEF Pick, GiveUp, Released
      <4>2. r.pc = "send" BY <1>t, <4>1 DEF Operation
      <4> QED BY <1>6, <4>2, <3>3 DEF GiveUp, Released
    <3> QED BY <3>2, <3>3
  <2>2. CallOf(o)' BY <1>c, <1>t, <1>u, <2>1 DEF CallOf, OnWay, Operation
  <2>3. Effects(o)' BY <1>a, <1>t, <2>1 DEF Operation
  <2> QED BY <2>2, <2>3
<1>7. CASE \/ Send(o) /\ r.pc # "wait"
           \/ Released(o) /\ o \notin Setter
  <2>1. /\ \/ q.pc = "send"
           \/ /\ q.pc = "wait" /\ link[q.via] = "finished"
              /\ o \notin Setter
        /\ r = [q EXCEPT !.pc = IF o \in Getter THEN "look" ELSE "pick"]
    <3>1. CASE Again(o)
      BY <1>7, <1>t, <3>1, MovesOf DEF Send, Released
    <3>2. CASE ~Again(o)
      <4>1. op' = [op EXCEPT ![o].pc = "wait", ![o].sent = @ \cup {q.via}]
        BY <1>7, <3>2 DEF Send, Released
      <4>2. r.pc = "wait" BY <1>t, <4>1 DEF Operation
      <4> QED BY <1>7, <3>2, <4>2 DEF Released
    <3> QED BY <3>1, <3>2
  <2>2. /\ q.result = "none"
        /\ \A k \in q.sent : link[k] = "finished"
        /\ o \in Setter => q.sent = {}
    BY <2>1 DEF CallOf, Effects
  <2>3. CallOf(o)'
    BY <1>c, <1>t, <1>u, <2>1, <2>2 DEF CallOf, OnWay, Operation
  <2>4. Effects(o)' BY <1>a, <1>t, <2>1, <2>2 DEF Operation
  <2> QED BY <2>3, <2>4
<1>8. CASE Send(o) /\ r.pc = "wait"
  <2>1. /\ q.pc = "send" /\ link[q.via] # "finished"
        /\ r = [q EXCEPT !.pc = "wait", !.sent = @ \cup {q.via}]
    <3>1. ~Again(o)
      <4> SUFFICES ASSUME Again(o) PROVE FALSE OBVIOUS
      <4>1. r = [q EXCEPT !.pc = IF o \in Getter THEN "look" ELSE "pick"]
        BY <1>t, MovesOf
      <4> QED BY <1>8, <1>t, <4>1 DEF Operation
    <3>2. /\ q.pc = "send" /\ link[q.via] # "finished"
          /\ op' = [op EXCEPT ![o].pc = "wait", ![o].sent = @ \cup {q.via}]
      BY <1>8, <3>1 DEF Send
    <3> QED BY <1>t, <3>2
  <2>2. q.result = "none" /\ q.via \in Conn /\ link[q.via] # "none"
    BY <1>t, <2>1, Bounds DEF CallOf, OnWay
  <2>3. CallOf(o)'
    BY <1>c, <1>t, <1>u, <2>1, <2>2 DEF CallOf, OnWay, Operation
  <2>4. /\ r.via = q.via /\ r.sent = q.sent \cup {q.via} /\ r.done = q.done
        /\ r.pc = "wait" /\ r.result = "none"
    BY <1>t, <2>1, <2>2 DEF Operation
  <2>5. Effects(o)' BY <1>t, <1>u, <2>1, <2>2, <2>4 DEF Effects
  <2> QED BY <2>3, <2>5
<1>9. ASSUME NEW k \in Conn, Handle(o, k) PROVE CallOf(o)' /\ Effects(o)'
  <2>1. k \in q.sent /\ r = [q EXCEPT !.done = @ \cup {k}]
    BY <1>9, <1>t DEF Handle
  <2>2. /\ r.pc = q.pc /\ r.ctl = q.ctl /\ r.ctx = q.ctx /\ r.via = q.via
        /\ r.result = q.result /\ r.sent = q.sent /\ r.done = q.done \cup {k}
    BY <1>t, <2>1 DEF Operation
  <2>3. CallOf(o)'
    <3>1. q # Idle BY <2>1 DEF Idle
    <3> QED BY <1>c, <1>u, <2>2, <3>1 DEF CallOf, OnWay
  <2>4. Effects(o)' BY <1>u, <2>1, <2>2 DEF Effects
  <2> QED BY <2>3, <2>4
<1>12. CASE Answer(o)
  <2>1. q.pc = "wait" /\ q.via \in q.done /\ r = [q EXCEPT !.pc = "fill"]
    BY <1>12, <1>t DEF Answer, Step
  <2>2. q.result = "none" BY <2>1 DEF CallOf
  <2>3. CallOf(o)'
    BY <1>c, <1>t, <1>u, <2>1, <2>2 DEF CallOf, OnWay, Operation
  <2>4. Effects(o)' BY <1>a, <1>t, <2>1, <2>2 DEF Operation
  <2> QED BY <2>3, <2>4
<1>10. CASE \/ Fill(o) \/ SetRefused(o) \/ QueueCtx(o)
            \/ AskRefused(o) /\ r.pc = "end"
            \/ QueueCtl(o) /\ r.pc = "end"
  <2> DEFINE Ended == \E res \in Answers \cup {"nil"} : End(o, res)
  <2>1. /\ q.pc \in {"fill", "keep"}
        /\ \E res : r = [q EXCEPT !.pc = "end", !.result = res]
    <3>1. q.pc \in {"fill", "keep"}
      BY <1>10 DEF Fill, QueueCtl, QueueCtx, AskRefused, SetRefused
    <3>2. CASE Ended
      <4>1. PICK res : End(o, res) BY <3>2
      <4> QED BY <1>t, <3>1, <4>1, MovesOf
    <3>3. CASE ~Ended
      <4>0. ~End(o, "value") /\ ~End(o, "nil") /\ ~End(o, "absent")
            /\ ~End(o, "refused")
        BY <3>3
      <4>1. CASE QueueCtl(o) /\ r.pc = "end"
        <5>1. op' = [op EXCEPT ![o].pc = "keep", ![o].ctl = ctl]
          BY <4>0, <4>1 DEF QueueCtl
        <5>2. r.pc = "keep" BY <1>t, <5>1 DEF Operation
        <5> QED BY <4>1, <5>2
      <4>2. CASE AskRefused(o) /\ r.pc = "end"
        <5>1. Step(o, "fill", "panic") BY <4>0, <4>2 DEF AskRefused
        <5>2. r.pc = "panic" BY <1>t, <5>1, MovesOf
        <5> QED BY <4>2, <5>2
      <4> QED BY <1>10, <4>0, <4>1, <4>2 DEF Fill, QueueCtx, SetRefused
    <3> QED BY <3>2, <3>3
  <2>2. q.via \in q.done BY <2>1 DEF Effects
  <2>3. CallOf(o)'
    BY <1>c, <1>t, <1>u, <2>1 DEF CallOf, OnWay, Operation
  <2>4. /\ r.via = q.via /\ r.sent = q.sent /\ r.done = q.done
        /\ r.pc = "end"
    BY <1>t, <2>1 DEF Operation
  <2>5. Effects(o)' BY <1>a, <2>2, <2>4
  <2> QED BY <2>3, <2>5
<1>11. CASE QueueCtl(o) /\ r.pc # "end"
  <2>1. /\ q.pc = "fill" /\ r = [q EXCEPT !.pc = "keep", !.ctl = ctl]
        /\ o \in Getter /\ ctl <= ctl
    <3>1. q.pc = "fill" /\ o \in Getter BY <1>11 DEF QueueCtl
    <3>2. CASE End(o, "value")
      <4>1. r.pc = "end" BY <1>t, <3>2, MovesOf DEF Operation
      <4> QED BY <1>11, <4>1
    <3>3. CASE op' = [op EXCEPT ![o].pc = "keep", ![o].ctl = ctl]
      BY <1>t, <3>1, <3>3
    <3> QED BY <1>11, <3>2, <3>3 DEF QueueCtl
  <2>2. q.via \in q.done /\ q.result = "none" BY <2>1 DEF Effects, CallOf
  <2>3. CallOf(o)' BY <1>t, <1>u, <2>1, <2>2 DEF CallOf, OnWay, Operation
  <2>4. Effects(o)' BY <1>a, <1>t, <2>1, <2>2 DEF Operation
  <2> QED BY <2>3, <2>4
<1>13. CASE AskRefused(o) /\ r.pc # "end"
  <2>1. q.pc = "fill" /\ r = [q EXCEPT !.pc = "panic"]
    <3>1. CASE End(o, "absent") BY <1>13, <1>t, <3>1, MovesOf
    <3>2. CASE Step(o, "fill", "panic") BY <1>t, <3>2, MovesOf
    <3> QED BY <1>13, <3>1, <3>2 DEF AskRefused
  <2>2. q.result = "none" BY <2>1 DEF CallOf
  <2>3. CallOf(o)' BY <1>c, <1>t, <1>u, <2>1, <2>2 DEF CallOf, OnWay, Operation
  <2>4. Effects(o)' BY <1>a, <1>t, <2>1, <2>2 DEF Operation
  <2> QED BY <2>3, <2>4
<1>14. CASE Panicked(o)
  <2>1. q.pc = "panic" /\ r = [q EXCEPT !.pc = "end", !.result = "panic"]
    BY <1>14, <1>t, MovesOf DEF Panicked
  <2>2. CallOf(o)' BY <1>c, <1>t, <1>u, <2>1 DEF CallOf, OnWay, Operation
  <2>3. Effects(o)' BY <1>a, <1>t, <2>1 DEF Operation
  <2> QED BY <2>2, <2>3
<1> QED
  BY <1>1, <1>2, <1>3, <1>4, <1>5, <1>6, <1>7, <1>8, <1>9, <1>10, <1>11, <1>12,
     <1>13, <1>14
  DEF Acts, Proceed

LEMMA CallsStep ==
  ASSUME TypeOK, InOrder, Connected, Kept,
         \A o \in Call : CallOf(o) /\ Effects(o), [Next]_vars
  PROVE  \A o \in Call : CallOf(o)' /\ Effects(o)'
BY NextSplits, RestCall, OtherCall, OwnCall

-----------------------------------------------------------------------------
(* Tasks.                                                                  *)

\* taskNew finds a worker: the one that the request for it is below.
LEMMA TaskOfWorker ==
  ASSUME TypeOK, InOrder, NEW o \in Asker, CallOf(o), op[o].pc = "fill"
  PROVE  ctl \in Gen /\ worker = ctl
<1>1. /\ op[o].ctx # 0 /\ op[o].ctl = op[o].ctx /\ op[o].ctx \notin finished
      /\ Timely(op[o])
  BY Kinds DEF CallOf, OnWay
<1>2. op[o] \in Operation BY Kinds DEF TypeOK
<1>3. op[o].ctx \in Gen BY <1>1, <1>2, Bounds DEF Operation, Gen
<1>4. op[o].ctx = ctl
  <2>1. op[o].ctx <= ctl BY <1>1 DEF Timely
  <2>2. ~(op[o].ctx < ctl) BY <1>1, <1>3 DEF InOrder
  <2>3. ctl \in Nat BY Bounds DEF TypeOK
  <2>4. op[o].ctx \in Nat BY <1>3, Bounds
  <2> HIDE DEF TypeOK
  <2> QED BY <2>1, <2>2, <2>3, <2>4
<1>5. ~starting /\ ctl # 0 /\ ctl \notin finished
  BY <1>1, <1>4 DEF Timely
<1>6. worker = 0 => starting \/ ctl = 0 \/ ctl \in finished BY DEF InOrder
<1>7. worker # 0 => worker = ctl BY DEF InOrder
<1> QED BY <1>3, <1>4, <1>5, <1>6, <1>7

LEMMA OnTaskRest ==
  ASSUME TypeOK, InOrder, OnTask, Rest
  PROVE  OnTask'
<1> USE DEF starts, dials
<1>1. op' = op BY RestKeeps
<1>2. ASSUME UNCHANGED <<conn, task>>,
             \A g \in Gen : dialer[g] = "offer" => dialer'[g] = "offer"
      PROVE  OnTask'
  BY <1>1, <1>2 DEF OnTask
<1>3. ASSUME NEW g \in Gen, Start(g) \/ DialStop(g) PROVE OnTask'
  <2>1. /\ dialer[g] # "offer" /\ UNCHANGED <<conn, task>>
        /\ \A h \in Gen \ {g} : dialer'[h] = dialer[h]
    BY <1>3 DEF Start, DialStop, TypeOK
  <2> QED BY <1>2, <2>1
<1>4. ASSUME NEW g \in Gen, Dial(g) PROVE OnTask'
  <2>1. /\ dialer[g] = "dial" /\ Settled /\ UNCHANGED task
        /\ \A h \in Gen \ {g} : conn'[h] = conn[h] /\ dialer'[h] = dialer[h]
    BY <1>4 DEF Dial, TypeOK
  <2>2. CASE task = None \/ task.stale BY <1>1, <2>1, <2>2 DEF OnTask
  <2>3. CASE task # None /\ ~task.stale /\ g = task.ctl
    <3>1. task.canceled BY <2>1, <2>3 DEF OnTask
    <3>2. \A o \in Setter : op[o].pc \notin {"pick", "send"}
      BY <2>1, <3>1 DEF Settled
    <3> QED BY <1>1, <2>1, <2>3, <3>1, <3>2 DEF OnTask
  <2>4. CASE task # None /\ ~task.stale /\ g # task.ctl
    <3>1. task.ctl \in Gen \ {g} BY <2>4 DEF OnTask
    <3>2. conn'[task.ctl] = conn[task.ctl] /\ dialer'[task.ctl] = dialer[task.ctl]
      BY <2>1, <3>1
    <3> QED BY <1>1, <2>1, <2>4, <3>2 DEF OnTask
  <2> QED BY <2>2, <2>3, <2>4
<1>5. ASSUME NEW g \in Gen, Redial(g) \/ DialerEnd(g) PROVE OnTask'
  <2>1. /\ UNCHANGED conn
        /\ task' = IF task = None THEN None ELSE [task EXCEPT !.canceled = TRUE]
    BY <1>5 DEF Redial, DialerEnd, Disconnected
  <2>2. CASE task = None BY <1>1, <2>1, <2>2 DEF OnTask
  <2>3. CASE task # None
    <3>1. task \in TaskObject BY <2>3 DEF TypeOK
    <3>2. /\ task'.ctl = task.ctl /\ task'.conn = task.conn /\ task'.canceled
          /\ task'.stale = task.stale /\ task' \in TaskObject
      BY <2>1, <2>3, <3>1 DEF TaskObject
    <3>3. task.ctl \in Gen /\ task' # None
      BY <2>3, <3>2, NoneAssumption DEF OnTask
    <3>4. \A o \in Setter : op'[o].pc \in OnWay \cup {"pick"} =>
            task' # None /\ op'[o].ctl = task'.ctl
      BY <1>1, <3>2, <3>3 DEF OnTask
    <3>5. ASSUME ~task'.stale
          PROVE  \A o \in Setter : ~op'[o].late =>
                   /\ op'[o].pc \in {"pick", "send"} =>
                        conn'[task'.ctl] = task'.conn
                   /\ op'[o].pc \in OnWay => op'[o].via = task'.conn
      BY <1>1, <2>1, <2>3, <3>2, <3>5 DEF OnTask
    <3> QED BY <3>2, <3>3, <3>4, <3>5 DEF OnTask
  <2> QED BY <2>2, <2>3
<1>6. ASSUME UNCHANGED <<conn, task, dialer>> PROVE OnTask' BY <1>2, <1>6
<1>7. ASSUME NEW g \in Gen, Worker(g) \/ WorkerPanic(g) PROVE OnTask'
  BY <1>6, <1>7 DEF Worker, WorkerClose, WorkerFinished, StopEnd, WorkerPanic
<1>8. CASE StartEnd \/ Stop \/ UNCHANGED vars
  BY <1>6, <1>8 DEF StartEnd, Stop, vars
<1>9. ASSUME NEW k \in Conn, Break(k) \/ Finish(k) \/ Release(k) PROVE OnTask'
  BY <1>6, <1>9 DEF Break, Finish, Release
<1> QED BY <1>3, <1>4, <1>5, <1>7, <1>8, <1>9 DEF Rest, Dialer

\* A call of the task on its way to the connection: its channel is the task's,
\* and it gets what that channel offers.
LEMMA SetterStep ==
  ASSUME TypeOK, OnTask, NEW o \in Setter, Acts(o),
         CallOf(o), UNCHANGED task
  PROVE  /\ op'[o].pc \in OnWay \cup {"pick"} =>
              /\ task # None /\ op'[o].ctl = task.ctl
         /\ task # None /\ ~task.stale /\ ~op'[o].late =>
              /\ op'[o].pc \in {"pick", "send"} => conn[task.ctl] = task.conn
              /\ op'[o].pc \in OnWay => op'[o].via = task.conn
<1> DEFINE q == op[o]
           r == op'[o]
<1>t. /\ o \in Call /\ q \in Operation /\ op \in [Call -> Operation]
      /\ o \notin Getter /\ o \notin Asker
  BY Kinds DEF TypeOK
<1>1. CASE Set(o)
  <2>1. /\ task # None /\ UNCHANGED task /\ q = Idle
        /\ r = [q EXCEPT !.pc = "pick", !.ctl = task.ctl, !.ctx = task.ctx,
                         !.late = task.canceled]
    BY <1>1, <1>t DEF Set, CallOf
  <2>2. r.pc = "pick" /\ r.ctl = task.ctl /\ r.late = task.canceled
    BY <2>1 DEF Idle
  <2> QED BY <2>1, <2>2 DEF OnTask, OnWay
<1>2. ASSUME End(o, "nil") \/ End(o, "value"), UNCHANGED task
      PROVE  r.pc = "end" /\ UNCHANGED task
  BY <1>2, <1>t, MovesOf
<1>3. CASE Pick(o)
  <2>1. CASE End(o, "nil")
    BY <1>2, <1>3, <2>1 DEF Pick, OnWay
  <2>2. CASE op' = [op EXCEPT ![o].pc = "send", ![o].via = conn[q.ctl]]
    <3>1. r.pc = "send" /\ r.ctl = q.ctl /\ r.late = q.late /\ r.via = conn[q.ctl]
      BY <1>t, <2>2 DEF Operation
    <3>2. q.pc = "pick" /\ UNCHANGED task BY <1>3 DEF Pick
    <3>3. task # None /\ q.ctl = task.ctl BY <3>2 DEF OnTask, OnWay
    <3> QED BY <3>1, <3>2, <3>3 DEF OnTask, OnWay
  <2> QED BY <1>3, <2>1, <2>2 DEF Pick
<1>4. CASE GiveUp(o) \/ Released(o) \/ Fill(o) \/ SetRefused(o)
  <2>1. \E res : End(o, res)
    BY <1>4, <1>t DEF GiveUp, Released, Fill, SetRefused
  <2> QED BY <1>t, <2>1, MovesOf DEF OnWay
<1>5. CASE Send(o) \/ Answer(o)
  <2>1. q.pc \in {"send", "wait"} /\ UNCHANGED task
    BY <1>5, <1>t DEF Send, Answer
  <2>2. /\ r.ctl = q.ctl /\ r.late = q.late /\ r.via = q.via
        /\ r.pc \in {"wait", "fill"} \/ (r.pc = "pick" /\ q.pc = "send")
    <3>1. \/ q.pc = "send" /\ r = [q EXCEPT !.pc = "pick"]
          \/ r = [q EXCEPT !.pc = "wait", !.sent = @ \cup {q.via}]
          \/ r = [q EXCEPT !.pc = "fill"]
      BY <1>5, <1>t DEF Send, Again, Answer, Step
    <3> QED BY <1>t, <3>1 DEF Operation
  <2>3. task # None /\ q.ctl = task.ctl BY <2>1 DEF OnTask, OnWay
  <2>4. r.pc \in OnWay \cup {"pick"} => task # None /\ r.ctl = task.ctl
    BY <2>2, <2>3
  <2>5. ASSUME ~task.stale, ~r.late
        PROVE  /\ r.pc \in {"pick", "send"} => conn[task.ctl] = task.conn
               /\ r.pc \in OnWay => r.via = task.conn
    <3>1. /\ q.pc \in {"pick", "send"} => conn[task.ctl] = task.conn
          /\ q.pc \in OnWay => q.via = task.conn
      BY <2>2, <2>3, <2>5 DEF OnTask
    <3>2. CASE r.pc \in {"pick", "send"}
      <4>1. r.pc = "pick" /\ q.pc = "send" BY <2>2, <3>2
      <4> QED BY <3>1, <4>1 DEF OnWay
    <3>3. CASE r.pc \notin {"pick", "send"}
      BY <2>1, <2>2, <3>1, <3>3 DEF OnWay
    <3> QED BY <3>2, <3>3
  <2> QED BY <2>1, <2>3, <2>4, <2>5
<1>6. ~QueueCtl(o) /\ ~QueueCtx(o) /\ ~Look(o) /\ ~AskRefused(o)
  BY <1>t DEF Look, QueueCtl, QueueCtx, AskRefused, CallOf
<1>9. CASE Panicked(o)
  <2>1. End(o, "panic") BY <1>9 DEF Panicked
  <2> QED BY <1>t, <2>1, MovesOf DEF OnWay
\* The service may handle it at any time.
<1>7. ASSUME NEW k \in Conn, Handle(o, k)
      PROVE  /\ UNCHANGED task
             /\ r.pc = q.pc /\ r.ctl = q.ctl /\ r.late = q.late /\ r.via = q.via
  <2>1. r = [q EXCEPT !.done = @ \cup {k}] /\ UNCHANGED task
    BY <1>7, <1>t DEF Handle
  <2> QED BY <1>t, <2>1 DEF Operation
<1>8. ASSUME NEW k \in Conn, Handle(o, k)
      PROVE  /\ UNCHANGED task
             /\ r.pc \in OnWay \cup {"pick"} =>
                  /\ task # None /\ r.ctl = task.ctl
             /\ task # None /\ ~task.stale /\ ~r.late =>
                  /\ r.pc \in {"pick", "send"} => conn[task.ctl] = task.conn
                  /\ r.pc \in OnWay => r.via = task.conn
  BY <1>7, <1>8 DEF OnTask
<1> QED BY <1>1, <1>3, <1>4, <1>5, <1>6, <1>8, <1>9, <1>t DEF Acts, Proceed

LEMMA OnTaskActs ==
  ASSUME TypeOK, InOrder, Connected, OnTask, \A o \in Call : CallOf(o),
         NEW p \in Call, Acts(p)
  PROVE  OnTask'
<1>1. /\ UNCHANGED <<ctl, worker, dialer, conn, link, cleaned>>
      /\ \A o \in Call \ {p} : op'[o] = op[o]
  BY ActsOnOne DEF starts, dials
<1>4. CASE task' # task /\ SetRefused(p)
  <2>1. /\ p \in Setter /\ op[p].pc = "fill" /\ End(p, "refused")
        /\ task' = [task EXCEPT !.canceled = TRUE]
    BY <1>4 DEF SetRefused
  <2>2. task # None BY <2>1 DEF OnTask, OnWay
  <2>3. task \in TaskObject BY <2>2 DEF TypeOK
  <2>4. /\ task'.ctl = task.ctl /\ task'.conn = task.conn /\ task'.canceled
        /\ task'.stale = task.stale /\ task' \in TaskObject
    BY <2>1, <2>3 DEF TaskObject
  <2>5. task' # None /\ task.ctl \in Gen
    BY <2>2, <2>4, NoneAssumption DEF OnTask
  <2>6. op'[p].pc = "end" BY <2>1, MovesOf DEF TypeOK
  <2>7. \A o \in Setter : o # p => op'[o] = op[o] BY <1>1, Kinds
  <2>8. \A o \in Setter : op'[o].pc \in OnWay \cup {"pick"} =>
          task' # None /\ op'[o].ctl = task'.ctl
    BY <2>4, <2>5, <2>6, <2>7 DEF OnTask, OnWay
  <2>9. ASSUME ~task'.stale
        PROVE  \A o \in Setter : ~op'[o].late =>
                 /\ op'[o].pc \in {"pick", "send"} =>
                      conn'[task'.ctl] = task'.conn
                 /\ op'[o].pc \in OnWay => op'[o].via = task'.conn
    BY <1>1, <2>2, <2>4, <2>6, <2>7, <2>9 DEF OnTask, OnWay
  <2> QED BY <2>4, <2>5, <2>8, <2>9 DEF OnTask
<1>2. CASE task' # task /\ ~SetRefused(p)
  <2>1. /\ Fill(p) /\ p \in Asker /\ task = None /\ op[p].pc = "fill"
        /\ task' = [ctl |-> ctl, ctx |-> worker, conn |-> op[p].via,
                    canceled |-> FALSE, stale |-> op[p].via \in cleaned]
    BY <1>2 DEF AskRefused, Panicked, Acts, Proceed, GetQueue, Ask, Set, Look, Pick, GiveUp, Send,
                Released, Fill, TaskMade, QueueCtl, QueueCtx, Handle, Answer
  <2>2. ctl \in Gen BY <2>1, TaskOfWorker, Kinds
  <2>3. op[p].via \in Conn /\ link[op[p].via] # "none"
    BY <2>1, Bounds DEF CallOf, OnWay
  <2>4. op[p].via \notin cleaned => dialer[ctl] = "offer" /\ conn[ctl] = op[p].via
    <3> SUFFICES ASSUME op[p].via \notin cleaned
                 PROVE  dialer[ctl] = "offer" /\ conn[ctl] = op[p].via
      OBVIOUS
    <3>1. PICK g \in Gen : dialer[g] = "offer" /\ conn[g] = op[p].via
      BY <2>3 DEF Connected
    <3>2. g = ctl BY <3>1, Newest
    <3> QED BY <3>1, <3>2
  <2>5. \A o \in Setter : op'[o] = op[o] /\ op[o].pc \notin OnWay \cup {"pick"}
    BY <1>1, <2>1, Kinds DEF OnTask
  <2>6. \A o \in Setter : op'[o].pc \notin OnWay \cup {"pick"} BY <2>5
  <2>7. /\ task'.ctl = ctl /\ task'.conn = op[p].via
        /\ task'.stale <=> op[p].via \in cleaned
    BY <2>1
  <2> QED BY <1>1, <2>2, <2>4, <2>6, <2>7 DEF OnTask, OnWay
<1>3. CASE UNCHANGED task
  <2>1. ASSUME NEW o \in Setter
        PROVE  /\ op'[o].pc \in OnWay \cup {"pick"} =>
                    task # None /\ op'[o].ctl = task.ctl
               /\ task # None /\ ~task.stale /\ ~op'[o].late =>
                    /\ op'[o].pc \in {"pick", "send"} => conn[task.ctl] = task.conn
                    /\ op'[o].pc \in OnWay => op'[o].via = task.conn
    <3>1. CASE o = p BY <1>3, <3>1, SetterStep, Kinds
    <3>2. CASE o # p
      <4>1. op'[o] = op[o] BY <1>1, <3>2, Kinds
      <4> QED BY <4>1 DEF OnTask
    <3> QED BY <3>1, <3>2
  <2> QED BY <1>1, <1>3, <2>1 DEF OnTask
<1> QED BY <1>2, <1>3, <1>4

LEMMA OnTaskStep ==
  ASSUME TypeOK, InOrder, Connected, OnTask, \A o \in Call : CallOf(o),
         [Next]_vars
  PROVE  OnTask'
BY NextSplits, OnTaskRest, OnTaskActs

-----------------------------------------------------------------------------
(* The answer nil.                                                         *)

\* A queue's call ends with nil on a closed channel, or when its context is
\* done.
LEMMA NilOf ==
  ASSUME TypeOK, NEW p \in Getter \cup Asker, Acts(p), CallOf(p),
         op'[p].result = "nil"
  PROVE  /\ op'[p].ctl = op[p].ctl /\ op'[p].ctx = op[p].ctx
         /\ \/ op[p].ctl \notin open \/ op[p].ctx \in canceled
            \/ op[p].result = "nil"
<1> DEFINE q == op[p]
           r == op'[p]
<1>t. /\ q \in Operation /\ op \in [Call -> Operation]
      /\ p \notin Setter /\ p \in Call
  BY Kinds DEF TypeOK
<1>0. ASSUME NEW k \in Conn, Handle(p, k)
      PROVE  r.ctl = q.ctl /\ r.ctx = q.ctx /\ r.result = q.result
  <2>1. r = [q EXCEPT !.done = @ \cup {k}] BY <1>0, <1>t DEF Handle
  <2> QED BY <1>t, <2>1 DEF Operation
<1>1. CASE \E k \in Conn : Handle(p, k) BY <1>0, <1>1
<1> SUFFICES ASSUME ~ \E k \in Conn : Handle(p, k)
             PROVE  /\ r.ctl = q.ctl /\ r.ctx = q.ctx
                    /\ q.ctl \notin open \/ q.ctx \in canceled
  BY <1>1
<1>2. ASSUME r.result = q.result PROVE FALSE
  <2>1. q.pc # "end"
    BY DEF Acts, Proceed, GetQueue, Ask, Set, Look, Pick, GiveUp, Send, Step,
           Released, Fill, AskRefused, Panicked, SetRefused, QueueCtl,
           QueueCtx, Answer
  <2> QED BY <1>2, <2>1 DEF CallOf
<1>3. ASSUME NEW from, NEW to, Step(p, from, to) PROVE FALSE
  <2>1. r = [q EXCEPT !.pc = to] BY <1>t, <1>3 DEF Step
  <2> QED BY <1>t, <1>2, <2>1 DEF Operation
<1>4. ASSUME Again(p) PROVE FALSE
  <2>1. r = [q EXCEPT !.pc = IF p \in Getter THEN "look" ELSE "pick"]
    BY <1>t, <1>4, MovesOf
  <2> QED BY <1>t, <1>2, <2>1 DEF Operation
<1>5. ASSUME NEW res, End(p, res)
      PROVE  res = "nil" /\ r.ctl = q.ctl /\ r.ctx = q.ctx
  <2>1. r = [q EXCEPT !.pc = "end", !.result = res] BY <1>t, <1>5, MovesOf
  <2> QED BY <1>t, <2>1 DEF Operation
<1>6. ~End(p, "value") /\ ~End(p, "panic") /\ ~End(p, "absent") BY <1>5
<1>7. ~Ask(p)
  <2> SUFFICES ASSUME Ask(p) PROVE FALSE OBVIOUS
  <2>1. op' = [op EXCEPT ![p].pc = "pick", ![p].ctl = queue.ctl,
                         ![p].ctx = queue.ctx]
    BY <1>6 DEF Ask
  <2>2. r = [q EXCEPT !.pc = "pick", !.ctl = queue.ctl, !.ctx = queue.ctx]
    BY <1>t, <2>1
  <2> QED BY <1>t, <1>2, <2>2 DEF Operation
<1>8. ~Look(p)
  <2> SUFFICES ASSUME Look(p) PROVE FALSE OBVIOUS
  <2>1. r = [q EXCEPT !.pc = "pick", !.ctl = ctl] BY <1>t DEF Look
  <2> QED BY <1>t, <1>2, <2>1 DEF Operation
<1>9. ~QueueCtl(p)
  <2> SUFFICES ASSUME QueueCtl(p) PROVE FALSE OBVIOUS
  <2>1. op' = [op EXCEPT ![p].pc = "keep", ![p].ctl = ctl]
    BY <1>6 DEF QueueCtl
  <2>2. r = [q EXCEPT !.pc = "keep", !.ctl = ctl] BY <1>t, <2>1
  <2> QED BY <1>t, <1>2, <2>2 DEF Operation
<1>10. ASSUME op' = [op EXCEPT ![p].pc = "wait", ![p].sent = @ \cup {q.via}]
       PROVE  FALSE
  <2>1. r = [q EXCEPT !.pc = "wait", !.sent = @ \cup {q.via}] BY <1>t, <1>10
  <2> QED BY <1>t, <1>2, <2>1 DEF Operation
<1>11. /\ ~GetQueue(p) /\ ~Send(p) /\ ~Released(p) /\ ~Answer(p) /\ ~QueueCtx(p)
       /\ ~AskRefused(p) /\ ~Panicked(p) /\ ~SetRefused(p)
  BY <1>t, <1>3, <1>4, <1>6, <1>10
  DEF GetQueue, Send, Released, Answer, QueueCtx, AskRefused, Panicked,
      SetRefused
<1>12. CASE Pick(p)
  <2>1. q.ctl \notin open
    <3> SUFFICES ASSUME q.ctl \in open PROVE FALSE OBVIOUS
    <3>1. op' = [op EXCEPT ![p].pc = "send", ![p].via = conn[q.ctl]]
      BY <1>12 DEF Pick
    <3>2. r = [q EXCEPT !.pc = "send", !.via = conn[q.ctl]] BY <1>t, <3>1
    <3> QED BY <1>t, <1>2, <3>2 DEF Operation
  <2>2. End(p, "nil") BY <1>12, <2>1 DEF Pick
  <2> QED BY <1>5, <2>1, <2>2
<1>13. CASE GiveUp(p) \/ Fill(p)
  <2>1. q.ctx \in canceled /\ End(p, "nil") BY <1>t, <1>6, <1>13
    DEF GiveUp, Fill
  <2> QED BY <1>5, <2>1
<1> QED
  BY <1>t, <1>11, <1>7, <1>8, <1>9, <1>10, <1>12, <1>13 DEF Acts, Proceed

LEMMA NilStep ==
  ASSUME TypeOK, InOrder, NilMeansStopped, \A o \in Call : CallOf(o),
         [Next]_vars
  PROVE  NilMeansStopped'
<1> USE DEF Over
<1>1. CASE Rest
  <2>1. canceled \subseteq canceled'
    BY <1>1 DEF Rest, vars, starts, dials, Start, Worker, WorkerClose,
                WorkerFinished, StopEnd, Dialer, Dial, DialStop, Redial,
                DialerEnd, WorkerPanic, StartEnd, Stop, Break, Finish, Release
  <2>2. op' = op BY <1>1, RestKeeps
  <2> QED BY <2>1, <2>2 DEF NilMeansStopped
<1>2. ASSUME NEW p \in Call, Acts(p) PROVE NilMeansStopped'
  <2>1. UNCHANGED canceled BY <1>2, ActsOnOne DEF starts
  <2>2. ASSUME NEW o \in Getter \cup Asker, op'[o].result = "nil"
        PROVE  \/ op'[o].ctl = 0 \/ op'[o].ctl \in canceled'
               \/ op'[o].ctx = 0 \/ op'[o].ctx \in canceled'
    <3>0. o \in Call BY Kinds
    <3>1. CASE o # p
      <4>1. op'[o] = op[o] BY <1>2, <3>0, <3>1, ActsOnOne
      <4> QED BY <2>1, <2>2, <4>1 DEF NilMeansStopped
    <3>2. CASE o = p
      <4>1. /\ op'[o].ctl = op[o].ctl /\ op'[o].ctx = op[o].ctx
            /\ \/ op[o].ctl \notin open \/ op[o].ctx \in canceled
               \/ op[o].result = "nil"
        BY <1>2, <2>2, <3>0, <3>2, NilOf
      <4>2. op[o].ctl <= ctl BY <3>0 DEF CallOf
      <4>3. op[o].ctl = 0 \/ op[o].ctl \in Gen
        BY <3>0, Bounds DEF TypeOK, Operation, Gen
      <4>4. op[o].ctl \in Gen => op[o].ctl \in open \cup canceled
        BY <4>2 DEF InOrder
      <4> QED BY <2>1, <4>1, <4>3, <4>4 DEF NilMeansStopped
    <3> QED BY <3>1, <3>2
  <2> QED BY <2>2 DEF NilMeansStopped
<1> QED BY <1>1, <1>2, NextSplits

-----------------------------------------------------------------------------
(* Types.                                                                  *)

LEMMA OpStep ==
  ASSUME TypeOK, NEW o \in Call, Acts(o), CallOf(o), Effects(o)
  PROVE  op' \in [Call -> Operation]
<1> DEFINE q == op[o]
           r == op'[o]
<1>t. /\ q \in Operation /\ op \in [Call -> Operation] /\ ctl \in 0 .. MaxStarts
      /\ conn \in [Gen -> 0 .. MaxConn] /\ open \subseteq Gen
  BY DEF TypeOK
<1>1. ASSUME NEW c \in Operation, op' = [op EXCEPT ![o] = c]
      PROVE  op' \in [Call -> Operation]
  BY <1>t, <1>1
<1>2. ASSUME NEW res \in {"nil", "value", "absent", "refused", "panic"},
             End(o, res)
      PROVE  op' \in [Call -> Operation]
  <2>1. [q EXCEPT !.pc = "end", !.result = res] \in Operation
    BY <1>t DEF Operation
  <2>2. op' = [op EXCEPT ![o] = [q EXCEPT !.pc = "end", !.result = res]]
    BY <1>t, <1>2 DEF End
  <2> QED BY <1>1, <2>1, <2>2
<1>3. ASSUME NEW from, NEW to \in {"look", "wait", "fill", "panic"},
             Step(o, from, to)
      PROVE  op' \in [Call -> Operation]
  <2>1. [q EXCEPT !.pc = to] \in Operation BY <1>t DEF Operation
  <2>2. op' = [op EXCEPT ![o] = [q EXCEPT !.pc = to]] BY <1>t, <1>3 DEF Step
  <2> QED BY <1>1, <2>1, <2>2
<1>4. ASSUME Again(o) PROVE op' \in [Call -> Operation]
  <2>1. PICK to \in {"look", "pick"} :
          to = IF o \in Getter THEN "look" ELSE "pick"
    OBVIOUS
  <2>2. [q EXCEPT !.pc = to] \in Operation BY <1>t DEF Operation
  <2>3. op' = [op EXCEPT ![o] = [q EXCEPT !.pc = to]]
    BY <1>t, <1>4, <2>1 DEF Again
  <2> QED BY <1>1, <2>2, <2>3
\* With a channel and a context that a queue or a task has.
<1>5. ASSUME NEW i \in 0 .. MaxStarts, NEW j \in 0 .. MaxStarts,
             NEW b \in BOOLEAN,
             op' = [op EXCEPT ![o] = [q EXCEPT !.pc = "pick", !.ctl = i,
                                               !.ctx = j, !.late = b]]
      PROVE  op' \in [Call -> Operation]
  <2>1. [q EXCEPT !.pc = "pick", !.ctl = i, !.ctx = j, !.late = b] \in Operation
    BY <1>t DEF Operation
  <2> QED BY <1>1, <1>5, <2>1
<1>6. CASE o \in Getter /\ GetQueue(o) BY <1>2, <1>3, <1>6 DEF GetQueue
<1>7. CASE o \in Asker /\ Ask(o)
  <2>1. CASE queue.ctx = 0 BY <1>2, <1>7, <2>1 DEF Ask
  <2>2. CASE queue.ctx # 0
    <3>1. op' = [op EXCEPT ![o].pc = "pick", ![o].ctl = queue.ctl,
                           ![o].ctx = queue.ctx]
      BY <1>7, <2>2 DEF Ask
    <3>2. PICK i \in 0 .. MaxStarts, j \in 0 .. MaxStarts :
            i = queue.ctl /\ j = queue.ctx
      BY <1>7 DEF Ask, TypeOK, Object
    <3>3. [q EXCEPT !.pc = "pick", !.ctl = i, !.ctx = j] \in Operation
      BY <1>t DEF Operation
    <3>4. op' = [op EXCEPT ![o] = [q EXCEPT !.pc = "pick", !.ctl = i, !.ctx = j]]
      BY <1>t, <3>1, <3>2
    <3> QED BY <1>1, <3>3, <3>4
  <2> QED BY <2>1, <2>2
<1>8. CASE o \in Setter /\ Set(o)
  <2>1. task \in TaskObject BY <1>8 DEF Set, TypeOK
  <2>2. PICK i \in 0 .. MaxStarts, j \in 0 .. MaxStarts, b \in BOOLEAN :
          i = task.ctl /\ j = task.ctx /\ b = task.canceled
    BY <2>1, Bounds DEF TaskObject, Gen
  <2>3. op' = [op EXCEPT ![o] = [q EXCEPT !.pc = "pick", !.ctl = i, !.ctx = j,
                                          !.late = b]]
    BY <1>8, <1>t, <2>2 DEF Set
  <2> QED BY <1>5, <2>3
<1>9. ASSUME NEW to \in {"pick", "keep"},
             op' = [op EXCEPT ![o].pc = to, ![o].ctl = ctl]
      PROVE  op' \in [Call -> Operation]
  <2>1. [q EXCEPT !.pc = to, !.ctl = ctl] \in Operation BY <1>t DEF Operation
  <2>2. op' = [op EXCEPT ![o] = [q EXCEPT !.pc = to, !.ctl = ctl]]
    BY <1>t, <1>9
  <2> QED BY <1>1, <2>1, <2>2
<1>10. CASE Look(o) \/ QueueCtl(o) BY <1>2, <1>9, <1>10 DEF Look, QueueCtl
<1>11. CASE Pick(o)
  <2>1. CASE q.ctl \notin open BY <1>2, <1>11, <2>1 DEF Pick
  <2>2. CASE q.ctl \in open
    <3>1. PICK k \in 0 .. MaxConn : k = conn[q.ctl] BY <1>t, <2>2
    <3>2. [q EXCEPT !.pc = "send", !.via = k] \in Operation
      BY <1>t DEF Operation
    <3>3. op' = [op EXCEPT ![o] = [q EXCEPT !.pc = "send", !.via = k]]
      BY <1>11, <1>t, <2>2, <3>1 DEF Pick
    <3> QED BY <1>1, <3>2, <3>3
  <2> QED BY <2>1, <2>2
<1>12. ASSUME NEW k \in Conn, Handle(o, k) PROVE op' \in [Call -> Operation]
  <2>1. [q EXCEPT !.done = @ \cup {k}] \in Operation BY <1>t DEF Operation
  <2>2. op' = [op EXCEPT ![o] = [q EXCEPT !.done = @ \cup {k}]]
    BY <1>12, <1>t DEF Handle
  <2> QED BY <1>1, <2>1, <2>2
<1>13. CASE Send(o)
  <2>1. CASE Again(o) BY <1>4, <2>1
  <2>2. CASE op' = [op EXCEPT ![o].pc = "wait", ![o].sent = @ \cup {q.via}]
    <3>1. q.via \in Conn BY <1>13, Bounds DEF Send, CallOf, OnWay
    <3>2. [q EXCEPT !.pc = "wait", !.sent = @ \cup {q.via}] \in Operation
      BY <1>t, <3>1 DEF Operation
    <3>3. op' = [op EXCEPT ![o] = [q EXCEPT !.pc = "wait",
                                            !.sent = @ \cup {q.via}]]
      BY <1>t, <2>2
    <3> QED BY <1>1, <3>2, <3>3
  <2> QED BY <1>13, <2>1, <2>2 DEF Send
<1>14. CASE \/ GiveUp(o) \/ Released(o) \/ Fill(o) \/ QueueCtx(o) \/ Answer(o)
            \/ AskRefused(o) \/ Panicked(o) \/ SetRefused(o)
  BY <1>2, <1>3, <1>4, <1>14
  DEF GiveUp, Released, Fill, QueueCtx, Answer, AskRefused, Panicked, SetRefused
<1> QED
  BY <1>6, <1>7, <1>8, <1>10, <1>11, <1>12, <1>13, <1>14 DEF Acts, Proceed

LEMMA TypeStep ==
  ASSUME TypeOK, InOrder, Connected, OnTask,
         \A o \in Call : CallOf(o) /\ Effects(o), [Next]_vars
  PROVE  TypeOK'
<1>1. ASSUME NEW o \in Call, Acts(o) PROVE TypeOK'
  <2>1. UNCHANGED <<starts, dials>> BY <1>1, ActsOnOne
  <2>2. op' \in [Call -> Operation] BY <1>1, OpStep
  <2>3. queue' \in Object \cup {None}
    <3>1. CASE UNCHANGED queue BY <3>1 DEF TypeOK
    <3>2. CASE queue' # queue
      <4>1. queue' = [ctl |-> op[o].ctl, ctx |-> worker]
        BY <1>1, <3>2
        DEF Acts, Proceed, GetQueue, Ask, Set, Look, Pick, GiveUp, Send,
            Released, Fill, QueueCtl, QueueCtx, Handle, Answer, AskRefused,
            Panicked, SetRefused
      <4>2. op[o].ctl \in 0 .. MaxStarts /\ worker \in 0 .. MaxStarts
        BY DEF TypeOK, Operation
      <4> QED BY <4>1, <4>2 DEF Object
    <3> QED BY <3>1, <3>2
  <2>4. task' \in TaskObject \cup {None}
    <3>1. CASE UNCHANGED task BY <3>1 DEF TypeOK
    <3>3. CASE task' # task /\ SetRefused(o)
      <4>1. /\ o \in Setter /\ op[o].pc = "fill"
            /\ task' = [task EXCEPT !.canceled = TRUE]
        BY <3>3 DEF SetRefused
      <4>2. task \in TaskObject BY <4>1 DEF OnTask, OnWay, TypeOK
      <4> QED BY <4>1, <4>2 DEF TaskObject
    <3>2. CASE task' # task /\ ~SetRefused(o)
      <4>1. /\ o \in Asker /\ op[o].pc = "fill"
            /\ task' = [ctl |-> ctl, ctx |-> worker, conn |-> op[o].via,
                        canceled |-> FALSE, stale |-> op[o].via \in cleaned]
        BY <1>1, <3>2
        DEF Acts, Proceed, GetQueue, Ask, Set, Look, Pick, GiveUp, Send,
            Released, Fill, TaskMade, QueueCtl, QueueCtx, Handle, Answer,
            AskRefused, Panicked
      <4>2. ctl \in Gen /\ worker = ctl BY <4>1, TaskOfWorker
      <4>3. op[o].via \in Conn BY <4>1 DEF CallOf, OnWay
      <4>4. ctl \in 0 .. MaxStarts BY DEF TypeOK
      <4> QED BY <4>1, <4>2, <4>3, <4>4 DEF TaskObject
    <3> QED BY <3>1, <3>2, <3>3
  <2> QED BY <2>1, <2>2, <2>3, <2>4 DEF TypeOK, starts, dials
<1>2. CASE Rest
  <2>1. UNCHANGED <<op, queue>> BY <1>2, RestKeeps
  <2>2. task' \in TaskObject \cup {None}
    BY <1>2, RestKeeps DEF TypeOK, TaskObject
  <2>3. ASSUME UNCHANGED starts,
               dialer' \in [Gen -> {"none", "dial", "offer", "gone"}],
               conn' \in [Gen -> 0 .. MaxConn],
               link' \in [Conn -> {"none", "up", "broken", "closing", "finished"}],
               cleaned' \subseteq Conn
        PROVE  TypeOK'
    BY <2>1, <2>2, <2>3 DEF TypeOK, starts
  <2>4. ASSUME UNCHANGED dials, worker' \in 0 .. MaxStarts,
               ctl' \in 0 .. MaxStarts, starting' \in BOOLEAN,
               open' \subseteq Gen, canceled' \subseteq Gen,
               stops' \subseteq canceled', finished' \subseteq canceled'
        PROVE  TypeOK'
    BY <2>1, <2>2, <2>4 DEF TypeOK, dials
  <2> USE DEF starts, dials
  <2>5. ASSUME NEW g \in Gen, Start(g) PROVE TypeOK'
    <3>1. g \in 0 .. MaxStarts BY DEF Gen
    <3> QED BY <2>2, <2>5, <3>1 DEF Start, TypeOK
  <2>6. ASSUME NEW g \in Gen, Dialer(g) PROVE TypeOK'
    <3>1. CASE Dial(g)
      <4>1. Conn \subseteq 0 .. MaxConn BY DEF Conn
      <4> QED BY <2>3, <3>1, <4>1 DEF Dial, TypeOK
    <3>2. CASE DialStop(g) BY <2>3, <3>2 DEF DialStop, TypeOK
    <3>3. CASE Redial(g) \/ DialerEnd(g)
      <4>1. conn[g] \in Conn BY <3>3 DEF Redial, DialerEnd, Connected
      <4>2. CASE Redial(g)
        BY <2>3, <4>1, <4>2 DEF Redial, Disconnected, TypeOK
      <4>3. CASE DialerEnd(g)
        BY <2>3, <4>1, <4>3 DEF DialerEnd, Disconnected, TypeOK
      <4> QED BY <3>3, <4>2, <4>3
    <3> QED BY <2>6, <3>1, <3>2, <3>3 DEF Dialer
  <2>7. ASSUME NEW k \in Conn, Break(k) \/ Finish(k) \/ Release(k) PROVE TypeOK'
    BY <2>3, <2>7 DEF Break, Finish, Release, TypeOK
  <2>8. ASSUME NEW g \in Gen, Worker(g) \/ WorkerPanic(g) PROVE TypeOK'
    <3>1. CASE WorkerClose(g) BY <2>4, <3>1 DEF WorkerClose, TypeOK
    <3>2. CASE WorkerFinished(g) BY <2>4, <3>2 DEF WorkerFinished, TypeOK
    <3>3. CASE StopEnd(g)
      <4>1. 0 \in 0 .. MaxStarts BY Bounds
      <4> QED BY <2>4, <3>3, <4>1 DEF StopEnd, TypeOK
    <3>4. CASE WorkerPanic(g) BY <2>4, <3>4 DEF WorkerPanic, TypeOK
    <3> QED BY <2>8, <3>1, <3>2, <3>3, <3>4 DEF Worker
  <2>9. CASE StartEnd BY <2>4, <2>9 DEF StartEnd, TypeOK
  <2>10. CASE Stop
    <3>1. worker \in Gen BY <2>10, Bounds DEF Stop, TypeOK, Gen
    <3> QED BY <2>4, <2>10, <3>1 DEF Stop, TypeOK
  <2>11. CASE UNCHANGED vars BY <2>11 DEF vars, TypeOK
  <2> QED BY <1>2, <2>5, <2>6, <2>7, <2>8, <2>9, <2>10, <2>11 DEF Rest
<1> QED BY <1>1, <1>2, NextSplits

-----------------------------------------------------------------------------
(* The theorems.                                                           *)

\* A client keeps to its invariant, for any calls, starts and connections.
THEOREM Invariance == Spec => []IInv
<1>1. Init => IInv BY InitIInv
<1>2. IInv /\ [Next]_vars => IInv'
  BY OrderStep, ConnectedStep, KeptStep, CallsStep, OnTaskStep, NilStep,
     TypeStep DEF IInv
<1> QED BY <1>1, <1>2, PTL DEF Spec

\* A call of a queue ends without an answer only if the Start it was made under
\* is over ("If nil - client stopped", client.go:19): a lost connection does not
\* make it.  What the service answers with "no" is not meant.
THEOREM NilOnlyAtStop == Spec => []NilMeansStopped
<1>1. IInv => NilMeansStopped BY DEF IInv
<1> QED BY <1>1, Invariance, PTL

\* Requests take effect as often as they may: once, but for what a queue asked
\* for on connections that were lost, once on each; and those of a task on the
\* task's connection.
THEOREM EffectsRight == Spec => []AppliedRight
<1>1. ASSUME IInv PROVE AppliedOnce
  <2>1. ASSUME NEW o \in Asker \cup Setter
        PROVE  /\ \A j, k \in op[o].done :
                    j < k => o \in Asker /\ link[j] = "finished"
               /\ op[o].pc = "send" /\ op[o].via \in op[o].sent =>
                    link[op[o].via] = "finished"
               /\ op[o].result \in Answers => op[o].via \in op[o].done
    <3>1. Effects(o) /\ o \in Call /\ o \notin Getter BY <1>1, Kinds DEF IInv
    <3>t. op[o] \in Operation BY <1>1, <3>1 DEF IInv, TypeOK
    <3>2. op[o].done \subseteq Nat /\ op[o].via \in Nat
      <4>1. op[o].done \subseteq Conn /\ op[o].via \in 0 .. MaxConn
        BY <3>t DEF Operation
      <4>2. op[o].done \subseteq Nat BY <4>1, Bounds
      <4>3. op[o].via \in Nat BY <4>1
      <4> QED BY <4>2, <4>3
    <3>3. ASSUME NEW j \in op[o].done, NEW k \in op[o].done, j < k
          PROVE  o \in Asker /\ link[j] = "finished"
      <4>1. j # op[o].via BY <3>1, <3>2, <3>3 DEF Effects
      <4> QED BY <3>1, <4>1 DEF Effects
    <3>4. op[o].pc = "send" /\ op[o].via \in op[o].sent =>
            link[op[o].via] = "finished"
      BY <3>1 DEF Effects
    <3> QED BY <3>1, <3>3, <3>4 DEF Effects
  <2> QED BY <2>1 DEF AppliedOnce
<1>2. ASSUME IInv PROVE SetOnItsConnection
  BY <1>2 DEF IInv, OnTask, OnWay, SetOnItsConnection
<1>3. IInv => AppliedRight BY <1>1, <1>2 DEF AppliedRight, IInv
<1> QED BY <1>3, Invariance, PTL

=============================================================================
