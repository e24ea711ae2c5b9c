--------------------------- MODULE ServiceProofs ---------------------------
(***************************************************************************)
(* Proofs about Service: for any number of starts, connections and waiters.*)
(***************************************************************************)
EXTENDS Service, TLAPS

LEMMA InitIInv == Init => IInv
<1> SUFFICES ASSUME Init PROVE IInv
  OBVIOUS
<1> USE StartsAssumption DEF Init
<1>1. TypeOK
  <2>1. 0 \in 0 .. MaxStarts OBVIOUS
  <2>2. stopping \in {"none", "cancel", "wait", "finish"} \cup
                    (IF hasty THEN {"crashed"} ELSE {})
    OBVIOUS
  <2> QED BY <2>1, <2>2 DEF TypeOK, Status
<1>2. AllTold BY DEF AllTold
<1>3. \A g \in Gen : ~Running(g) BY DEF Running
<1>4. InStep BY <1>3 DEF InStep
<1>5. InOrder BY DEF InOrder, Gen
<1>6. AtStart BY DEF AtStart
<1>7. AtStop BY <1>3 DEF AtStop
<1> QED BY <1>1, <1>2, <1>4, <1>5, <1>6, <1>7 DEF IInv, Waited

-----------------------------------------------------------------------------
(* Haste.                                                                  *)

\* Who has needed to wait and has not is remembered.
LEMMA Remembered ==
  ASSUME hasty \in BOOLEAN, NEW waited \in BOOLEAN, Needs(waited)
  PROVE  /\ hasty' \in BOOLEAN /\ (hasty => hasty')
         /\ ~hasty' => waited
BY DEF Needs

LEMMA HastyStep ==
  ASSUME TypeOK, [Next]_vars
  PROVE  hasty' \in BOOLEAN /\ (hasty => hasty')
<1>1. hasty \in BOOLEAN BY DEF TypeOK
<1>2. Gone \in BOOLEAN /\ Returned \in BOOLEAN BY DEF Gone, Returned
<1>3. ASSUME UNCHANGED hasty PROVE hasty' \in BOOLEAN /\ (hasty => hasty')
  BY <1>1, <1>3
<1>4. CASE \E g \in Gen : Start(g) BY <1>1, <1>2, <1>4, Remembered DEF Start
<1>5. CASE Stop BY <1>1, <1>2, <1>5, Remembered DEF Stop
<1>6. CASE GlobDone BY <1>1, <1>2, <1>6, Remembered DEF GlobDone
<1>7. \/ \E g \in Gen : Start(g)
      \/ Stop \/ GlobDone \/ UNCHANGED hasty
  BY DEF Next, vars, stops, StartEnd, Worker, WorkerBegin, WorkerStarted,
         WorkerDone, WorkerHandler, WorkerClose, Stopper, StopCancel, StopWait,
         StopFinish, Taker, TakerLook, TakerServe, TakerEnd, ConnServe,
         ConnRefused, ConnEnd, StatusWait
<1> QED BY <1>3, <1>4, <1>5, <1>6, <1>7

-----------------------------------------------------------------------------
(* Types and statuses.                                                     *)

LEMMA StatusSetType ==
  ASSUME TypeOK, NEW new \in Status, StatusSet(new)
  PROVE  /\ status' \in Status
         /\ waiter' \in [Waiter -> Status \cup {"idle", "closed"}]
BY DEF TypeOK, StatusSet

LEMMA EnterStopType ==
  ASSUME TypeOK, NEW who \in {"outside", "worker"}, EnterStop(who),
         hasty => hasty'
  PROVE  /\ status' \in Status
         /\ waiter' \in [Waiter -> Status \cup {"idle", "closed"}]
         /\ stopper' \in {"nobody", "outside", "worker"}
         /\ stopping' \in {"none", "cancel", "wait", "finish"} \cup
                          (IF hasty' THEN {"crashed"} ELSE {})
         /\ awaited' \in 0 .. MaxStarts
         /\ early' \subseteq Gen
<1>1. CASE First
  <2>1. /\ StatusSet("stopping") /\ stopper' = who /\ stopping' = "cancel"
        /\ early' = early \cup {g \in Gen : worker[g] \in {"begin", "ready"}}
        /\ awaited' = awaited
    BY <1>1 DEF EnterStop
  <2>2. "stopping" \in Status BY DEF Status
  <2>3. early' \subseteq Gen BY <2>1 DEF TypeOK
  <2>4. awaited' \in 0 .. MaxStarts BY <2>1 DEF TypeOK
  <2> QED BY <2>1, <2>2, <2>3, <2>4, StatusSetType
<1>2. CASE ~First
  BY <1>2 DEF EnterStop, workerStop, TypeOK
<1> QED BY <1>1, <1>2

\* Only a stop that finds no worker at all crashes.
LEMMA TypeStep ==
  ASSUME TypeOK, [Next]_vars,
         ~hasty => (stopping = "cancel" => current # 0)
  PROVE  TypeOK'
<1> USE StartsAssumption, HastyStep
<1> USE DEF contexts, conns, workerStop, stops
<1>1. ASSUME NEW g \in Gen, Start(g) PROVE TypeOK'
  <2>1. "starting" \in Status BY DEF Status
  <2>2. /\ status' \in Status
        /\ waiter' \in [Waiter -> Status \cup {"idle", "closed"}]
    BY <1>1, <2>1, StatusSetType DEF Start
  <2> QED BY <1>1, <2>2 DEF Start, TypeOK
<1>2. ASSUME NEW g \in Gen, StartEnd(g) PROVE TypeOK'
  BY <1>2 DEF StartEnd, TypeOK, Gen
<1>3. ASSUME NEW g \in Gen, WorkerBegin(g) PROVE TypeOK'
  BY <1>3 DEF WorkerBegin, TypeOK, Gen
<1>4. ASSUME NEW g \in Gen, WorkerStarted(g) PROVE TypeOK'
  <2>1. "started" \in Status BY DEF Status
  <2>2. /\ status' \in Status
        /\ waiter' \in [Waiter -> Status \cup {"idle", "closed"}]
    BY <1>4, <2>1, StatusSetType DEF WorkerStarted, TypeOK
  <2> QED BY <1>4, <2>2 DEF WorkerStarted, TypeOK
<1>5. ASSUME NEW g \in Gen, WorkerDone(g) \/ WorkerHandler(g) PROVE TypeOK'
  <2>1. EnterStop("worker") BY <1>5 DEF WorkerDone, WorkerHandler
  <2> QED BY <1>5, <2>1, EnterStopType DEF WorkerDone, WorkerHandler, TypeOK
<1>6. ASSUME NEW g \in Gen, WorkerClose(g) PROVE TypeOK'
  BY <1>6 DEF WorkerClose, TypeOK
<1>7. CASE Stop
  BY <1>7, EnterStopType DEF Stop, TypeOK
<1>8. CASE StopCancel
  <2>1. current = 0 => hasty BY <1>8 DEF StopCancel
  <2>2. stopping' \in {"none", "cancel", "wait", "finish"} \cup
                      (IF hasty' THEN {"crashed"} ELSE {})
    BY <1>8, <2>1 DEF StopCancel
  <2>3. current # 0 => current \in Gen BY DEF TypeOK, Gen
  <2>4. canceled' \subseteq Gen BY <1>8, <2>3 DEF StopCancel, TypeOK
  <2> QED BY <1>8, <2>2, <2>4 DEF StopCancel, TypeOK
<1>9. CASE StopWait
  BY <1>9 DEF StopWait, TypeOK
<1>10. CASE StopFinish
  <2>1. "stopped" \in Status BY DEF Status
  <2>2. /\ status' \in Status
        /\ waiter' \in [Waiter -> Status \cup {"idle", "closed"}]
    BY <1>10, <2>1, StatusSetType DEF StopFinish
  <2> QED BY <1>10, <2>2 DEF StopFinish, AfterStop, TypeOK
<1>11. CASE GlobDone
  BY <1>11 DEF GlobDone, TypeOK
<1>12. ASSUME NEW g \in Gen, TakerLook(g) \/ TakerEnd(g) PROVE TypeOK'
  BY <1>12 DEF TakerLook, TakerEnd, TypeOK
<1>13. ASSUME NEW g \in Gen, NEW c \in Conn, TakerServe(g, c) PROVE TypeOK'
  BY <1>13 DEF TakerServe, TypeOK, Gen
<1>14. ASSUME NEW c \in Conn, ConnServe(c) \/ ConnRefused(c) \/ ConnEnd(c)
       PROVE  TypeOK'
  BY <1>14 DEF ConnServe, ConnRefused, ConnEnd, TypeOK
<1>15. ASSUME NEW w \in Waiter, NEW st \in WaitedFor, StatusWait(w, st)
       PROVE  TypeOK'
  BY <1>15, WaitedForAssumption DEF StatusWait, TypeOK
<1>16. CASE UNCHANGED vars
  BY <1>16 DEF vars, TypeOK
<1> QED
  BY <1>1, <1>2, <1>3, <1>4, <1>5, <1>6, <1>7, <1>8, <1>9, <1>10, <1>11,
     <1>12, <1>13, <1>14, <1>15, <1>16
  DEF Next, Worker, Taker, Stopper

\* A new status is told to everyone who waits for it.
LEMMA ToldStep ==
  ASSUME TypeOK, AllTold, [Next]_vars
  PROVE  AllTold'
<1>1. ASSUME NEW new \in Status, StatusSet(new) PROVE AllTold'
  BY <1>1 DEF StatusSet, AllTold, Status
<1>2. ASSUME UNCHANGED <<status, waiter>> PROVE AllTold'
  BY <1>2 DEF AllTold
<1>3. ASSUME NEW w \in Waiter, NEW st \in WaitedFor, StatusWait(w, st)
      PROVE  AllTold'
  BY <1>3 DEF StatusWait, AllTold, TypeOK, Status
<1>4. {"starting", "started", "stopping", "stopped"} \subseteq Status
  BY DEF Status
<1>5. ASSUME NEW who \in {"outside", "worker"}, EnterStop(who) PROVE AllTold'
  BY <1>1, <1>2, <1>4, <1>5 DEF EnterStop
<1>6. ASSUME NEW g \in Gen, Start(g) \/ WorkerStarted(g) PROVE AllTold'
  BY <1>1, <1>2, <1>4, <1>6 DEF Start, WorkerStarted
<1>7. ASSUME NEW g \in Gen, WorkerDone(g) \/ WorkerHandler(g) PROVE AllTold'
  BY <1>5, <1>7 DEF WorkerDone, WorkerHandler
<1>8. ASSUME NEW g \in Gen,
             StartEnd(g) \/ WorkerBegin(g) \/ WorkerClose(g) \/ Taker(g)
      PROVE  AllTold'
  BY <1>2, <1>8
  DEF StartEnd, WorkerBegin, WorkerClose, Taker, TakerLook, TakerEnd, TakerServe
<1>9. CASE Stop BY <1>5, <1>9 DEF Stop
<1>10. CASE StopFinish BY <1>1, <1>4, <1>10 DEF StopFinish
<1>11. CASE StopCancel \/ StopWait \/ GlobDone \/ UNCHANGED vars
  BY <1>2, <1>11 DEF StopCancel, StopWait, GlobDone, vars
<1>12. ASSUME NEW c \in Conn, ConnServe(c) \/ ConnRefused(c) \/ ConnEnd(c)
       PROVE  AllTold'
  BY <1>2, <1>12 DEF ConnServe, ConnRefused, ConnEnd
<1> QED
  BY <1>3, <1>6, <1>7, <1>8, <1>9, <1>10, <1>11, <1>12
  DEF Next, Worker, Stopper
-----------------------------------------------------------------------------
(* What holds of a service in use.                                         *)

Unfinished(g) == worker[g] \notin {"none", "gone"}

\* Only the newest start has a worker that has not ended, and once that start
\* has returned the field names it.
LEMMA OneUnfinished ==
  ASSUME TypeOK, InStep, InOrder, NEW g \in Gen, Unfinished(g)
  PROVE  /\ starter[g] # "none"
         /\ \A h \in Gen : Unfinished(h) => h = g
         /\ \A h \in Gen : h > g => starter[h] = "none"
         /\ starter[g] = "done" => g = current
<1>1. starter[g] # "none" BY DEF InStep, Unfinished
<1>2. \A h \in Gen : h > g => starter[h] = "none"
  BY DEF InOrder, Unfinished, Gen
<1>3. \A h \in Gen : h < g => worker[h] = "gone"
  BY <1>1 DEF InOrder
<1>4. ASSUME NEW h \in Gen, Unfinished(h) PROVE h = g
  <2>1. ~(h > g) BY <1>2, <1>4 DEF InStep, Unfinished
  <2>2. ~(h < g) BY <1>3, <1>4 DEF Unfinished
  <2> QED BY <2>1, <2>2 DEF Gen
<1>5. ASSUME starter[g] = "done" PROVE g = current
  <2>1. g <= current BY <1>5 DEF InOrder
  <2>2. current \in Gen BY <2>1 DEF TypeOK, Gen
  <2>3. starter[current] = "done" BY <2>2 DEF InOrder
  <2>4. ~(current > g) BY <1>2, <2>2, <2>3
  <2> QED BY <2>1, <2>2, <2>4 DEF Gen
<1> QED BY <1>1, <1>2, <1>4, <1>5

\* While the service is starting or started, that worker has not been told to
\* end and nobody is in workerStop.
LEMMA Begun ==
  ASSUME TypeOK, Waited, First
  PROVE  /\ stopper = "nobody" /\ stopping = "none"
         /\ \E g \in Gen :
              /\ worker[g] \in {"begin", "ready", "loop"}
              /\ g \notin canceled
              /\ \A h \in Gen : Unfinished(h) => h = g
              /\ (\A h \in Gen : starter[h] # "made") => g = current
<1>1. PICK g \in Gen : /\ g \notin canceled
                       /\ worker[g] \in {"begin", "ready", "loop"}
  BY DEF Waited, AtStart, First
<1>2. Unfinished(g) BY <1>1 DEF Unfinished
<1>3. /\ starter[g] # "none"
      /\ \A h \in Gen : Unfinished(h) => h = g
      /\ starter[g] = "done" => g = current
  BY <1>2, OneUnfinished DEF Waited
<1>4. starter[g] # "made" => g = current BY <1>3 DEF TypeOK
<1> QED BY <1>1, <1>3, <1>4 DEF Waited, AtStart, First

LEMMA RunningKept ==
  ASSUME UNCHANGED <<taker, conns>>
  PROVE  \A g \in Gen : Running(g)' <=> Running(g)
BY DEF Running, conns

\* Whoever enters workerStop first finds the newest start in the field.
LEMMA EnterStopFirst ==
  ASSUME TypeOK, Waited, First, NEW who \in {"outside", "worker"},
         EnterStop(who), \A g \in Gen : starter[g] # "made",
         UNCHANGED <<starter, current, contexts, serve, open, taker, from,
                     conns>>,
         \/ UNCHANGED worker
         \/ /\ who = "worker"
            /\ \E g \in Gen : /\ worker[g] = "loop"
                              /\ worker' = [worker EXCEPT ![g] = "stop"]
  PROVE  InStep' /\ InOrder' /\ AtStart' /\ AtStop'
<1> USE DEF contexts
<1>1. /\ status' = "stopping"
      /\ stopper' = who /\ stopping' = "cancel" /\ awaited' = awaited
      /\ early' = early \cup {g \in Gen : worker[g] \in {"begin", "ready"}}
  BY DEF EnterStop, StatusSet
<1>2. stopper = "nobody" /\ stopping = "none" /\ current # 0
  BY Begun DEF Gen
<1>3. \A g \in Gen : Running(g)' <=> Running(g) BY RunningKept
<1>4. \A g \in Gen :
        /\ worker'[g] = worker[g] \/ (worker[g] = "loop" /\ worker'[g] = "stop")
        /\ worker'[g] = "stop" => who = "worker"
  <2>1. \A g \in Gen : worker[g] # "stop" BY <1>2 DEF Waited, AtStop
  <2>2. CASE UNCHANGED worker BY <2>1, <2>2
  <2>3. CASE /\ who = "worker"
             /\ \E g \in Gen : /\ worker[g] = "loop"
                               /\ worker' = [worker EXCEPT ![g] = "stop"]
    BY <2>3 DEF TypeOK
  <2> QED BY <2>2, <2>3
<1>5. InStep'
  <2> SUFFICES ASSUME NEW g \in Gen
               PROVE  /\ starter[g] = "none" <=> worker'[g] = "none"
                      /\ taker[g] = "none" <=> worker'[g] \in {"none", "begin"}
                      /\ Running(g) => taker[g] # "none"
                      /\ worker'[g] \in {"ready", "loop"} =>
                           /\ serve = g /\ g \in open
                           /\ taker[g] = "select" => from[g] = g
                      /\ g \in open =>
                           worker'[g] \in {"ready", "loop", "stop", "close",
                                           "panic"}
                      /\ g \in canceled => starter[g] = "done"
    BY <1>3 DEF InStep
  <2> QED BY <1>4 DEF Waited, InStep
<1>6. InOrder' BY <1>1, <1>3, <1>4 DEF Waited, InOrder
<1>7. AtStart' BY <1>1 DEF AtStart
<1>8. AtStop'
  <2>1. status' = "stopping" /\ stopping' = "cancel" /\ stopper' # "nobody"
    BY <1>1
  <2>2. \A g \in Gen : worker'[g] = "stop" => stopper' = "worker"
    BY <1>1, <1>4
  <2>3. \A g \in Gen : worker'[g] \in {"begin", "ready"} => g \in early'
    BY <1>1, <1>4
  <2> QED BY <1>2, <2>1, <2>2, <2>3 DEF AtStop
<1> QED BY <1>5, <1>6, <1>7, <1>8
-----------------------------------------------------------------------------
(* One lemma per step.                                                     *)

\* A Start that has waited finds every earlier worker gone and canceled.
LEMMA StartStep ==
  ASSUME TypeOK, Waited, ~hasty', NEW g \in Gen, Start(g)
  PROVE  InStep' /\ InOrder' /\ AtStart' /\ AtStop'
<1> USE DEF contexts, conns, workerStop, stops
<1>0. Gone BY Remembered DEF Start, TypeOK, Gone
<1>1. /\ status = "stopped" /\ status' = "starting"
      /\ starter[g] = "none" /\ ~down
      /\ \A h \in Gen : ~Unfinished(h)
      /\ \A h \in Gen : h < g => starter[h] # "none"
  BY <1>0 DEF Start, StatusSet, Gone, Unfinished
<1>2. /\ starter'[g] = "made" /\ worker'[g] = "begin"
      /\ \A h \in Gen \ {g} : starter'[h] = starter[h] /\ worker'[h] = worker[h]
  BY DEF Start, TypeOK
<1>3. UNCHANGED <<current, canceled, down, serve, open, taker, from, conn, via,
                  stopper, stopping, awaited, early>>
  BY DEF Start
<1>4. \A h \in Gen : Running(h)' <=> Running(h) BY <1>3, RunningKept
<1>5. worker[g] = "none" /\ taker[g] = "none" /\ g \notin open
      /\ g \notin canceled /\ g # current /\ ~Running(g)
  BY <1>1 DEF Waited, InStep, InOrder
<1>6. InStep' BY <1>2, <1>3, <1>4, <1>5 DEF Waited, InStep
<1>7. \A h \in Gen : starter[h] # "made" BY <1>1 DEF Waited, InOrder
<1>8. \A h \in Gen : h > g => starter[h] = "none"
  BY <1>1 DEF Waited, InOrder
<1>9. \A h \in Gen : h < g => /\ starter[h] = "done" /\ worker[h] = "gone"
                              /\ h \in canceled
                              /\ Running(h) => h \in early
  BY <1>1, <1>7 DEF Waited, InStep, AtStop, TypeOK, Unfinished
<1>10. InOrder'
  <2>1. \A h \in Gen : /\ starter'[h] = "done" => h <= current
                       /\ h = current => starter'[h] = "done"
                       /\ starter'[h] = "made" => h = g
    BY <1>2, <1>5, <1>7 DEF Waited, InOrder
  <2>2. ASSUME NEW a \in Gen, NEW b \in Gen, a < b, starter'[b] # "none"
        PROVE  /\ starter'[a] = "done" /\ worker'[a] = "gone" /\ a \in canceled
               /\ Running(a) => a \in early
    <3>1. CASE b = g BY <1>2, <1>9, <2>2, <3>1 DEF Gen
    <3>2. CASE b # g
      <4>1. starter[b] # "none" BY <1>2, <2>2, <3>2
      <4>2. /\ starter[a] = "done" /\ worker[a] = "gone" /\ a \in canceled
            /\ Running(a) => a \in early
        BY <2>2, <4>1 DEF Waited, InOrder
      <4> QED BY <1>1, <1>2, <4>2
    <3> QED BY <3>1, <3>2
  <2> QED BY <1>1, <1>3, <1>4, <2>1, <2>2 DEF InOrder
<1>11. AtStart'
  <2>1. stopper = "nobody" /\ stopping = "none" BY <1>1 DEF Waited, AtStop
  <2> QED BY <1>1, <1>2, <1>3, <1>5, <2>1 DEF AtStart
<1>12. AtStop'
  <2>1. \A h \in Gen : worker'[h] = "stop" => worker[h] = "stop" BY <1>2
  <2> QED BY <1>1, <1>3, <2>1 DEF Waited, AtStop
<1> QED BY <1>6, <1>10, <1>11, <1>12

LEMMA StartEndStep ==
  ASSUME TypeOK, Waited, NEW g \in Gen, StartEnd(g)
  PROVE  InStep' /\ InOrder' /\ AtStart' /\ AtStop'
<1> USE DEF contexts, conns, workerStop, stops
<1>1. /\ starter[g] = "made" /\ starter'[g] = "done" /\ current' = g
      /\ \A h \in Gen \ {g} : starter'[h] = starter[h]
      /\ UNCHANGED <<status, worker, canceled, down, serve, open, taker, from,
                     conn, via, stopper, stopping, awaited, early>>
  BY DEF StartEnd, TypeOK
<1>2. \A h \in Gen : Running(h)' <=> Running(h) BY <1>1, RunningKept
<1>3. status \in {"starting", "started"} BY <1>1 DEF Waited, InOrder
<1>4. \A h \in Gen : h > g => starter[h] = "none"
  BY <1>1 DEF Waited, InOrder
<1>5. InStep' BY <1>1, <1>2 DEF Waited, InStep
<1>6. InOrder'
  <2>1. \A h \in Gen : starter'[h] = "done" => h <= g
    BY <1>1, <1>4 DEF Gen
  <2>2. \A h \in Gen : starter'[h] = "none" <=> starter[h] = "none" BY <1>1
  <2>3. \A h \in Gen : starter[h] = "done" => starter'[h] = "done" BY <1>1
  <2>4. \A h \in Gen : starter'[h] = "made" => starter[h] = "made" BY <1>1
  <2> QED BY <1>1, <1>2, <2>1, <2>2, <2>3, <2>4 DEF Waited, InOrder
<1>7. AtStart' BY <1>1 DEF Waited, AtStart
<1>8. AtStop'
  <2>1. stopping = "none" BY <1>3 DEF Waited, AtStart
  <2> QED BY <1>1, <1>3, <2>1 DEF Waited, AtStop
<1> QED BY <1>5, <1>6, <1>7, <1>8

LEMMA WorkerBeginStep ==
  ASSUME TypeOK, Waited, NEW g \in Gen, WorkerBegin(g)
  PROVE  InStep' /\ InOrder' /\ AtStart' /\ AtStop'
<1> USE DEF contexts, conns, workerStop, stops
<1>1. /\ worker[g] = "begin" /\ worker'[g] = "ready"
      /\ serve' = g /\ open' = open \cup {g} /\ taker'[g] = "look"
      /\ \A h \in Gen \ {g} : worker'[h] = worker[h] /\ taker'[h] = taker[h]
      /\ UNCHANGED <<status, starter, current, canceled, down, from, conn, via,
                     stopper, stopping, awaited, early>>
  BY DEF WorkerBegin, TypeOK
<1>2. \A h \in Gen : Unfinished(h) => h = g
  BY <1>1, OneUnfinished DEF Waited, Unfinished
<1>3. \A h \in Gen : h # g => (Running(h)' <=> Running(h))
  BY <1>1 DEF Running
<1>4. InStep'
  <2>1. \A h \in Gen \ {g} : worker[h] \notin {"ready", "loop"}
    BY <1>2 DEF Unfinished
  <2> QED BY <1>1, <1>3, <2>1 DEF Waited, InStep
<1>5. InOrder'
  <2>1. \A h \in Gen : h > g => starter[h] = "none"
    BY <1>1, OneUnfinished DEF Waited, Unfinished
  <2>2. \A a, b \in Gen : a < b /\ starter[b] # "none" => a # g
    BY <2>1
  <2> QED BY <1>1, <1>3, <2>2 DEF Waited, InOrder
<1>6. AtStart'
  <2> SUFFICES ASSUME First PROVE AtStart'
    BY <1>1 DEF AtStart, First
  <2>1. PICK h \in Gen : /\ h \notin canceled
                         /\ worker[h] \in IF status = "starting"
                                            THEN {"begin", "ready"}
                                            ELSE {"loop"}
    BY DEF Waited, AtStart, First
  <2>2. h = g BY <1>2, <2>1 DEF Unfinished
  <2>3. status = "starting" BY <1>1, <2>1, <2>2
  <2> QED BY <1>1, <2>1, <2>2, <2>3 DEF Waited, AtStart
<1>7. AtStop'
  <2>1. \A h \in Gen : worker'[h] \in {"begin", "ready"} =>
                         worker[h] \in {"begin", "ready"}
    BY <1>1
  <2>2. \A h \in Gen : worker'[h] = "stop" => worker[h] = "stop" BY <1>1
  <2>3. status = "stopped" => \A h \in Gen : Running(h)' => h \in early
    BY <1>1, <1>3 DEF Waited, AtStop
  <2> QED BY <1>1, <2>1, <2>2, <2>3 DEF Waited, AtStop
<1> QED BY <1>4, <1>5, <1>6, <1>7

\* It panics only if a stop came first.
LEMMA WorkerStartedStep ==
  ASSUME TypeOK, Waited, NEW g \in Gen, WorkerStarted(g)
  PROVE  InStep' /\ InOrder' /\ AtStart' /\ AtStop'
<1> USE DEF contexts, conns, workerStop, stops
<1>1. /\ worker[g] = "ready"
      /\ IF status = "starting" THEN worker'[g] = "loop" /\ status' = "started"
                                ELSE worker'[g] = "panic" /\ status' = status
      /\ \A h \in Gen \ {g} : worker'[h] = worker[h]
      /\ UNCHANGED <<starter, current, canceled, down, serve, open, taker, from,
                     conn, via, stopper, stopping, awaited, early>>
  BY DEF WorkerStarted, StatusSet, TypeOK
<1>2. \A h \in Gen : Unfinished(h) => h = g
  BY <1>1, OneUnfinished DEF Waited, Unfinished
<1>3. \A h \in Gen : Running(h)' <=> Running(h) BY <1>1, RunningKept
<1>4. InStep' BY <1>1, <1>3 DEF Waited, InStep
<1>5. status # "started"
  <2> SUFFICES ASSUME status = "started" PROVE FALSE
    OBVIOUS
  <2>1. PICK h \in Gen : worker[h] = "loop" BY DEF Waited, AtStart
  <2> QED BY <1>1, <1>2, <2>1 DEF Unfinished
<1>6. InOrder'
  <2>1. \A h \in Gen : worker[h] = "gone" => worker'[h] = "gone" BY <1>1
  <2>2. \A h \in Gen : starter[h] = "made" => status' \in {"starting", "started"}
    BY <1>1 DEF Waited, InOrder
  <2> QED BY <1>1, <1>3, <2>1, <2>2 DEF Waited, InOrder
<1>7. AtStart'
  <2>1. CASE status = "starting"
    <3>1. PICK h \in Gen :
            /\ h \notin canceled /\ worker[h] \in {"begin", "ready"}
            /\ worker[h] # "begin" => taker[h] \in {"look", "select"} \/ down
      BY <2>1 DEF Waited, AtStart
    <3>2. h = g BY <1>2, <3>1 DEF Unfinished
    <3>3. stopper = "nobody" /\ stopping = "none"
      BY <2>1 DEF Waited, AtStart
    <3> QED BY <1>1, <2>1, <3>1, <3>2, <3>3 DEF AtStart
  <2>2. CASE status # "starting" BY <1>1, <1>5, <2>2 DEF AtStart
  <2> QED BY <2>1, <2>2
<1>8. AtStop'
  <2>1. \A h \in Gen : worker'[h] \in {"begin", "ready", "stop"} =>
                         worker'[h] = worker[h]
    BY <1>1
  <2>2. status' \in {"stopping", "stopped"} => status' = status BY <1>1
  <2>3. status' = "stopping" <=> status = "stopping" BY <1>1
  <2> QED BY <1>1, <1>3, <2>1, <2>2, <2>3 DEF Waited, AtStop
<1> QED BY <1>4, <1>6, <1>7, <1>8
\* A step of a worker in which it only gets nearer to its end.
LEMMA WorkerLeaves ==
  ASSUME TypeOK, Waited, NEW g \in Gen, Unfinished(g),
         worker'[g] \in {"close", "handler", "gone"},
         \A h \in Gen \ {g} : worker'[h] = worker[h],
         worker[g] \notin {"begin", "ready"},
         First => worker[g] # "loop",
         g \in open' => worker'[g] = "close",
         open' \subseteq open, \A h \in Gen \ {g} : h \in open => h \in open',
         UNCHANGED <<status, starter, current, contexts, serve, taker, from,
                     conns, stops>>
  PROVE  InStep' /\ InOrder' /\ AtStart' /\ AtStop'
<1> USE DEF contexts, conns, workerStop, stops
<1>1. \A h \in Gen : Unfinished(h) => h = g
  BY OneUnfinished DEF Waited
<1>2. \A h \in Gen : Running(h)' <=> Running(h) BY RunningKept
<1>3. InStep'
  <2>1. worker[g] # "none" /\ starter[g] # "none" /\ taker[g] # "none"
    BY DEF Waited, InStep, Unfinished
  <2>2. \A h \in Gen \ {g} : worker[h] \in {"none", "gone"}
    BY <1>1 DEF Unfinished
  <2> QED BY <1>2, <2>1, <2>2 DEF Waited, InStep
<1>4. InOrder'
  <2>1. \A h \in Gen : worker[h] = "gone" => worker'[h] = "gone"
    BY DEF Unfinished
  <2> QED BY <1>2, <2>1 DEF Waited, InOrder
<1>5. ~First
  <2> SUFFICES ASSUME First PROVE FALSE
    OBVIOUS
  <2>1. PICK h \in Gen : worker[h] \in {"begin", "ready", "loop"} BY Begun
  <2> QED BY <1>1, <2>1 DEF Unfinished
<1>6. AtStart' BY <1>5 DEF AtStart, First
<1>7. AtStop'
  <2>1. \A h \in Gen : worker'[h] \in {"begin", "ready", "stop"} =>
                         worker'[h] = worker[h]
    OBVIOUS
  <2> QED BY <1>2, <2>1 DEF Waited, AtStop
<1> QED BY <1>3, <1>4, <1>6, <1>7

\* A worker whose context ends is the first to stop only when the context given
\* to New has ended: nothing else has canceled it.
LEMMA WorkerDoneFirst ==
  ASSUME TypeOK, Waited, First, NEW g \in Gen, WorkerDone(g)
  PROVE  down
<1>1. worker[g] = "loop" /\ Done(g) BY DEF WorkerDone
<1>2. PICK h \in Gen : /\ h \notin canceled
                       /\ \A k \in Gen : Unfinished(k) => k = h
  BY Begun
<1>3. g = h BY <1>1, <1>2 DEF Unfinished
<1> QED BY <1>1, <1>2, <1>3 DEF Done

LEMMA WorkerDoneStep ==
  ASSUME TypeOK, Waited, NEW g \in Gen, WorkerDone(g)
  PROVE  InStep' /\ InOrder' /\ AtStart' /\ AtStop'
<1>1. CASE First
  <2>1. down BY <1>1, WorkerDoneFirst
  <2>2. \A h \in Gen : starter[h] # "made" BY <2>1 DEF Waited, InOrder
  <2>3. /\ EnterStop("worker") /\ worker[g] = "loop"
        /\ worker' = [worker EXCEPT ![g] = "stop"]
        /\ UNCHANGED <<starter, current, contexts, serve, open, taker, from,
                       conns>>
    BY <1>1 DEF WorkerDone
  <2> QED BY <1>1, <2>2, <2>3, EnterStopFirst
<1>2. CASE ~First
  <2>1. /\ worker[g] = "loop" /\ worker' = [worker EXCEPT ![g] = "close"]
        /\ UNCHANGED <<status, starter, current, contexts, serve, open, taker,
                       from, conns, stops>>
    BY <1>2 DEF WorkerDone, EnterStop, stops
  <2>2. Unfinished(g) BY <2>1 DEF Unfinished
  <2>3. /\ worker'[g] = "close"
        /\ \A h \in Gen \ {g} : worker'[h] = worker[h]
    BY <2>1 DEF TypeOK
  <2> QED BY <1>2, <2>1, <2>2, <2>3, WorkerLeaves
<1> QED BY <1>1, <1>2

LEMMA WorkerCloseStep ==
  ASSUME TypeOK, Waited, NEW g \in Gen, WorkerClose(g)
  PROVE  InStep' /\ InOrder' /\ AtStart' /\ AtStop'
<1>1. /\ worker[g] \in {"close", "panic"} /\ open' = open \ {g}
      /\ worker'[g] \in {"handler", "gone"}
      /\ \A h \in Gen \ {g} : worker'[h] = worker[h]
      /\ UNCHANGED <<status, starter, current, contexts, serve, taker, from,
                     conns, stops>>
  BY DEF WorkerClose, TypeOK
<1>2. Unfinished(g) BY <1>1 DEF Unfinished
<1> QED BY <1>1, <1>2, WorkerLeaves

\* The handler of a worker's panic is never the first to stop.
LEMMA HandlerNotFirst ==
  ASSUME TypeOK, Waited, NEW g \in Gen, worker[g] = "handler"
  PROVE  ~First
<1> SUFFICES ASSUME First PROVE FALSE
  OBVIOUS
<1>1. PICK h \in Gen : /\ worker[h] \in {"begin", "ready", "loop"}
                       /\ \A k \in Gen : Unfinished(k) => k = h
  BY Begun
<1> QED BY <1>1 DEF Unfinished

LEMMA WorkerHandlerStep ==
  ASSUME TypeOK, Waited, NEW g \in Gen, WorkerHandler(g)
  PROVE  InStep' /\ InOrder' /\ AtStart' /\ AtStop'
<1>1. worker[g] = "handler" BY DEF WorkerHandler
<1>2. ~First BY <1>1, HandlerNotFirst
<1>3. /\ worker' = [worker EXCEPT ![g] = "gone"]
      /\ UNCHANGED <<status, starter, current, contexts, serve, open, taker,
                     from, conns, stops>>
  BY <1>2 DEF WorkerHandler, EnterStop, stops
<1>4. /\ worker'[g] = "gone" /\ \A h \in Gen \ {g} : worker'[h] = worker[h]
  BY <1>3 DEF TypeOK
<1>5. Unfinished(g) BY <1>1 DEF Unfinished
<1>6. g \notin open BY <1>1 DEF Waited, InStep
<1> QED BY <1>1, <1>3, <1>4, <1>5, <1>6, WorkerLeaves

LEMMA StopStep ==
  ASSUME TypeOK, Waited, ~hasty', Stop
  PROVE  InStep' /\ InOrder' /\ AtStart' /\ AtStop'
<1>1. Returned BY Remembered DEF Stop, TypeOK, Returned
<1> QED BY <1>1, EnterStopFirst DEF Stop, Returned

LEMMA StopCancelStep ==
  ASSUME TypeOK, Waited, StopCancel
  PROVE  InStep' /\ InOrder' /\ AtStart' /\ AtStop'
<1> USE DEF contexts, conns, workerStop, stops
<1>1. status = "stopping" /\ stopper # "nobody" /\ current # 0
  BY DEF Waited, AtStop, StopCancel
<1>2. /\ canceled' = canceled \cup {current} /\ stopping' = "wait"
      /\ UNCHANGED <<status, starter, current, worker, down, serve, open,
                     taker, from, conn, via, stopper, awaited, early>>
  BY <1>1 DEF StopCancel
<1>3. \A h \in Gen : Running(h)' <=> Running(h) BY <1>2, RunningKept
<1>4. InStep' BY <1>2, <1>3 DEF Waited, InStep, InOrder
<1>5. InOrder' BY <1>2, <1>3 DEF Waited, InOrder
<1>6. AtStart' BY <1>1, <1>2 DEF AtStart
<1>7. AtStop' BY <1>1, <1>2 DEF Waited, AtStop
<1> QED BY <1>4, <1>5, <1>6, <1>7

LEMMA StopWaitStep ==
  ASSUME TypeOK, Waited, StopWait
  PROVE  InStep' /\ InOrder' /\ AtStart' /\ AtStop'
<1> USE DEF contexts, conns, workerStop, stops
<1>1. status = "stopping" BY DEF Waited, AtStop, StopWait
<1>2. /\ stopping = "wait" /\ stopping' = "finish" /\ awaited' = current
      /\ UNCHANGED <<status, starter, current, worker, canceled, down, serve,
                     open, taker, from, conn, via, stopper, early>>
  BY DEF StopWait
<1>3. \A h \in Gen : Running(h)' <=> Running(h) BY <1>2, RunningKept
<1>4. InStep' BY <1>2, <1>3 DEF Waited, InStep
<1>5. InOrder' BY <1>2, <1>3 DEF Waited, InOrder
<1>6. AtStart' BY <1>1, <1>2 DEF AtStart
<1>7. AtStop' BY <1>1, <1>2 DEF Waited, AtStop
<1> QED BY <1>4, <1>5, <1>6, <1>7

\* Everything of the worker that was awaited has ended, and the earlier ones
\* are canceled and left nothing that is not marked.
LEMMA StopFinishStep ==
  ASSUME TypeOK, Waited, StopFinish
  PROVE  InStep' /\ InOrder' /\ AtStart' /\ AtStop'
<1> USE DEF contexts, conns, workerStop, stops
<1>1. /\ stopping = "finish" /\ status' = "stopped" /\ ~Running(awaited)
      /\ stopper' = "nobody" /\ stopping' = "none"
      /\ UNCHANGED <<starter, current, canceled, down, serve, open, taker,
                     from, conn, via, early>>
  BY DEF StopFinish, StatusSet
<1>2. /\ status = "stopping" /\ awaited = current /\ current # 0
      /\ current \in canceled
  BY <1>1 DEF Waited, AtStop
<1>3. \A h \in Gen :
        worker'[h] = IF worker[h] = "stop"
                       THEN IF h \in open THEN "close" ELSE "gone"
                       ELSE worker[h]
  BY DEF StopFinish, AfterStop
<1>4. \A h \in Gen : Running(h)' <=> Running(h) BY <1>1, RunningKept
<1>5. InStep' BY <1>1, <1>3, <1>4 DEF Waited, InStep
<1>6. \A h \in Gen : starter[h] # "made" BY <1>2 DEF Waited, InOrder
<1>7. InOrder'
  <2>1. \A h \in Gen : worker[h] = "gone" => worker'[h] = "gone" BY <1>3
  <2> QED BY <1>1, <1>4, <1>6, <2>1 DEF Waited, InOrder
<1>8. AtStart' BY <1>1 DEF AtStart
<1>9. AtStop'
  <2>1. current \in Gen /\ starter[current] = "done"
    BY <1>2 DEF TypeOK, Gen, Waited, InOrder
  <2>2. ASSUME NEW h \in Gen, starter[h] # "none"
        PROVE  h \in canceled /\ (Running(h) => h \in early)
    <3>1. h <= current BY <1>6, <2>2 DEF Waited, InOrder, TypeOK
    <3>2. CASE h = current BY <1>1, <1>2, <3>2
    <3>3. CASE h # current
      <4>1. h < current BY <2>1, <3>1, <3>3 DEF Gen
      <4> QED BY <2>1, <4>1 DEF Waited, InOrder
    <3> QED BY <3>2, <3>3
  <2>3. \A h \in Gen : starter[h] = "none" => ~Running(h)
    BY DEF Waited, InStep
  <2>4. \A h \in Gen : worker'[h] # "stop" BY <1>3
  <2>5. \A h \in Gen : worker'[h] \in {"begin", "ready"} =>
                         worker'[h] = worker[h]
    BY <1>3
  <2>6. \A h \in Gen : worker'[h] \in {"begin", "ready"} => h \in early
    BY <1>2, <2>5 DEF Waited, AtStop
  <2> QED BY <1>1, <1>4, <2>2, <2>3, <2>4, <2>6 DEF AtStop
<1> QED BY <1>5, <1>7, <1>8, <1>9

LEMMA GlobDoneStep ==
  ASSUME TypeOK, Waited, ~hasty', GlobDone
  PROVE  InStep' /\ InOrder' /\ AtStart' /\ AtStop'
<1> USE DEF contexts, conns, workerStop, stops
<1>0. Returned BY Remembered DEF GlobDone, TypeOK, Returned
<1>1. /\ down' = TRUE /\ \A h \in Gen : starter[h] # "made"
      /\ UNCHANGED <<status, starter, current, worker, canceled, serve, open,
                     taker, from, conn, via, stopper, stopping, awaited, early>>
  BY <1>0 DEF GlobDone, Returned
<1>2. \A h \in Gen : Running(h)' <=> Running(h) BY <1>1, RunningKept
<1>3. InStep' BY <1>1, <1>2 DEF Waited, InStep
<1>4. InOrder' BY <1>1, <1>2 DEF Waited, InOrder
<1>5. AtStart' BY <1>1 DEF Waited, AtStart
<1>6. AtStop' BY <1>1, <1>2 DEF Waited, AtStop
<1> QED BY <1>3, <1>4, <1>5, <1>6

\* A step of a conn.worker or of a connection.
LEMMA ConnsStep ==
  ASSUME TypeOK, Waited,
         \/ \E g \in Gen : Taker(g)
         \/ \E c \in Conn : ConnServe(c) \/ ConnRefused(c) \/ ConnEnd(c)
  PROVE  InStep' /\ InOrder' /\ AtStart' /\ AtStop'
<1> USE DEF contexts, conns, workerStop, stops
<1>1. UNCHANGED <<status, starter, current, worker, canceled, down, serve,
                  open, stopper, stopping, awaited, early>>
  BY DEF Taker, TakerLook, TakerEnd, TakerServe, ConnServe, ConnRefused, ConnEnd
<1>2. /\ \A h \in Gen : Running(h)' => Running(h)
      /\ \A h \in Gen : taker'[h] = "none" <=> taker[h] = "none"
      /\ \A h \in Gen : taker'[h] = "select" =>
           from'[h] = serve \/ (taker[h] = "select" /\ from'[h] = from[h])
      /\ \A h \in Gen : taker[h] \in {"look", "select"} =>
           \/ taker'[h] \in {"look", "select"}
           \/ taker[h] = "select" /\ (Done(h) \/ from[h] \notin open)
  <2>1. CASE \E g \in Gen : TakerLook(g)
    BY <2>1 DEF TakerLook, Running, TypeOK
  <2>2. CASE \E g \in Gen : TakerEnd(g)
    BY <2>2 DEF TakerEnd, Running, TypeOK
  <2>3. CASE \E g \in Gen, c \in Conn : TakerServe(g, c)
    BY <2>3 DEF TakerServe, Running, TypeOK
  <2>4. CASE \E c \in Conn : ConnServe(c) \/ ConnRefused(c) \/ ConnEnd(c)
    BY <2>4 DEF ConnServe, ConnRefused, ConnEnd, Running, TypeOK
  <2> QED BY <2>1, <2>2, <2>3, <2>4 DEF Taker
<1>3. InStep' BY <1>1, <1>2 DEF Waited, InStep
<1>4. InOrder' BY <1>1, <1>2 DEF Waited, InOrder
<1>5. AtStart'
  <2> SUFFICES ASSUME First PROVE AtStart'
    BY <1>1 DEF AtStart, First
  <2>1. PICK g \in Gen :
          /\ g \notin canceled
          /\ worker[g] \in IF status = "starting" THEN {"begin", "ready"}
                           ELSE {"loop"}
          /\ worker[g] # "begin" => taker[g] \in {"look", "select"} \/ down
    BY DEF Waited, AtStart, First
  <2>2. ASSUME worker[g] # "begin"
        PROVE  taker'[g] \in {"look", "select"} \/ down
    <3>1. worker[g] \in {"ready", "loop"} BY <2>1, <2>2
    <3>2. serve = g /\ g \in open /\ (taker[g] = "select" => from[g] = g)
      BY <3>1 DEF Waited, InStep
    <3> QED BY <1>2, <2>1, <2>2, <3>2 DEF Done
  <2>3. stopper = "nobody" /\ stopping = "none" BY Begun
  <2> QED BY <1>1, <2>1, <2>2, <2>3 DEF AtStart
<1>6. AtStop' BY <1>1, <1>2 DEF Waited, AtStop
<1> QED BY <1>3, <1>4, <1>5, <1>6

LEMMA StutterStep ==
  ASSUME TypeOK, Waited,
         \/ UNCHANGED vars
         \/ \E w \in Waiter, st \in WaitedFor : StatusWait(w, st)
  PROVE  InStep' /\ InOrder' /\ AtStart' /\ AtStop'
<1>1. UNCHANGED <<status, starter, current, worker, canceled, down, serve,
                  open, taker, from, conn, via, stopper, stopping, awaited,
                  early>>
  BY DEF StatusWait, vars, contexts, conns, workerStop, stops
<1>2. \A h \in Gen : Running(h)' <=> Running(h)
  BY <1>1, RunningKept DEF conns
<1>3. InStep' BY <1>1, <1>2 DEF Waited, InStep
<1>4. InOrder' BY <1>1, <1>2 DEF Waited, InOrder
<1>5. AtStart' /\ AtStop' BY <1>1, <1>2 DEF Waited, AtStart, AtStop
<1> QED BY <1>3, <1>4, <1>5

LEMMA IInvStep == IInv /\ [Next]_vars => IInv'
<1> SUFFICES ASSUME IInv, [Next]_vars PROVE IInv'
  OBVIOUS
<1>1. TypeOK' BY TypeStep DEF IInv, Waited, AtStop
<1> SUFFICES ASSUME ~hasty' PROVE Waited'
  BY <1>1 DEF IInv
<1>h. ~hasty BY HastyStep DEF IInv
<1> USE <1>h DEF IInv
<1>2. AllTold' BY ToldStep DEF Waited
<1>3. InStep' /\ InOrder' /\ AtStart' /\ AtStop'
  BY StartStep, StartEndStep, WorkerBeginStep, WorkerStartedStep,
     WorkerDoneStep, WorkerCloseStep, WorkerHandlerStep, StopStep,
     StopCancelStep, StopWaitStep, StopFinishStep, GlobDoneStep, ConnsStep,
     StutterStep
  DEF Next, Worker, Stopper
<1> QED BY <1>2, <1>3 DEF Waited

-----------------------------------------------------------------------------
(* The theorems.                                                           *)

\* The inductive invariant holds in every reachable state, whatever callers do;
\* what it says of those who wait, as long as they do.
THEOREM Invariance == Spec => []IInv
BY InitIInv, IInvStep, PTL DEF Spec

\* What the status says is so (status.go, service.go): when the service of
\* callers who wait is stopped nothing is served that was not met by a stop
\* before its worker's loop, and what is has a context that is done; when it is
\* started, ConnServe finds an open channel and somebody to take from it.
THEOREM StatusTrue == Spec => []StatusTells
<1>1. ASSUME IInv PROVE StatusTells
  <2> USE <1>1 DEF IInv
  <2>1. StoppedQuiet
    <3> SUFFICES ASSUME ~hasty, status = "stopped"
                 PROVE  /\ \A g \in Gen : Running(g) => g \in early /\ Done(g)
                        /\ \A w \in Waiter : waiter[w] # "stopped"
      BY DEF StoppedQuiet
    <3>1. \A w \in Waiter : waiter[w] # "stopped" BY DEF Waited, AllTold
    <3>2. \A g \in Gen : Running(g) => starter[g] # "none"
      BY DEF Waited, InStep
    <3> QED BY <3>1, <3>2 DEF Waited, AtStop, Done
  <2>2. StartedServes
    <3> SUFFICES ASSUME status = "started", ~hasty
                 PROVE  \E g \in Gen :
                          /\ worker[g] = "loop"
                          /\ serve = g /\ g \in open
                          /\ Done(g) \/ taker[g] \in {"look", "select"}
      BY DEF StartedServes
    <3>1. PICK g \in Gen : /\ worker[g] = "loop"
                           /\ taker[g] \in {"look", "select"} \/ down
      BY DEF Waited, AtStart
    <3>2. serve = g /\ g \in open BY <3>1 DEF Waited, InStep
    <3> QED BY <3>1, <3>2 DEF Done
  <2> QED BY <2>1, <2>2 DEF StatusTells
<1> QED BY <1>1, Invariance, PTL

=============================================================================
