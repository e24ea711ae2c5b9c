------------------------------ MODULE Service -------------------------------
(***************************************************************************)
(* The lifecycle of the service (service/task-manager: service.go,         *)
(* status.go, worker.go, conn.go): Start makes a worker, the worker a      *)
(* conn.worker that takes connections from ConnServe, and whoever brings   *)
(* the service down (Stop, the worker itself when its context is done, the *)
(* worker's panic handler) goes through workerStop.                        *)
(*                                                                         *)
(* A worker is numbered by its Start, and so is the channel s.conn.serve   *)
(* it makes; 0 is nil as a worker, and as a channel the closed one of New. *)
(* The fields s.ctx.worker and s.conn.serve are read and written without   *)
(* a lock, so every access to them is an action of its own.                *)
(*                                                                         *)
(* Contexts are external (go-context.v2): Cancel ends the context and      *)
(* those below it; ChildsFinished(true) waits until no goroutine below the *)
(* context runs, which one that panics no longer does.                     *)
(***************************************************************************)
EXTENDS Naturals, FiniteSets

CONSTANTS Conn,      \* calls of ConnServe, with their connections
          Waiter,    \* calls of StatusWait
          WaitedFor, \* the statuses they are for
          MaxStarts  \* calls of Start that find the service stopped (a bound)

ASSUME StartsAssumption == MaxStarts \in Nat \ {0}

VARIABLES
  status,   \* s.status.v
  waiter,   \* per StatusWait: idle, the status it waits for, or closed
  starter,  \* per Start: none, made (the worker goes), done
  current,  \* s.ctx.worker
  worker,   \* per worker: none, begin, ready (its channel is made, conn.worker
            \*   started), loop, stop (in workerStop), close, panic, handler, gone
  canceled, \* workers whose context has been canceled
  down,     \* the context given to New is done
  serve,    \* s.conn.serve
  open,     \* the channels that are open
  taker,    \* per worker, its conn.worker: none, look, select, gone
  from,     \* the channel that select is receiving from
  conn,     \* per ConnServe: idle, offer, served, ended, refused
  via,      \* per ConnServe: the channel it offers to, then its worker
  stopper,  \* who is in workerStop: nobody, outside, a worker
  stopping, \* where: cancel, wait, finish; or crashed (nil dereferenced)
  awaited,  \* the worker whose children it waits for
  early,    \* of the properties: workers a stop has met before their loop
  hasty     \* of the properties: a caller has not waited (Returned, Gone)

contexts == <<canceled, down>>
conns == <<conn, via>>
workerStop == <<stopper, stopping, awaited, early>>
stops == <<workerStop, hasty>>
vars == <<status, waiter, starter, current, worker, contexts, serve, open,
          taker, from, conns, stops>>

Status == {"stopped", "starting", "started", "stopping"}

ASSUME WaitedForAssumption == WaitedFor \subseteq Status

Gen == 1 .. MaxStarts
Done(g) == down \/ g \in canceled

TypeOK ==
  /\ status \in Status
  /\ waiter \in [Waiter -> Status \cup {"idle", "closed"}]
  /\ starter \in [Gen -> {"none", "made", "done"}]
  /\ current \in 0 .. MaxStarts
  /\ worker \in [Gen -> {"none", "begin", "ready", "loop", "stop", "close",
                         "panic", "handler", "gone"}]
  /\ canceled \subseteq Gen
  /\ down \in BOOLEAN
  /\ serve \in 0 .. MaxStarts
  /\ open \subseteq Gen
  /\ taker \in [Gen -> {"none", "look", "select", "gone"}]
  /\ from \in [Gen -> 0 .. MaxStarts]
  /\ conn \in [Conn -> {"idle", "offer", "served", "ended", "refused"}]
  /\ via \in [Conn -> 0 .. MaxStarts]
  /\ stopper \in {"nobody", "outside", "worker"}
  /\ stopping \in {"none", "cancel", "wait", "finish"} \cup
                  (IF hasty THEN {"crashed"} ELSE {})
  /\ awaited \in 0 .. MaxStarts
  /\ early \subseteq Gen
  /\ hasty \in BOOLEAN

\* New.
Init ==
  /\ status = "stopped"
  /\ waiter = [w \in Waiter |-> "idle"]
  /\ starter = [g \in Gen |-> "none"]
  /\ current = 0
  /\ worker = [g \in Gen |-> "none"]
  /\ canceled = {} /\ down = FALSE
  /\ serve = 0 /\ open = {}
  /\ taker = [g \in Gen |-> "none"]
  /\ from = [g \in Gen |-> 0]
  /\ conn = [c \in Conn |-> "idle"]
  /\ via = [c \in Conn |-> 0]
  /\ stopper = "nobody" /\ stopping = "none" /\ awaited = 0
  /\ early = {} /\ hasty = FALSE

-----------------------------------------------------------------------------
(* status.go.                                                              *)

\* statusSet: the new status, and everyone who waits for it.
StatusSet(new) ==
  /\ status' = new
  /\ waiter' = [w \in Waiter |-> IF waiter[w] = new THEN "closed"
                                 ELSE waiter[w]]

StatusWait(w, st) ==
  /\ waiter[w] = "idle"
  /\ waiter' = [waiter EXCEPT ![w] = IF status = st THEN "closed" ELSE st]
  /\ UNCHANGED <<status, starter, current, worker, contexts, serve, open,
                 taker, from, conns, stops>>

-----------------------------------------------------------------------------
(* Start.                                                                  *)

\* Nobody has to wait for Start to return before bringing the service down (the
\* status is Started earlier), nor for the worker of one Start before the next
\* (the status is Stopped earlier, and no call of the service tells the
\* difference).  What is said below of callers who do wait is said of ~hasty.
Returned == \A g \in Gen : starter[g] # "made"
Gone == ~down /\ \A g \in Gen : worker[g] \in {"none", "gone"}

Needs(waited) == hasty' = (hasty \/ ~waited)

\* statusSet(Starting, Stopped) and Child("worker").Go() ...
Start(g) ==
  /\ status = "stopped"
  /\ starter[g] = "none"
  /\ \A h \in Gen : h < g => starter[h] # "none"
  /\ Needs(Gone)
  /\ StatusSet("starting")
  /\ starter' = [starter EXCEPT ![g] = "made"]
  /\ worker' = [worker EXCEPT ![g] = "begin"]
  /\ UNCHANGED <<current, contexts, serve, open, taker, from, conns, workerStop>>

\* ... and only then s.ctx.worker is set.
StartEnd(g) ==
  /\ starter[g] = "made"
  /\ starter' = [starter EXCEPT ![g] = "done"]
  /\ current' = g
  /\ UNCHANGED <<status, waiter, worker, contexts, serve, open, taker, from,
                 conns, stops>>

-----------------------------------------------------------------------------
(* workerStart.                                                            *)

\* A new s.conn.serve, and conn.worker.
WorkerBegin(g) ==
  /\ worker[g] = "begin"
  /\ worker' = [worker EXCEPT ![g] = "ready"]
  /\ serve' = g
  /\ open' = open \cup {g}
  /\ taker' = [taker EXCEPT ![g] = "look"]
  /\ UNCHANGED <<status, waiter, starter, current, contexts, from, conns, stops>>

\* statusSet(Started, Starting), or a panic.
WorkerStarted(g) ==
  /\ worker[g] = "ready"
  /\ IF status = "starting"
       THEN /\ StatusSet("started")
            /\ worker' = [worker EXCEPT ![g] = "loop"]
       ELSE /\ worker' = [worker EXCEPT ![g] = "panic"]
            /\ UNCHANGED <<status, waiter>>
  /\ UNCHANGED <<starter, current, contexts, serve, open, taker, from, conns,
                 stops>>

\* A goroutine enters workerStop: it goes on if it is the first, otherwise
\* returns at once.
First == status \in {"starting", "started"}

EnterStop(who) ==
  IF First
    THEN /\ StatusSet("stopping")
         /\ stopper' = who /\ stopping' = "cancel"
         /\ early' = early \cup {g \in Gen : worker[g] \in {"begin", "ready"}}
         /\ UNCHANGED awaited
    ELSE UNCHANGED <<status, waiter, workerStop>>

\* Mutant: the worker just ends.
WorkerDoneOnly(g) ==
  /\ worker[g] = "loop"
  /\ Done(g)
  /\ worker' = [worker EXCEPT ![g] = "close"]
  /\ UNCHANGED <<status, waiter, starter, current, contexts, serve, open, taker,
                 from, conns, stops>>

\* The context is done.
WorkerDone(g) ==
  /\ worker[g] = "loop"
  /\ Done(g)
  /\ EnterStop("worker")
  /\ worker' = [worker EXCEPT ![g] = IF First THEN "stop" ELSE "close"]
  /\ UNCHANGED <<starter, current, contexts, serve, open, taker, from, conns,
                 hasty>>

\* close(s.conn.serve): the channel of this worker, whatever the field says now.
WorkerClose(g) ==
  /\ worker[g] \in {"close", "panic"}
  /\ worker' = [worker EXCEPT ![g] = IF @ = "close" THEN "gone" ELSE "handler"]
  /\ open' = open \ {g}
  /\ UNCHANGED <<status, waiter, starter, current, contexts, serve, taker,
                 from, conns, stops>>

\* workerPanicHandler for the panic of the worker itself.
WorkerHandler(g) ==
  /\ worker[g] = "handler"
  /\ EnterStop("worker")
  /\ worker' = [worker EXCEPT ![g] = IF First THEN "stop" ELSE "gone"]
  /\ UNCHANGED <<starter, current, contexts, serve, open, taker, from, conns,
                 hasty>>

-----------------------------------------------------------------------------
(* workerStop, after its first statusSet.                                  *)

\* Stop, or workerPanicHandler for the panic of a goroutine below a worker.
Stop ==
  /\ First
  /\ EnterStop("outside")
  /\ Needs(Returned)
  /\ UNCHANGED <<starter, current, worker, contexts, serve, open, taker, from,
                 conns>>

\* s.ctx.worker.Cancel(reason): of the worker the field names now.
StopCancel ==
  /\ stopping = "cancel"
  /\ IF current = 0
       THEN stopping' = "crashed" /\ UNCHANGED canceled
       ELSE stopping' = "wait" /\ canceled' = canceled \cup {current}
  /\ UNCHANGED <<status, waiter, starter, current, worker, down, serve, open,
                 taker, from, conns, stopper, awaited, early, hasty>>

\* s.ctx.worker.ChildsFinished(true): of the worker the field names now.
StopWait ==
  /\ stopping = "wait"
  /\ stopping' = "finish"
  /\ awaited' = current
  /\ UNCHANGED <<status, waiter, starter, current, worker, contexts, serve,
                 open, taker, from, conns, stopper, early, hasty>>

Running(g) == \/ taker[g] \in {"look", "select"}
              \/ \E c \in Conn : conn[c] = "served" /\ via[c] = g

\* Where a worker that is in workerStop goes on: to its deferred close, or,
\* if it has closed already (it has panicked), nowhere.
AfterStop(g) == IF g \in open THEN "close" ELSE "gone"

\* Mutant: the children are not waited for.
StopFinishAtOnce ==
  /\ stopping = "finish"
  /\ StatusSet("stopped")
  /\ stopper' = "nobody" /\ stopping' = "none" /\ awaited' = 0
  /\ UNCHANGED <<early, hasty>>
  /\ worker' = [g \in Gen |-> IF worker[g] = "stop" THEN AfterStop(g)
                              ELSE worker[g]]
  /\ UNCHANGED <<starter, current, contexts, serve, open, taker, from, conns>>

StopFinish ==
  /\ stopping = "finish"
  /\ ~Running(awaited)
  /\ StatusSet("stopped")
  /\ stopper' = "nobody" /\ stopping' = "none" /\ awaited' = 0
  /\ UNCHANGED <<early, hasty>>
  /\ worker' = [g \in Gen |-> IF worker[g] = "stop" THEN AfterStop(g)
                              ELSE worker[g]]
  /\ UNCHANGED <<starter, current, contexts, serve, open, taker, from, conns>>

\* The context given to New ends: every worker's does.
GlobDone ==
  /\ ~down
  /\ down' = TRUE
  /\ Needs(Returned)
  /\ UNCHANGED <<status, waiter, starter, current, worker, canceled, serve,
                 open, taker, from, conns, workerStop>>

-----------------------------------------------------------------------------
(* conn.go.                                                                *)

\* connWorker evaluates s.conn.serve whenever it enters its select.
TakerLook(g) ==
  /\ taker[g] = "look"
  /\ taker' = [taker EXCEPT ![g] = "select"]
  /\ from' = [from EXCEPT ![g] = serve]
  /\ UNCHANGED <<status, waiter, starter, current, worker, contexts, serve,
                 open, conns, stops>>

\* A connection; select may prefer it to a context that is done.
TakerServe(g, c) ==
  /\ taker[g] = "select"
  /\ conn[c] = "offer" /\ via[c] = from[g] /\ via[c] \in open
  /\ taker' = [taker EXCEPT ![g] = "look"]
  /\ conn' = [conn EXCEPT ![c] = "served"]
  /\ via' = [via EXCEPT ![c] = g]
  /\ UNCHANGED <<status, waiter, starter, current, worker, contexts, serve,
                 open, from, stops>>

\* Mutant: the context is not looked at.
TakerEndClosed(g) ==
  /\ taker[g] = "select"
  /\ from[g] \notin open
  /\ taker' = [taker EXCEPT ![g] = "gone"]
  /\ UNCHANGED <<status, waiter, starter, current, worker, contexts, serve,
                 open, from, conns, stops>>

TakerEnd(g) ==
  /\ taker[g] = "select"
  /\ Done(g) \/ from[g] \notin open
  /\ taker' = [taker EXCEPT ![g] = "gone"]
  /\ UNCHANGED <<status, waiter, starter, current, worker, contexts, serve,
                 open, from, conns, stops>>

\* ConnServe: a send on a closed channel panics, which it answers with "not
\* started".
ConnServe(c) ==
  /\ conn[c] = "idle"
  /\ conn' = [conn EXCEPT ![c] = IF serve \in open THEN "offer" ELSE "refused"]
  /\ via' = [via EXCEPT ![c] = serve]
  /\ UNCHANGED <<status, waiter, starter, current, worker, contexts, serve,
                 open, taker, from, stops>>

ConnRefused(c) ==
  /\ conn[c] = "offer"
  /\ via[c] \notin open
  /\ conn' = [conn EXCEPT ![c] = "refused"]
  /\ UNCHANGED <<status, waiter, starter, current, worker, contexts, serve,
                 open, taker, from, via, stops>>

\* connServe and all below it ends: the context is done, or the client leaves.
ConnEnd(c) ==
  /\ conn[c] = "served"
  /\ conn' = [conn EXCEPT ![c] = "ended"]
  /\ UNCHANGED <<status, waiter, starter, current, worker, contexts, serve,
                 open, taker, from, via, stops>>

-----------------------------------------------------------------------------
Worker(g) == \/ WorkerBegin(g) \/ WorkerStarted(g) \/ WorkerDone(g)
             \/ WorkerClose(g) \/ WorkerHandler(g)

Taker(g) == \/ TakerLook(g) \/ TakerEnd(g)
            \/ \E c \in Conn : TakerServe(g, c)

Stopper == StopCancel \/ StopWait \/ StopFinish

Next ==
  \/ \E g \in Gen : Start(g) \/ StartEnd(g) \/ Worker(g) \/ Taker(g)
  \/ Stop \/ Stopper \/ GlobDone
  \/ \E c \in Conn : ConnServe(c) \/ ConnRefused(c) \/ ConnEnd(c)
  \/ \E w \in Waiter, st \in WaitedFor : StatusWait(w, st)

Spec == Init /\ [][Next]_vars

\* Every goroutine gets on.  A connection ends when its context is done
\* (Delivery's StopDrains), otherwise it need not.
FairSpec ==
  /\ Spec
  /\ \A g \in Gen : /\ WF_vars(StartEnd(g))
                    /\ WF_vars(Worker(g))
                    /\ WF_vars(Taker(g))
                    /\ SF_vars(TakerEnd(g))
  /\ WF_vars(Stopper)
  /\ \A c \in Conn : /\ WF_vars(ConnRefused(c))
                     /\ WF_vars(ConnEnd(c) /\ Done(via[c]))

-----------------------------------------------------------------------------
(* Properties.                                                             *)

\* As long as callers wait, a stopped service is quiet: nothing is served any
\* more, so that the storage below it may go, and who waited for that has been
\* told.  Not so after a stop that came before the worker had a child to wait
\* for: what it starts then has a context that is done.
StoppedQuiet ==
  ~hasty /\ status = "stopped" =>
    /\ \A g \in Gen : Running(g) => g \in early /\ Done(g)
    /\ \A w \in Waiter : waiter[w] # "stopped"

\* A started service serves: ConnServe offers to an open channel, and somebody
\* is there to take the connection as long as the worker is not told to end.
StartedServes ==
  ~hasty /\ status = "started" =>
    \E g \in Gen : /\ worker[g] = "loop"
                   /\ serve = g /\ g \in open
                   /\ Done(g) \/ taker[g] \in {"look", "select"}

\* What the status says is so.
StatusTells == TypeOK /\ StoppedQuiet /\ StartedServes

\* What is begun ends, as long as callers wait.  A stop is carried through,
\* whoever has begun it (otherwise it may cancel one worker and await another).
\* ConnServe returns: a connection that is offered is served or refused, also
\* when the service is stopped meanwhile, or started again.
StopEnds == ~hasty /\ status = "stopping" ~> hasty \/ status = "stopped"

ConnReturns ==
  \A c \in Conn : ~hasty /\ conn[c] = "offer" ~> hasty \/ conn[c] # "offer"

CallsReturn == StopEnds /\ ConnReturns

\* Who waits for the end of the service, as the server does (start.go:208), is
\* told of it, be it brought down by a Stop, a panic or its context.
EndTold ==
  \A w \in Waiter :
    ~hasty /\ waiter[w] = "stopped" /\ (down \/ status = "stopping") ~>
      hasty \/ waiter[w] = "closed"

\* A service that Start has started (service.go:62) is brought down by a Stop or
\* by the end of its context.  Refuted: also by what is left of the worker of an
\* earlier Start, which calls workerStop once it sees that its context is done.
StartLasts == [][stopper' = "worker" /\ stopper = "nobody" => down]_vars

-----------------------------------------------------------------------------
(* The inductive invariant of the safety properties.                       *)

\* Who has waited for a status has been told of it.
AllTold == \A w \in Waiter : waiter[w] # status

\* How far a start has got shows in its worker, its conn.worker and its channel.
InStep ==
  \A g \in Gen :
    /\ starter[g] = "none" <=> worker[g] = "none"
    /\ taker[g] = "none" <=> worker[g] \in {"none", "begin"}
    /\ Running(g) => taker[g] # "none"
    /\ worker[g] \in {"ready", "loop"} =>
         serve = g /\ g \in open /\ (taker[g] = "select" => from[g] = g)
    /\ g \in open => worker[g] \in {"ready", "loop", "stop", "close", "panic"}
    /\ g \in canceled => starter[g] = "done"

\* The field names the newest start that has returned; only the newest has a
\* worker, and what is left of the others they were stopped too early to await.
InOrder ==
  /\ \A g \in Gen : /\ starter[g] = "done" => g <= current
                    /\ g = current => starter[g] = "done"
                    /\ starter[g] = "made" =>
                         status \in {"starting", "started"} /\ ~down
  /\ \A g, h \in Gen : g < h /\ starter[h] # "none" =>
       /\ starter[g] = "done" /\ worker[g] = "gone" /\ g \in canceled
       /\ Running(g) => g \in early

\* A start is not canceled before the service is stopping.
AtStart ==
  status \in {"starting", "started"} =>
    /\ stopper = "nobody" /\ stopping = "none"
    /\ \E g \in Gen :
         /\ g \notin canceled
         /\ worker[g] \in IF status = "starting" THEN {"begin", "ready"}
                          ELSE {"loop"}
         /\ worker[g] # "begin" => taker[g] \in {"look", "select"} \/ down

\* A stop cancels the worker it will wait for; and its worker had begun by then,
\* or else is marked.
AtStop ==
  /\ status = "stopping" <=> stopping # "none"
  /\ stopper = "nobody" <=> stopping = "none"
  /\ stopping = "finish" => awaited = current
  /\ stopping # "none" => current # 0
  /\ stopping \in {"wait", "finish"} => current \in canceled
  /\ \A g \in Gen : worker[g] = "stop" => stopper = "worker"
  /\ status \in {"stopping", "stopped"} =>
       \A g \in Gen : worker[g] \in {"begin", "ready"} => g \in early
  /\ status = "stopped" =>
       \A g \in Gen : /\ starter[g] # "none" => g \in canceled
                      /\ Running(g) => g \in early

Waited == AllTold /\ InStep /\ InOrder /\ AtStart /\ AtStop

IInv == TypeOK /\ (~hasty => Waited)

=============================================================================
