------------------------------- MODULE Client -------------------------------
(***************************************************************************)
(* The client of lib/client as its user drives it: Start, Stop and what    *)
(* they start (workerStart, connWorker), GetQueue, and the requests of     *)
(* queues and tasks, each a goroutine that waits at protocol.ctl for a     *)
(* connection, sends its request on it and waits for the answer.           *)
(*                                                                         *)
(* A Start is numbered, and so are the channel protocol.ctl and the        *)
(* context of the worker that it makes; 0 is the closed channel of         *)
(* NewClient, and nil as a context.  A queue keeps the channel and the     *)
(* context it finds when it is made, a task likewise, while GetQueue reads *)
(* c.protocol.ctl anew each time it waits.                                 *)
(*                                                                         *)
(* What a connection does to a request is what module Requests promises,   *)
(* which Protocol implements: an error, an answer, or nil when the         *)
(* controller has finished.  Contexts are go-context.v2's:                 *)
(* Finished(true) is closed when the worker and all goroutines below it    *)
(* have ended.  The context given to NewClient does not end here.          *)
(***************************************************************************)
EXTENDS Naturals

CONSTANTS Getter,     \* calls of GetQueue, all with one name
          Asker,      \* of queue.TaskNew, TaskGet, TasksGet
          Setter,     \* of task.StatusSet, Remove, Content, Reject
          MaxStarts,  \* calls of Start that have an effect (a bound)
          MaxConn,    \* connections (a bound)
          None        \* no such object

ASSUME BoundsAssumption == MaxStarts \in Nat \ {0} /\ MaxConn \in Nat \ {0}
ASSUME CallsAssumption == /\ Getter \cap (Asker \cup Setter) = {}
                          /\ Asker \cap Setter = {}

VARIABLES
  worker,    \* c.ctx.worker
  ctl,       \* c.protocol.ctl
  starting,  \* Start has made the channel and not yet set the worker
  open,      \* the channels that are not closed
  canceled,  \* the contexts that are
  stops,     \* the workers whose Finished a goroutine of Stop waits for
  finished,  \* the workers whose Finished is closed
  dialer,    \* per worker, its connWorker: none, dial, offer, gone
  conn,      \* per worker, the last connection of its connWorker
  link,      \* per connection: none, up, broken; of its controller: closing
             \*   (Finished() is closed), finished (it has released the calls)
  cleaned,   \* connections that connDisconnected has been called for
  queue,     \* the object in c.queue.list
  task,      \* a task object
  op         \* per call, its goroutine

starts == <<worker, ctl, starting, open, canceled, stops, finished>>
dials == <<dialer, conn, link, cleaned>>
vars == <<starts, dials, queue, task, op>>

Gen == 1 .. MaxStarts
Conn == 1 .. MaxConn
Call == Getter \cup Asker \cup Setter

\* ctl, ctx: those of the object; via: the connection it has got.
\* sent: the connections it has been written to; done: those of them on which
\* the service has done what is asked, maybe after the call has given up.
\* late: of a task that had been canceled already.
\* nil: there has been no answer; absent: "no such task"; refused: "no".
Operation == [pc : {"idle", "look", "pick", "send", "wait", "fill", "keep",
                    "panic", "end"},
              ctl : 0 .. MaxStarts, ctx : 0 .. MaxStarts, via : 0 .. MaxConn,
              sent : SUBSET Conn, done : SUBSET Conn, late : BOOLEAN,
              result : {"none", "nil", "value", "absent", "refused", "panic"}]

Object == [ctl : 0 .. MaxStarts, ctx : 0 .. MaxStarts]

\* stale: made when connDisconnected had been called for its connection.
TaskObject == [ctl : 0 .. MaxStarts, ctx : Gen, conn : Conn,
               canceled : BOOLEAN, stale : BOOLEAN]

ASSUME NoneAssumption == None \notin TaskObject

TypeOK ==
  /\ worker \in 0 .. MaxStarts /\ ctl \in 0 .. MaxStarts
  /\ starting \in BOOLEAN
  /\ open \subseteq Gen /\ canceled \subseteq Gen
  /\ stops \subseteq canceled /\ finished \subseteq canceled
  /\ dialer \in [Gen -> {"none", "dial", "offer", "gone"}]
  /\ conn \in [Gen -> 0 .. MaxConn]
  /\ link \in [Conn -> {"none", "up", "broken", "closing", "finished"}]
  /\ cleaned \subseteq Conn
  /\ queue \in Object \cup {None}
  /\ task \in TaskObject \cup {None}
  /\ op \in [Call -> Operation]

Idle == [pc |-> "idle", ctl |-> 0, ctx |-> 0, via |-> 0, sent |-> {},
         done |-> {}, late |-> FALSE, result |-> "none"]

\* NewClient.
Init ==
  /\ worker = 0 /\ ctl = 0 /\ starting = FALSE
  /\ open = {} /\ canceled = {} /\ stops = {} /\ finished = {}
  /\ dialer = [g \in Gen |-> "none"]
  /\ conn = [g \in Gen |-> 0]
  /\ link = [k \in Conn |-> "none"]
  /\ cleaned = {}
  /\ queue = None /\ task = None
  /\ op = [o \in Call |-> Idle]

-----------------------------------------------------------------------------
(* Start, Stop and the worker.                                             *)

\* Start, up to the Go of the worker, which starts connWorker.
Start(g) ==
  /\ worker = 0 /\ ~starting
  /\ dialer[g] = "none" /\ \A h \in Gen : h < g => dialer[h] # "none"
  /\ ctl' = g
  /\ open' = open \cup {g}
  /\ dialer' = [dialer EXCEPT ![g] = "dial"]
  /\ starting' = TRUE
  /\ UNCHANGED <<worker, canceled, stops, finished, conn, link, cleaned, queue,
                 task, op>>

StartEnd ==
  /\ starting
  /\ worker' = ctl
  /\ starting' = FALSE
  /\ UNCHANGED <<ctl, open, canceled, stops, finished, dials, queue, task, op>>

\* Stop holds c.mu, so it does not meet a Start half-way.
Stop ==
  /\ worker # 0 /\ ~starting
  /\ worker \notin stops
  /\ canceled' = canceled \cup {worker}
  /\ stops' = stops \cup {worker}
  /\ UNCHANGED <<worker, ctl, starting, open, finished, dials, queue, task, op>>

\* The panic handler of the worker, for a goroutine below it: no more than a
\* Cancel, so that Start does nothing until Stop has been called.
WorkerPanic(g) ==
  /\ dialer[g] \in {"dial", "offer"}
  /\ g \notin canceled
  /\ canceled' = canceled \cup {g}
  /\ UNCHANGED <<worker, ctl, starting, open, stops, finished, dials, queue,
                 task, op>>

\* workerStart ends.
WorkerClose(g) ==
  /\ g \in open \cap canceled
  /\ open' = open \ {g}
  /\ UNCHANGED <<worker, ctl, starting, canceled, stops, finished, dials, queue,
                 task, op>>

\* Finished(true), which the caller of Stop may wait for, too ...
Below(g) == {o \in Asker \cup Setter : op[o].ctx = g}

WorkerFinished(g) ==
  /\ g \in canceled \ finished
  /\ g \notin open /\ dialer[g] = "gone"
  /\ \A o \in Below(g) : op[o].pc = "end"
  /\ finished' = finished \cup {g}
  /\ UNCHANGED <<worker, ctl, starting, open, canceled, stops, dials, queue,
                 task, op>>

\* ... and only then the worker is nil, for the next Start.
StopEnd(g) ==
  /\ g \in stops \cap finished
  /\ ~starting
  /\ worker = g
  /\ worker' = 0
  /\ UNCHANGED <<ctl, starting, open, canceled, stops, finished, dials, queue,
                 task, op>>

-----------------------------------------------------------------------------
(* connWorker, and the connections.                                        *)

\* connDisconnected: the tasks are canceled.
Disconnected(k) ==
  /\ cleaned' = cleaned \cup {k}
  /\ task' = IF task = None THEN None ELSE [task EXCEPT !.canceled = TRUE]

\* connWorker has waited a second after a lost connection: calls that were on
\* their way have come to their select by then, where the cancel of their task
\* is all there is to be had.
Settled ==
  \A o \in Setter : op[o].pc \in {"pick", "send"} => ~task.canceled

Dial(g) ==
  /\ dialer[g] = "dial"
  /\ g \notin canceled
  /\ Settled
  /\ \E k \in Conn :
       /\ link[k] = "none" /\ \A j \in Conn : j < k => link[j] # "none"
       /\ link' = [link EXCEPT ![k] = "up"]
       /\ conn' = [conn EXCEPT ![g] = k]
  /\ dialer' = [dialer EXCEPT ![g] = "offer"]
  /\ UNCHANGED <<starts, cleaned, queue, task, op>>

DialStop(g) ==
  /\ dialer[g] = "dial"
  /\ g \in canceled
  /\ dialer' = [dialer EXCEPT ![g] = "gone"]
  /\ UNCHANGED <<starts, conn, link, cleaned, queue, task, op>>

\* The controller has finished: connect again.
Redial(g) ==
  /\ dialer[g] = "offer"
  /\ link[conn[g]] \in {"closing", "finished"}
  /\ dialer' = [dialer EXCEPT ![g] = "dial"]
  /\ Disconnected(conn[g])
  /\ UNCHANGED <<starts, conn, link, queue, op>>

\* The context is done; or the channel has been closed before connWorker is at
\* its select again, and its send panics: what is deferred is the same.
DialerEnd(g) ==
  /\ dialer[g] = "offer"
  /\ g \in canceled
  /\ dialer' = [dialer EXCEPT ![g] = "gone"]
  /\ link' = [link EXCEPT ![conn[g]] = IF @ = "up" THEN "broken" ELSE @]
  /\ Disconnected(conn[g])
  /\ UNCHANGED <<starts, conn, queue, op>>

Break(k) ==
  /\ link[k] = "up"
  /\ link' = [link EXCEPT ![k] = "broken"]
  /\ UNCHANGED <<starts, dialer, conn, cleaned, queue, task, op>>

\* The controller of a broken connection finishes (connStop): first it says so,
Finish(k) ==
  /\ link[k] = "broken"
  /\ link' = [link EXCEPT ![k] = "closing"]
  /\ UNCHANGED <<starts, dialer, conn, cleaned, queue, task, op>>

\* then it closes the connection and releases the calls.
Release(k) ==
  /\ link[k] = "closing"
  /\ link' = [link EXCEPT ![k] = "finished"]
  /\ UNCHANGED <<starts, dialer, conn, cleaned, queue, task, op>>

-----------------------------------------------------------------------------
(* Calls, and their goroutines.                                            *)

Step(o, from, to) ==
  /\ op[o].pc = from
  /\ op' = [op EXCEPT ![o].pc = to]

End(o, result) == op' = [op EXCEPT ![o].pc = "end", ![o].result = result]

\* GetQueue of a client that has the queue returns it, whatever it is.
GetQueue(o) ==
  /\ op[o].pc = "idle"
  /\ IF queue # None THEN End(o, "value") ELSE Step(o, "idle", "look")
  /\ UNCHANGED <<starts, dials, queue, task>>

Look(o) ==
  /\ op[o].pc = "look"
  /\ op' = [op EXCEPT ![o].pc = "pick", ![o].ctl = ctl]
  /\ UNCHANGED <<starts, dials, queue, task>>

\* A call of a queue that was made without a context panics.
Ask(o) ==
  /\ op[o].pc = "idle"
  /\ queue # None
  /\ IF queue.ctx = 0 THEN End(o, "panic")
     ELSE op' = [op EXCEPT ![o].pc = "pick", ![o].ctl = queue.ctl,
                           ![o].ctx = queue.ctx]
  /\ UNCHANGED <<starts, dials, queue, task>>

Set(o) ==
  /\ op[o].pc = "idle"
  /\ task # None
  /\ op' = [op EXCEPT ![o].pc = "pick", ![o].ctl = task.ctl,
                      ![o].ctx = task.ctx, ![o].late = task.canceled]
  /\ UNCHANGED <<starts, dials, queue, task>>

\* The next controller, or nil from a closed channel.
Pick(o) ==
  /\ op[o].pc = "pick"
  /\ LET g == op[o].ctl
     IN  IF g \notin open
           THEN End(o, "nil")
           ELSE /\ dialer[g] = "offer"
                /\ op' = [op EXCEPT ![o].pc = "send", ![o].via = conn[g]]
  /\ UNCHANGED <<starts, dials, queue, task>>

\* Mutant: who waits for an answer does not look at the context.
GiveUpPick(o) ==
  /\ op[o].pc = "pick"
  /\ \/ op[o].ctx \in canceled
     \/ o \in Setter /\ task.canceled
  /\ End(o, "nil")
  /\ UNCHANGED <<starts, dials, queue, task>>

\* The context is done, or the task canceled.
GiveUp(o) ==
  /\ op[o].pc \in {"pick", "wait"}
  /\ \/ op[o].ctx \in canceled
     \/ o \in Setter /\ task.canceled
  /\ End(o, "nil")
  /\ UNCHANGED <<starts, dials, queue, task>>

Again(o) == op' = [op EXCEPT ![o].pc = IF o \in Getter THEN "look" ELSE "pick"]

\* RequestSend: on a connection that does not work any more it fails, or the
\* request is written; it may be lost, or have been written in time.
Send(o) ==
  /\ op[o].pc = "send"
  /\ \/ link[op[o].via] # "up" /\ Again(o)
     \/ /\ link[op[o].via] # "finished"
        /\ op' = [op EXCEPT ![o].pc = "wait",
                            ![o].sent = @ \cup {op[o].via}]
  /\ UNCHANGED <<starts, dials, queue, task>>

\* The service reads it, though the client may have given the connection up.
Handle(o, k) ==
  /\ k \in op[o].sent \ op[o].done
  /\ op' = [op EXCEPT ![o].done = @ \cup {k}]
  /\ UNCHANGED <<starts, dials, queue, task>>

\* connRead puts the answer into the channel of the call.
Answer(o) ==
  /\ op[o].pc = "wait"
  /\ op[o].via \in op[o].done
  /\ link[op[o].via] \in {"up", "broken"}
  /\ Step(o, "wait", "fill")
  /\ UNCHANGED <<starts, dials, queue, task>>

\* Mutant: the answer nil is the answer.
ReleasedAnswered(o) ==
  /\ op[o].pc = "wait"
  /\ link[op[o].via] = "finished"
  /\ End(o, "nil")
  /\ UNCHANGED <<starts, dials, queue, task>>

\* Mutant: everything is sent again.
ReleasedAgain(o) ==
  /\ op[o].pc = "wait"
  /\ link[op[o].via] = "finished"
  /\ Again(o)
  /\ UNCHANGED <<starts, dials, queue, task>>

\* The answer nil, of a connection that has finished: queues ask again, tasks
\* do not.
Released(o) ==
  /\ op[o].pc = "wait"
  /\ link[op[o].via] = "finished"
  /\ IF o \in Setter THEN End(o, "nil") ELSE Again(o)
  /\ UNCHANGED <<starts, dials, queue, task>>

\* taskNew gives a task the channel and the context that the client has now.
TaskMade(k) ==
  IF task # None THEN UNCHANGED task
  ELSE task' = [ctl |-> ctl, ctx |-> worker, conn |-> k, canceled |-> FALSE,
                stale |-> k \in cleaned]

\* The answer is handed on, unless the context is found done first.
Fill(o) ==
  /\ op[o].pc = "fill"
  /\ o \in Asker \cup Setter
  /\ IF o \in Asker THEN TaskMade(op[o].via) ELSE UNCHANGED task
  /\ \/ End(o, "value")
     \/ op[o].ctx \in canceled /\ End(o, "nil")
  /\ UNCHANGED <<starts, dials, queue>>

\* Or the answer is "no".  TaskGet has nil for its caller; TaskNew, whose queue
\* the service does not know, panics.
AskRefused(o) ==
  /\ op[o].pc = "fill"
  /\ o \in Asker
  /\ End(o, "absent") \/ Step(o, "fill", "panic")
  /\ UNCHANGED <<starts, dials, queue, task>>

\* The worker is canceled by then (WorkerPanic).
Panicked(o) ==
  /\ op[o].pc = "panic"
  /\ op[o].ctx \in canceled
  /\ End(o, "panic")
  /\ UNCHANGED <<starts, dials, queue, task>>

\* StatusSet and Remove cancel their task, Content does not.
SetRefused(o) ==
  /\ op[o].pc = "fill"
  /\ o \in Setter
  /\ End(o, "refused")
  /\ \/ UNCHANGED task
     \/ task' = [task EXCEPT !.canceled = TRUE]
  /\ UNCHANGED <<starts, dials, queue>>

\* queueNew, under c.queue.mu: it reads c.protocol.ctl ...
QueueCtl(o) ==
  /\ op[o].pc = "fill"
  /\ o \in Getter
  /\ \A p \in Getter : op[p].pc # "keep"
  /\ IF queue # None THEN End(o, "value")
     ELSE op' = [op EXCEPT ![o].pc = "keep", ![o].ctl = ctl]
  /\ UNCHANGED <<starts, dials, queue, task>>

\* ... and c.ctx.worker, neither of which that lock guards.
QueueCtx(o) ==
  /\ op[o].pc = "keep"
  /\ queue' = [ctl |-> op[o].ctl, ctx |-> worker]
  /\ End(o, "value")
  /\ UNCHANGED <<starts, dials, task>>

-----------------------------------------------------------------------------
Worker(g) == WorkerClose(g) \/ WorkerFinished(g) \/ StopEnd(g)

Dialer(g) == Dial(g) \/ DialStop(g) \/ Redial(g) \/ DialerEnd(g)

\* What a goroutine does by itself.
Proceed(o) == \/ Look(o) \/ Pick(o) \/ GiveUp(o) \/ Send(o) \/ Released(o)
              \/ Fill(o) \/ AskRefused(o) \/ Panicked(o) \/ SetRefused(o)
              \/ QueueCtl(o) \/ QueueCtx(o)

Next ==
  \/ \E g \in Gen : Start(g) \/ Worker(g) \/ Dialer(g) \/ WorkerPanic(g)
  \/ StartEnd \/ Stop
  \/ \E k \in Conn : Break(k) \/ Finish(k) \/ Release(k)
  \/ \E o \in Getter : GetQueue(o)
  \/ \E o \in Asker : Ask(o)
  \/ \E o \in Setter : Set(o)
  \/ \E o \in Call : Proceed(o) \/ Answer(o) \/ \E k \in Conn : Handle(o, k)

Spec == Init /\ [][Next]_vars

\* Goroutines go on; the service need not answer, a connection need not break.
\* A controller whose owner is gone may never finish (Protocol's hazard).
FairSpec ==
  /\ Spec
  /\ WF_vars(StartEnd)
  /\ \A g \in Gen : /\ WF_vars(Worker(g))
                    /\ WF_vars(Dialer(g))
                    /\ WF_vars(/\ WorkerPanic(g)
                               /\ \E o \in Below(g) : op[o].pc = "panic")
  /\ \A k \in Conn :
       /\ WF_vars(/\ Finish(k)
                  /\ \E g \in Gen : dialer[g] = "offer" /\ conn[g] = k)
       /\ WF_vars(Release(k))
  /\ \A o \in Call : WF_vars(Proceed(o))

-----------------------------------------------------------------------------
(* Properties.                                                             *)

\* "If nil - client stopped" (client.go:19, queue.go:18, 30): GetQueue and the
\* requests of a queue end without an answer only if the Start that the queue
\* was made under is over.  A lost connection is not enough.  (The nil that is
\* TaskGet's answer, "If nil - task not exists", queue.go:22, comes on a running
\* client, as it should; so does the panic of TaskNew.)
Over(g) == g = 0 \/ g \in canceled

NilMeansStopped ==
  \A o \in Getter \cup Asker :
    op[o].result = "nil" => Over(op[o].ctl) \/ Over(op[o].ctx)

Answers == {"value", "absent", "refused"}

\* Nothing is done twice but what was asked, and not answered, on a connection
\* that is lost; what changes a task is not even then.  Who is to write again
\* where he has written fails.  Nothing is answered, be it with "no", that the
\* service did not handle, there and then.
AppliedOnce ==
  \A o \in Asker \cup Setter :
    /\ \A j, k \in op[o].done : j < k => o \in Asker /\ link[j] = "finished"
    /\ op[o].pc = "send" /\ op[o].via \in op[o].sent =>
         link[op[o].via] = "finished"
    /\ op[o].result \in Answers => op[o].via \in op[o].done

\* A state id means something on its connection only: the request of a task is
\* sent on that one.  Unless the task was canceled already when it was called:
\* then nil, or a controller, may come first.  (Or its info was processed after
\* its connection had been cleaned up: module ClientTasks.)
SetOnItsConnection ==
  \A o \in Setter :
    op[o].pc \in {"wait", "fill"} /\ op[o].via # task.conn =>
      op[o].late \/ task.stale

\* Requests have the effect that is asked for, and say so.
AppliedRight == TypeOK /\ AppliedOnce /\ SetOnItsConnection

\* A client that is stopped comes to rest, and its requests to an end, though
\* the service may owe them an answer.
StopDone == \A g \in Gen : g \in stops ~> worker # g

\* "If nil - client stopped" (queue.go:18), as it reads: a request of a queue is
\* not answered nil while the client runs, also after a restart.
RunningNotNil ==
  [][\A o \in Asker :
       op'[o].result = "nil" /\ op[o].result # "nil" => Over(worker)]_vars

-----------------------------------------------------------------------------
(* The inductive invariant of the safety properties.                       *)

\* Starts come one after the other: all but the newest have finished, and the
\* newest is the worker but while Start sets it and after Stop has unset it.
InOrder ==
  /\ \A g \in Gen : /\ dialer[g] = "none" <=> g > ctl
                    /\ g < ctl => g \in finished
                    /\ g <= ctl <=> g \in open \cup canceled
                    /\ g \in finished => dialer[g] = "gone" /\ g \notin open
  /\ starting => worker = 0
  /\ worker # 0 => worker = ctl
  /\ worker = 0 => starting \/ ctl = 0 \/ ctl \in finished

\* The connection that is offered is the last there is; of those lost all have
\* been cleaned up.
Connected ==
  /\ \A j, k \in Conn : j < k /\ link[k] # "none" => link[j] # "none"
  /\ \A g \in Gen : dialer[g] = "offer" =>
       /\ conn[g] \in Conn /\ link[conn[g]] # "none"
       /\ \A k \in Conn : link[k] # "none" => k <= conn[g]
  /\ \A k \in Conn : link[k] # "none" /\ k \notin cleaned =>
       \E g \in Gen : dialer[g] = "offer" /\ conn[g] = k

\* A context is of a Start that has set it, and not of one before the channel's.
Timely(c) ==
  /\ c.ctl <= ctl /\ c.ctx <= ctl
  /\ c.ctx = 0 \/ c.ctl <= c.ctx
  /\ starting => c.ctx # ctl \/ c.ctx = 0

Kept == /\ queue # None => Timely(queue)
        /\ task # None => Timely(task)

OnWay == {"send", "wait", "fill"}

\* A request that has found a connection is of a worker that has not finished,
\* as it waits for it.
CallOf(o) ==
  LET q == op[o]
  IN  /\ q.ctl <= ctl
      /\ o \notin Getter => Timely(q)
      /\ q.pc = "idle" => q = Idle
      /\ q.pc # "end" => q.result = "none"
      /\ q.pc \in OnWay => q.via \in Conn
      /\ q.via # 0 => link[q.via] # "none"
      /\ o \notin Getter /\ q.pc \in OnWay \cup {"pick"} => q.ctx # 0
      /\ o \notin Getter /\ q.pc \in OnWay =>
           q.ctl = q.ctx /\ q.ctx \notin finished
      /\ q.pc = "look" => o \in Getter
      /\ q.pc = "keep" => o \in Getter

\* A request is written to a connection once, and to the next only when the one
\* before has released it; that of a task to one only.
Effects(o) ==
  LET q == op[o]
  IN  /\ q.done \subseteq q.sent
      /\ \A k \in q.sent :
           /\ k <= q.via /\ link[k] # "none"
           /\ k # q.via \/ q.pc \in {"look", "pick", "send"} =>
                link[k] = "finished"
      /\ q.pc = "wait" => q.via \in q.sent
      /\ q.pc \in {"fill", "keep"} => q.via \in q.done
      /\ o \in Setter => /\ q.sent \subseteq {q.via}
                         /\ q.pc \in {"pick", "send"} => q.sent = {}
      /\ q.result \in Answers /\ o \notin Getter => q.via \in q.done

\* A task that is not canceled is on the connection that is offered, and so is a
\* call of it that was made then: no other is offered before it has gone on.
OnTask ==
  /\ \A o \in Setter : op[o].pc \in OnWay \cup {"pick"} =>
       task # None /\ op[o].ctl = task.ctl
  /\ task # None => task.ctl \in Gen
  /\ task # None /\ ~task.stale =>
       /\ ~task.canceled =>
            dialer[task.ctl] = "offer" /\ conn[task.ctl] = task.conn
       /\ \A o \in Setter : ~op[o].late =>
            /\ op[o].pc \in {"pick", "send"} => conn[task.ctl] = task.conn
            /\ op[o].pc \in OnWay => op[o].via = task.conn

IInv == /\ TypeOK
        /\ InOrder
        /\ Connected
        /\ Kept
        /\ \A o \in Call : CallOf(o) /\ Effects(o)
        /\ OnTask
        /\ NilMeansStopped

=============================================================================
