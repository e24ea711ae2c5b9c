------------------------------ MODULE Delivery ------------------------------
(***************************************************************************)
(* How the tasks of one queue reach the connections that subscribed to     *)
(* them: service/task-manager/router, and queue-subscribe.go with the      *)
(* handlers of queue.go and task.go that feed it.                          *)
(*                                                                         *)
(* What travels is a version of a task (lib/storage.Task: the task as of   *)
(* one change; it is canceled by the next change).  Route starts a         *)
(* goroutine, here a copy, that offers the version on the four channels    *)
(* its parent and status select until a subscription takes it, the version *)
(* is canceled or the service stops.  The subscription that takes it sends *)
(* it to its client and holds it until something ends that; then the       *)
(* version is routed again, by the same rule.  A version gets its copies   *)
(* from the handler that made it (Route) and from the subs' own loop,      *)
(* which lists the queue every 10 seconds and routes what is not marked    *)
(* routed yet.                                                             *)
(*                                                                         *)
(* Atomicity: one action per critical section of r.mu, s.mu or qss.mu, per *)
(* channel operation and per return from a select; the loop holds s.mu     *)
(* while it goes through its list (loop = "route").                        *)
(***************************************************************************)
EXTENDS Naturals, FiniteSets

CONSTANTS Version,   \* versions of tasks, over the time of the run
          Copy,      \* Route goroutines with what becomes of them (a bound)
          Sub,       \* subscriptions, each with the id of its own
          Conn,      \* connections
          Parent,    \* parent UUIDs, "" among them
          Status,    \* statuses, "" among them
          Label,     \* the parent and the status of a version
          Filter,    \* the parent and the status a subscription asks for
          ConnOf,    \* the connection of a subscription
          PoolSize,  \* tasks a subscription may hold (1000 in the code)
          Breakable, \* connections that may break
          Rejecting, \* connections whose client may reject tasks
          Stoppable, \* may the service stop?
          None       \* nil

ASSUME ParametersAssumption ==
  /\ Label \in [Version -> Parent \X Status]
  /\ Filter \in [Sub -> Parent \X Status]
  /\ ConnOf \in [Sub -> Conn]
  /\ PoolSize \in Nat \ {0}
  /\ Breakable \subseteq Conn
  /\ Rejecting \subseteq Conn
  /\ Stoppable \in BOOLEAN
  /\ "" \in Parent \cap Status
  /\ None \notin Version \cup Copy \cup Sub

VARIABLES
  running,  \* the context of the service is not done
  live,     \* versions made and not canceled
  dead,     \* versions canceled
  fresh,    \* versions whose handler has still to call Route
  loop,     \* the goroutine of the subs: none, or where it is
  todo,     \* what is left of the list it goes through
  routed,   \* subs.routed
  copy,     \* the copies: version, place, and the subscription that took it
  rejected, \* copies whose send context has been canceled by rejectSent
  proc,     \* per subscription: where queueSubscribeProcess is
  tokens,   \* per subscription: what is in its pool
  cancels,  \* subscriptions with an open cancel channel in cancels
  watch,    \* subscriptions whose process found that channel when it began
  finish,   \* subscriptions whose finish channel is closed
  sent,     \* per connection: queueSubscribeState.sent, the copy by version
  conn      \* connections: up, broken, or down (Finished and Done are seen)

versions == <<live, dead, fresh>>
scan == <<loop, todo>>
subscriptions == <<proc, tokens, cancels, watch, finish>>
vars == <<running, versions, scan, routed, copy, rejected, subscriptions,
          sent, conn>>

Idle == [version |-> None, at |-> "idle", sub |-> None]

Places == {"spawned", "offered", "got", "sending", "held", "leaving"}
\* Places of a copy in which a subscription has it.
Taken == {"got", "sending", "held", "leaving"}

TypeOK ==
  /\ running \in BOOLEAN
  /\ live \subseteq Version /\ dead \subseteq Version /\ fresh \subseteq Version
  /\ loop \in {"off", "wait", "lock", "route", "done"}
  /\ todo \subseteq Version
  /\ routed \subseteq Version
  /\ copy \in [Copy -> [version : Version, at : Places, sub : Sub \cup {None}]
                       \cup {Idle}]
  /\ rejected \subseteq Copy
  /\ proc \in [Sub -> {"new", "starting", "pool", "receive", "gone"}]
  /\ tokens \in [Sub -> 0 .. PoolSize]
  /\ cancels \subseteq Sub /\ watch \subseteq Sub /\ finish \subseteq Sub
  /\ sent \in [Conn -> [Version -> Copy \cup {None}]]
  /\ conn \in [Conn -> {"up", "broken", "down"}]

Init ==
  /\ running = TRUE
  /\ live = {} /\ dead = {} /\ fresh = {}
  /\ loop = "off" /\ todo = {} /\ routed = {}
  /\ copy = [c \in Copy |-> Idle]
  /\ rejected = {}
  /\ proc = [s \in Sub |-> "new"]
  /\ tokens = [s \in Sub |-> PoolSize]
  /\ cancels = {} /\ watch = {} /\ finish = {}
  /\ sent = [k \in Conn |-> [v \in Version |-> None]]
  /\ conn = [k \in Conn |-> "up"]

-----------------------------------------------------------------------------
(* Routing.                                                                *)

\* Mutant: a version is offered on the channel of its parent and status only.
ChannelsExact(v) == {Label[v]}

\* subs.getChannel: a channel is its parent and its status, "" means any.
Channels(v) == {<<p, st>> : p \in {"", Label[v][1]}, st \in {"", Label[v][2]}}

Spawned(v) == [version |-> v, at |-> "spawned", sub |-> None]

\* Router.Route starts a goroutine, unless the version is canceled or nobody
\* has ever subscribed.
Routing(v) == IF v \in dead \/ loop = "off" THEN Idle ELSE Spawned(v)

Route(v) ==
  IF Routing(v) = Idle
    THEN UNCHANGED copy
    ELSE \E c \in Copy : /\ copy[c] = Idle
                         /\ copy' = [copy EXCEPT ![c] = Routing(v)]

\* A handler makes a version (TaskNew, TaskStatusSet) or finds it in the
\* storage (TaskGet, TasksGet); only in the first case it calls Route later.
Appear(v, new) ==
  /\ running
  /\ v \notin live \cup dead
  /\ live' = live \cup {v}
  /\ fresh' = IF new THEN fresh \cup {v} ELSE fresh
  /\ UNCHANGED <<running, dead, scan, routed, copy, rejected, subscriptions,
                 sent, conn>>

HandlerRoute(v) ==
  /\ v \in fresh
  /\ fresh' = fresh \ {v}
  /\ Route(v)
  /\ UNCHANGED <<running, live, dead, scan, routed, rejected, subscriptions,
                 sent, conn>>

\* The next change of the task, or its removal.
Cancel(v) ==
  /\ v \in live
  /\ live' = live \ {v}
  /\ dead' = dead \cup {v}
  /\ UNCHANGED <<running, fresh, scan, routed, copy, rejected, subscriptions,
                 sent, conn>>

\* The goroutine of Route marks the version, whether it is marked or not.
MarkRouted(c) ==
  /\ copy[c].at = "spawned"
  /\ loop # "route"
  /\ routed' = routed \cup {copy[c].version}
  /\ copy' = [copy EXCEPT ![c].at = "offered"]
  /\ UNCHANGED <<running, versions, scan, rejected, subscriptions, sent, conn>>

\* Mutant: the end of the service is not noticed.
WithdrawDead(c) ==
  /\ copy[c].at = "offered"
  /\ copy[c].version \in dead
  /\ copy' = [copy EXCEPT ![c] = Idle]
  /\ UNCHANGED <<running, versions, scan, routed, rejected, subscriptions,
                 sent, conn>>

\* It gives up.
Withdraw(c) ==
  /\ copy[c].at = "offered"
  /\ copy[c].version \in dead \/ ~running
  /\ copy' = [copy EXCEPT ![c] = Idle]
  /\ UNCHANGED <<running, versions, scan, routed, rejected, subscriptions,
                 sent, conn>>

\* The goroutine setRouted starts: a canceled version is not routed any more.
Unmark(v) ==
  /\ v \in routed \cap dead
  /\ loop # "route"
  /\ routed' = routed \ {v}
  /\ UNCHANGED <<running, versions, scan, copy, rejected, subscriptions, sent,
                 conn>>

\* The loop of Subscribe: lists the queue, at first and at every tick,
List ==
  /\ loop = "wait"
  /\ todo' = live
  /\ loop' = "lock"
  /\ UNCHANGED <<running, versions, routed, copy, rejected, subscriptions, sent,
                 conn>>

\* takes s.mu,
Lock ==
  /\ loop = "lock"
  /\ loop' = IF todo = {} THEN "wait" ELSE "route"
  /\ UNCHANGED <<running, versions, todo, routed, copy, rejected, subscriptions,
                 sent, conn>>

\* Mutant: the answer of setRouted is not looked at.
ListRouteMarked(v) ==
  /\ loop = "route"
  /\ v \in todo
  /\ todo' = todo \ {v}
  /\ loop' = IF todo = {v} THEN "wait" ELSE "route"
  /\ routed' = routed \cup {v}
  /\ Route(v)
  /\ UNCHANGED <<running, versions, rejected, subscriptions, sent, conn>>

\* routes the versions that are not marked, and lets the mutex go,
ListRoute(v) ==
  /\ loop = "route"
  /\ v \in todo
  /\ todo' = todo \ {v}
  /\ loop' = IF todo = {v} THEN "wait" ELSE "route"
  /\ IF v \in routed
       THEN UNCHANGED <<routed, copy>>
       ELSE /\ routed' = routed \cup {v}
            /\ Route(v)
  /\ UNCHANGED <<running, versions, rejected, subscriptions, sent, conn>>

\* until the context is done.
ListingEnd ==
  /\ loop = "wait"
  /\ ~running
  /\ loop' = "done"
  /\ UNCHANGED <<running, versions, todo, routed, copy, rejected, subscriptions,
                 sent, conn>>

-----------------------------------------------------------------------------
(* Subscriptions.                                                          *)

\* The context of a connection is done, or its controller has finished.
ConnDone(k) == conn[k] = "down" \/ ~running

\* queueTaskSubscribe, with qss.new and Router.Subscribe.
Subscribe(s) ==
  /\ running
  /\ conn[ConnOf[s]] = "up"
  /\ proc[s] = "new"
  /\ proc' = [proc EXCEPT ![s] = "starting"]
  /\ cancels' = cancels \cup {s}
  /\ loop' = IF loop = "off" THEN "wait" ELSE loop
  /\ UNCHANGED <<running, versions, todo, routed, copy, rejected, tokens, watch,
                 finish, sent, conn>>

\* queueTasksUnsubscribe: qss.cancel.  The client knows the id from the answer,
\* which may be sent before the process has begun.
Unsubscribe(s) ==
  /\ running
  /\ conn[ConnOf[s]] = "up"
  /\ s \in cancels
  /\ cancels' = cancels \ {s}
  /\ UNCHANGED <<running, versions, scan, routed, copy, rejected, proc, tokens,
                 watch, finish, sent, conn>>

\* queueSubscribeProcess looks its cancel channel up when it begins.
ProcessBegin(s) ==
  /\ proc[s] = "starting"
  /\ proc' = [proc EXCEPT ![s] = "pool"]
  /\ watch' = IF s \in cancels THEN watch \cup {s} ELSE watch
  /\ UNCHANGED <<running, versions, scan, routed, copy, rejected, tokens,
                 cancels, finish, sent, conn>>

\* finishWatcher.
Finish(s) ==
  /\ proc[s] \notin {"new", "starting"}
  /\ s \notin finish
  /\ ConnDone(ConnOf[s]) \/ (s \in watch /\ s \notin cancels)
  /\ finish' = finish \cup {s}
  /\ UNCHANGED <<running, versions, scan, routed, copy, rejected, proc, tokens,
                 cancels, watch, sent, conn>>

TakeToken(s) ==
  /\ proc[s] = "pool"
  /\ tokens[s] > 0
  /\ proc' = [proc EXCEPT ![s] = "receive"]
  /\ tokens' = [tokens EXCEPT ![s] = @ - 1]
  /\ UNCHANGED <<running, versions, scan, routed, copy, rejected, cancels,
                 watch, finish, sent, conn>>

ProcessEnd(s) ==
  /\ proc[s] \in {"pool", "receive"}
  /\ s \in finish
  /\ proc' = [proc EXCEPT ![s] = "gone"]
  /\ cancels' = cancels \ {s}
  /\ UNCHANGED <<running, versions, scan, routed, copy, rejected, tokens, watch,
                 finish, sent, conn>>

\* A copy on offer meets a subscription that receives from one of its channels.
Deliver(c, s) ==
  /\ copy[c].at = "offered"
  /\ proc[s] = "receive"
  /\ Filter[s] \in Channels(copy[c].version)
  /\ copy' = [copy EXCEPT ![c].at = "got", ![c].sub = s]
  /\ proc' = [proc EXCEPT ![s] = "pool"]
  /\ UNCHANGED <<running, versions, scan, routed, rejected, tokens, cancels,
                 watch, finish, sent, conn>>

-----------------------------------------------------------------------------
(* queueSubscribeSend.                                                     *)

ConnOfCopy(c) == ConnOf[copy[c].sub]

\* It looks the cancel channel up: without one it has nothing to send, else it
\* records its context (addSent).
SendBegin(c) ==
  /\ copy[c].at = "got"
  /\ IF copy[c].sub \in cancels
       THEN /\ copy' = [copy EXCEPT ![c].at = "sending"]
            /\ sent' = [sent EXCEPT ![ConnOfCopy(c)][copy[c].version] = c]
       ELSE /\ copy' = [copy EXCEPT ![c].at = "leaving"]
            /\ UNCHANGED sent
  /\ UNCHANGED <<running, versions, scan, routed, rejected, subscriptions,
                 conn>>

\* rejectSent: cancels whatever context is recorded for the version.
RejectSent(k, v) ==
  /\ sent' = [sent EXCEPT ![k][v] = None]
  /\ rejected' = rejected \cup ({sent[k][v]} \ {None})

\* MessageSend succeeds; it may also do so when the connection has gone.
SendOk(c) ==
  /\ copy[c].at = "sending"
  /\ copy' = [copy EXCEPT ![c].at = "held"]
  /\ UNCHANGED <<running, versions, scan, routed, rejected, subscriptions, sent,
                 conn>>

\* Mutant: the failure path gives the token back, which the deferred call does.
SendFailToken(c) ==
  /\ copy[c].at = "sending"
  /\ conn[ConnOfCopy(c)] # "up"
  /\ copy' = [copy EXCEPT ![c].at = "leaving"]
  /\ RejectSent(ConnOfCopy(c), copy[c].version)
  /\ tokens' = [tokens EXCEPT ![copy[c].sub] = @ + 1]
  /\ UNCHANGED <<running, versions, scan, routed, proc, cancels, watch, finish,
                 conn>>

\* It fails, and the deferred rejectSent runs.
SendFail(c) ==
  /\ copy[c].at = "sending"
  /\ conn[ConnOfCopy(c)] # "up"
  /\ copy' = [copy EXCEPT ![c].at = "leaving"]
  /\ RejectSent(ConnOfCopy(c), copy[c].version)
  /\ UNCHANGED <<running, versions, scan, routed, subscriptions, conn>>

\* Mutant: the cancel channel is not among the cases of the select.
LetGoConn(c) ==
  \/ c \in rejected
  \/ copy[c].version \in dead
  \/ ConnDone(ConnOfCopy(c))

\* Why a held version is let go.
LetGo(c) ==
  \/ c \in rejected
  \/ copy[c].version \in dead
  \/ copy[c].sub \notin cancels
  \/ ConnDone(ConnOfCopy(c))

\* Mutant: what has been sent is not removed.
ReleaseSent(c) ==
  /\ copy[c].at = "held"
  /\ LetGo(c)
  /\ copy' = [copy EXCEPT ![c].at = "leaving"]
  /\ UNCHANGED <<running, versions, scan, routed, rejected, subscriptions, sent,
                 conn>>

Release(c) ==
  /\ copy[c].at = "held"
  /\ LetGo(c)
  /\ copy' = [copy EXCEPT ![c].at = "leaving"]
  /\ RejectSent(ConnOfCopy(c), copy[c].version)
  /\ UNCHANGED <<running, versions, scan, routed, subscriptions, conn>>

\* Mutant: the version is not routed again.
LeaveUnrouted(c) ==
  /\ copy[c].at = "leaving"
  /\ copy' = [copy EXCEPT ![c] = Idle]
  /\ rejected' = rejected \ {c}
  /\ tokens' = [tokens EXCEPT ![copy[c].sub] = @ + 1]
  /\ UNCHANGED <<running, versions, scan, routed, proc, cancels, watch, finish,
                 sent, conn>>

\* Mutant: the token is not given back.
LeaveToken(c) ==
  /\ copy[c].at = "leaving"
  /\ copy' = [copy EXCEPT ![c] = Routing(copy[c].version)]
  /\ rejected' = rejected \ {c}
  /\ UNCHANGED <<running, versions, scan, routed, subscriptions, sent, conn>>

\* The other deferred calls: Route, and the token goes back to the pool.
Leave(c) ==
  /\ copy[c].at = "leaving"
  /\ copy' = [copy EXCEPT ![c] = Routing(copy[c].version)]
  /\ rejected' = rejected \ {c}
  /\ tokens' = [tokens EXCEPT ![copy[c].sub] = @ + 1]
  /\ UNCHANGED <<running, versions, scan, routed, proc, cancels, watch, finish,
                 sent, conn>>

\* taskReject, from a client that has the version.
ClientReject(k, v) ==
  /\ running
  /\ k \in Rejecting
  /\ conn[k] = "up"
  /\ sent[k][v] # None
  /\ RejectSent(k, v)
  /\ UNCHANGED <<running, versions, scan, routed, copy, subscriptions, conn>>

-----------------------------------------------------------------------------
(* The environment: connections fail, the service stops.                   *)

Break(k) ==
  /\ k \in Breakable
  /\ conn[k] = "up"
  /\ conn' = [conn EXCEPT ![k] = "broken"]
  /\ UNCHANGED <<running, versions, scan, routed, copy, rejected, subscriptions,
                 sent>>

\* connRead sees it: the controller finishes, or the panic of mesProcess
\* cancels the context of the connection.
GoDown(k) ==
  /\ conn[k] = "broken"
  /\ conn' = [conn EXCEPT ![k] = "down"]
  /\ UNCHANGED <<running, versions, scan, routed, copy, rejected, subscriptions,
                 sent>>

ServiceStop ==
  /\ Stoppable
  /\ running
  /\ running' = FALSE
  /\ UNCHANGED <<versions, scan, routed, copy, rejected, subscriptions, sent,
                 conn>>

-----------------------------------------------------------------------------
CopyStep(c) == \/ MarkRouted(c) \/ Withdraw(c) \/ SendBegin(c) \/ SendOk(c)
               \/ SendFail(c) \/ Release(c) \/ Leave(c)

ProcessStep(s) == ProcessBegin(s) \/ Finish(s) \/ TakeToken(s) \/ ProcessEnd(s)

LoopStep == List \/ Lock \/ \E v \in Version : ListRoute(v)

DeliverVersion(v, s) == \E c \in Copy : copy[c].version = v /\ Deliver(c, s)

Next ==
  \/ ServiceStop
  \/ LoopStep \/ ListingEnd
  \/ \E v \in Version :
       \/ \E new \in BOOLEAN : Appear(v, new)
       \/ HandlerRoute(v)
       \/ Cancel(v)
       \/ Unmark(v)
  \/ \E s \in Sub : Subscribe(s) \/ Unsubscribe(s) \/ ProcessStep(s)
  \/ \E c \in Copy : CopyStep(c) \/ \E s \in Sub : Deliver(c, s)
  \/ \E k \in Conn :
       \/ Break(k) \/ GoDown(k)
       \/ \E v \in Version : ClientReject(k, v)

Spec == Init /\ [][Next]_vars

\* Every goroutine that can go on does (WF).  One that waits for a mutex gets it
\* some time, and a select that finds a case ready again and again takes it some
\* time (SF: a mutex and a channel serve those that wait in their order, and
\* select picks at random).  A broken connection is noticed.
Fairness ==
  /\ WF_vars(LoopStep)
  /\ SF_vars(ListingEnd)
  /\ \A v \in Version : WF_vars(HandlerRoute(v))
  /\ \A c \in Copy : WF_vars(SendBegin(c) \/ SendOk(c) \/ SendFail(c)
                             \/ Release(c) \/ Leave(c))
  /\ SF_vars(\E c \in Copy : MarkRouted(c))
  /\ SF_vars(\E c \in Copy : Withdraw(c))
  /\ \A s \in Sub : /\ WF_vars(ProcessBegin(s) \/ TakeToken(s))
                    /\ WF_vars(Finish(s))
                    /\ SF_vars(ProcessEnd(s))
  /\ \A v \in Version, s \in Sub : SF_vars(DeliverVersion(v, s))
  /\ \A k \in Conn : WF_vars(GoDown(k))

FairSpec == Spec /\ Fairness

-----------------------------------------------------------------------------
(* Properties.                                                             *)

CopiesOf(v) == {c \in Copy : copy[c].version = v}
TakenBy(s) == {c \in Copy : copy[c].at \in Taken /\ copy[c].sub = s}

\* The loop routes a version that is marked routed never again, so as long as
\* the version is not canceled some goroutine or subscription has to have it,
\* whatever the subscriptions and the connections do (router.go:86-90,
\* queue-subscribe.go:150).
NotLost == running => \A v \in routed \cap live : CopiesOf(v) # {}

\* A version has two copies at most, one from its handler and one from the
\* loop: rerouting never multiplies them (router.go:42-61, 139-142).
TwoAtMost == \A v \in Version : Cardinality(CopiesOf(v)) <= 2

\* The pool: what a subscription has taken and what is left of its tokens.
\* One token too few for each path that does not give its token back, and the
\* subscription ends up deaf (queue-subscribe.go:105-126, 141).
TokensConserved ==
  \A s \in Sub :
    LET used == Cardinality(TakenBy(s)) + tokens[s]
    IN  CASE proc[s] = "receive" -> used + 1 = PoolSize
          [] proc[s] = "gone"    -> used <= PoolSize
          [] OTHER               -> used = PoolSize

\* A context recorded as sent is that of a send in progress of that version on
\* that connection: a reject never cancels a send that has ended.
SentInProgress ==
  \A k \in Conn, v \in Version :
    LET c == sent[k][v]
    IN  c # None => /\ copy[c].version = v
                    /\ copy[c].at \in {"sending", "held"}
                    /\ ConnOfCopy(c) = k

\* setRouted returns "false - already routed" (router.go:41): a version already
\* routed is not routed again, hence at most one subscription holds it.
HeldOnce ==
  \A c, d \in Copy :
    /\ copy[c].at = "held" /\ copy[d].at = "held"
    /\ copy[c].version = copy[d].version /\ copy[c].version \in live
    => c = d

\* What a subscription asks for: "" is anything.
Wants(s, v) == \A i \in 1 .. 2 : Filter[s][i] \in {"", Label[v][i]}

\* Somebody waits for versions like v, with room for one.
Served(v) ==
  running /\ \E s \in Sub : /\ Wants(s, v)
                            /\ s \in cancels
                            /\ conn[ConnOf[s]] = "up"
                            /\ tokens[s] > 0 \/ proc[s] = "receive"

\* A version that is in the queue gets to a subscription that wants it, unless
\* it is canceled first or there is no such subscription at some moment.
Delivered ==
  \A v \in Version :
    v \in live ~> \/ v \in dead \/ ~Served(v)
                  \/ \E c \in CopiesOf(v) : copy[c].at = "held"

\* A subscription that is told to end does, and lets go of all it holds.
Told(s) == /\ proc[s] # "new"
           /\ ConnDone(ConnOf[s]) \/ (s \in watch /\ s \notin cancels)
Ended(s) == proc[s] = "gone" /\ TakenBy(s) = {}

TheToldEnd == \A s \in Sub : Told(s) ~> Ended(s)

\* "Close tasks channel - cancel subscribe" (lib/client/queue.go:27): a
\* subscription whose cancel channel was closed ends.
CanceledEnd == \A s \in Sub : proc[s] # "new" /\ s \notin cancels ~> Ended(s)

\* After the service has been stopped nothing of this is left running
\* (worker.go:48 waits for it).
StopDrains ==
  ~running ~> /\ loop \in {"off", "done"}
              /\ \A c \in Copy : copy[c] = Idle
              /\ \A s \in Sub : proc[s] \in {"new", "gone"}

-----------------------------------------------------------------------------
(* The inductive invariant of the safety properties.                       *)

\* What is routed, listed or copied has been made, and is canceled for good.
Known ==
  /\ live \cap dead = {}
  /\ fresh \cup todo \cup routed \subseteq live \cup dead
  /\ \A c \in Copy : copy[c] = Idle \/ copy[c].version \in live \cup dead

\* Nothing is routed before the first subscription, and what is taken has been
\* taken by one.
TakenBySome ==
  /\ loop = "off" => \A c \in Copy : copy[c] = Idle
  /\ \A c \in Copy : copy[c].at \in Taken => copy[c].sub \in Sub

\* The copies a version has, and those the handler and the loop may yet make.
Budget(v) == Cardinality(CopiesOf(v)) + (IF v \in fresh THEN 1 ELSE 0)
                                      + (IF v \in routed THEN 0 ELSE 1)

WithinBudget == \A v \in Version : v \in dead \/ Budget(v) <= 2

Counted == /\ \A v \in Version : IsFiniteSet(CopiesOf(v))
           /\ \A s \in Sub : IsFiniteSet(TakenBy(s))

IInv == /\ TypeOK
        /\ Known
        /\ TakenBySome
        /\ Counted
        /\ NotLost
        /\ WithinBudget
        /\ TwoAtMost
        /\ TokensConserved
        /\ SentInProgress

=============================================================================
