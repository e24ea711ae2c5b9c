# Verification of go-task-manager

TLA+ models of the task manager in `src/`: its storage, the routing of tasks to
subscribers, the state ids that service and client share, the protocol
below them, the client with its reconnects, and the starts and stops of service,
client and server process. TLC checks each model on small instances; TLAPS proves
the safety properties of all of them, and that three of them implement an abstract
specification, for instances of any size. `PROJECT.json` lists the runs, the
definitions with the lines they model, the hazards and the findings.

The repository has no tests and no documentation of its own, so the
specifications are the comments on its interfaces and the panics it contains.

## The system

A server keeps tasks in queues. Clients connect over a websocket, create tasks,
subscribe to the tasks of a queue by parent and status, change the status of a
task, and remove it. A task has no owner and no history: what travels is a
*version* of it, an object with a channel that is closed when the next version
replaces it ("canceled").

| Part | State | Operations | Talks to |
|---|---|---|---|
| `lib/db/storage` | tables `queues`, `tasks`; per queue the records in memory | Start, Stop, open a queue, TaskNew, TaskGet, TasksGet, TaskStatusSet, TaskRemove | database |
| `lib/storage`, `lib/storage/queue` | current version object per task; queue objects by name and id | the same, plus the cancel of a replaced version | `lib/db/storage`, by calls under the queue's mutex |
| `service/task-manager/router` | per queue the channels by parent and status, the set `routed` | Subscribe, Route; a loop that lists the queue every 10 s; a goroutine per routed version | subscriptions, by unbuffered channels |
| `queue-subscribe.go` | per connection the cancel channels, the contexts of what was sent; per subscription a pool of 1000 | subscribe, unsubscribe, send, reject | router, client |
| `task-state.go` | per connection the maps id/version/watcher | getOrNewId, watcher, remove, getTask | handlers, client |
| `task-status-subscribe.go` | a goroutine per subscription | tells every version of one task | storage, `task-state.go` |
| `internal/protocol/controller` | list of response channels, `finished` | RequestSend, MessageSend, the reader, its stop | websocket, owner's loop |
| `lib/client` | objects by state id, subscriptions, the current controller, the worker | Start, Stop, GetQueue, queue and task operations, TasksSubscribe, taskNew, message processing, reconnect | controller |
| `service.go`, `status.go`, `worker.go`, `conn.go` | status, waiters, worker context | Start, Stop, StatusWait, ConnServe | everything below the service |
| `cli` | pid file | start, stop | operating system |

Everything runs in goroutines: one per request, message, route, send, watcher
and subscription. What makes it hard:

- **Ownership on disk.** Reading a task deletes its row; a graceful stop writes
  it back, a crash does not. Correct: a task is in one place, never doubled,
  never resurrected, and what memory says agrees with what was stored; a save or a
  commit that fails does no more than lose, or double, what it was about.
- **Two sources of routes.** Handlers and the loop both route versions, and a
  version marked `routed` is not listed again. Correct: nothing is lost while
  subscriptions and connections come and go, and nothing multiplies.
- **Check, then act.** Canceled channels are checked before calls that go by
  UUID; cancel channels are looked up when a goroutine begins.
- **Ids of a connection.** Handlers and watchers share them; the next
  connection numbers them anew. Correct: an id means one version, its cancel is
  told, its entries go.
- **Any order.** The client processes each message in a goroutine, so cancels
  overtake infos, and what was read on a lost connection is processed later.
- **Endings.** Connections break at any moment, service and client stop: every
  waiter must be released, and nothing of the old may reach into the new.
- **Retries.** Requests of a queue are sent again on the next connection, those
  of a task are not: its state id means something else there.
- **Starts and stops that meet.** `Start` of service and client goes on after it
  has made the new state visible; `Stop` of one worker meets the next one;
  processes share a pid file, may be interrupted at any step and may crash.

## The modules

Three abstract specifications say what a part promises to those above it,
whatever it is made of; each is implemented by the module of that part, by an
`INSTANCE ... WITH` that states the refinement mapping:

- `TaskStore`, of the storage about tasks, by `Storage` (`ImplementsTaskStore`): a
task is mapped to its row or, if it has none, to the record in memory; of a task
whose read was not committed `TaskStore` promises nothing (`GoStray`).
- `StateIds`, of the service about what it tells a client over a connection, by
`TaskState` (`ImplementsStateIds`): an id names the version its watcher has, which
is canceled when that is.
- `Requests`, of a controller to those who send requests, by `Protocol`
(`ImplementsRequests`): where a request is follows from its channel, its sender
and the messages under way (`StateOf`). It is that of the interface
(`controller.go:13-29`): error, answer or nil, one of them and for good.

The theorems about a module `X`, with their proofs, are in `XProofs`, those about
`TaskState` and `Protocol`, the two of a connection, in `ConnectionProofs`.

| Module | Models | State against code |
|---|---|---|
| `Storage` | `lib/db/storage`, `lib/storage`, the manager | `rows`, `queues`: tables, tasks by primary key; `mem`: `queue.task.list`; `cache`: `lib/storage.queue.task`; `objs`: version objects; `qstate`: `isStarted` per queue; `setting`: a TaskStatusSet between finding and writing |
| `Delivery` | router, queue subscriptions and their handlers | `copy`: the goroutine of Route, then of the send; `routed`: `subs.routed`; `cancels`, `sent`: `queueSubscribeState`; `watch`: whether the process found its channel; `tokens`: the pool; `loop`, `todo`: the loop of Subscribe |
| `TaskState` | `task-state.go` and the handlers that use it | `ids`, `tasks`, `nextId` as in the code; `watch`: the watchers; `handler`: a request or a status subscription between its steps; `told`, `cancelSent`: what went to the client |
| `ClientTasks` | the client's objects by state id | `list`: `client.task.list`; `inbox`: read and not yet processed; `names`, `changed`, `canceled`, `infos`: the service as the client can see it |
| `Client` | Start, Stop, connWorker, the loop of every request | `worker`, `ctl`: `c.ctx.worker`, `c.protocol.ctl`, by the number of their Start; `dialer`, `link`: connWorker, and the controller it offers; `queue`, `task`: an object with the channel and context it keeps; `op`: the goroutine of a call |
| `Subscriptions` | TasksSubscribe, the map of subscribe ids, offered tasks | `reg`: `client.queue.tasksSubscribe`; `call`, `chan`: a call's goroutine and channel; `offers`: the goroutine of a message; `served`: the ids of the service on this connection, and whether their cancel is in `queueSubscribeState` |
| `Service` | `service.go`, `status.go`, `worker.go`, `conn.go` | `current`: `s.ctx.worker`; `serve`, `open`: `s.conn.serve` and which channels are not closed; `worker`, `taker`, `conn`: workerStart, connWorker, connServe, by the number of their Start; `stopping`: the goroutine in workerStop |
| `Server` | `cli`, the server's start and stop commands | `file`: the pid file; `stage`: how far the goroutine that starts and ends a process has got; `told`: shutdownSignals, then the canceled context; `stopper`, `target`: stop commands |
| `StateIds` | the service, as a client sees it | `names`, `changed`: which version an id names, and whether it is canceled; `told`, `canceled`: what went to the client |
| `Requests` | the interface `Controller`, as its callers see it | `up`, `finished`: the link, `Finished()`; `state`: how far a request has got, at last its answer, nil or an error |
| `Protocol` | `internal/protocol/controller` and its owner | `listed`: `res.list`; `channel`: the response channels; `reader`: where connRead is; `owner`: the loop of connServe or the client's connRead |

One action per critical section, channel operation, call of another part, or
return from a `select`. An operation that only answers "not exists" changes
nothing and has no action. Task content is left out, since it is stored
and sent with the status; names of queues and their ids are one value. A
definition marked *Mutant* is not used: it is the definition next to it with a
plausible mistake, and shows which property notices that mistake.

The client rests on these two promises. `ClientTasks` takes its service from
`StateIds`, in smaller steps: ids are numbered on each connection, mean one version
each, are told to be canceled once and only when the version is, and a cancel may
come before an info. `Client` takes its connections from `Requests`: a request
fails, or is written to the connection and handled there early, late or never; an
answer comes before `Finished()` is closed (`link` is `closing`), nil only after.
A request the service has read may be handled when the client has long given the
connection up. `Subscriptions` has of a connection the same, with answers and end
at once, and of `Delivery` that ids are numbered, that a send checks its cancel and
writes its message later, canceled or not; the process that has missed its cancel
sends nothing, since its sends look again (`queue-subscribe.go:146`), and is
`Delivery`'s. `Service` has of a
connection that it ends when its context is done (`StopDrains`), `Server` of the
service that it ends when its context is (`StopEnds`, `EndTold`), and `Storage` has one
process at a time that starts and stops it once, which `Server` checks
(`OneServer`, `StoppedAtEnd`); what a stop saves, and that it may fail to, is
`StopQueue` of `Storage`. The modules are checked one by one; they are not
composed into one specification.

## The runs

| Run | Instance | What it shows |
|---|---|---|
| `Storage` | 2 queues, 2 tasks, 2 statuses, 2 rows, 3 objects | the inductive invariant `IInv` with the type invariant, `PlacedOnce`, `LayersAgree`, `OneLiveVersion`, `NilMeansAbsent`, and `ImplementsTaskStore`, with crashes and stops at any moment, saves that fail and reads that are not committed |
| `StorageStop` | a status set meets Stop | violates `TrueMeansSet` |
| `Delivery` | 1 version, 3 copies, 2 subscriptions of a connection, pool of 1, a break, rejects, a stop | the inductive invariant `IInv`, `NotLost`, `TwoAtMost`, `TokensConserved`, `SentInProgress` |
| `DeliveryLive` | the same with 1 subscription, 2 copies, under fairness | `Delivered`, `TheToldEnd`, `StopDrains` |
| `TaskState` | 1 task, 3 versions, 3 ids, 2 handlers, under fairness | `ImplementsStateIds`, `Registered` (the maps agree, every id has its watcher), `ToldRight` (an id means one version, its cancel is true), `CancelTold`, `Forgotten`, `StatusFollowed` |
| `TaskStateSet` | the same | violates `SetOnlyCurrent` |
| `ClientTasks` | 2 tasks, 2 ids, 2 connections, 3 objects, 2 unprocessed messages | `IInv`, `Reachable`, `FirstConnection` (objects are canceled by the service only, no panic), `CancelArrives` |
| `Protocol` | 3 requests, 1 message, under fairness | `ImplementsRequests`, `ChannelsKept` (no waiting channel is forgotten, listed while open, nil only on a lost connection), `RequestEnds`, `AnswerArrives` |
| `Service` | 2 starts, 1 connection, 1 waiter, under fairness | for callers who wait: `StatusTells` (a stopped service is quiet, a started one serves), `CallsReturn`, `EndTold` (who waits for the end is told) |
| `Client` | 2 starts, 2 connections, a call of each kind, under fairness | `NilMeansStopped` (requests go without an answer only when their Start is over), `AppliedRight` (nothing that changes a task is done twice, or on another connection), `StopDone` |
| `Subscriptions` | 2 calls, 2 connections, 2 ids and 1 task on each, under fairness | `OwnIds` (tasks and cancels reach the call they are for), `NothingLeft` (no send to a call that has ended is begun), `CallsEnd` |
| `Server` | 4 processes, 2 pids, a stop command, under fairness | `OneAtATime`, `StoppedAtEnd` (a process stops the storage it started, before it goes), `StopReturns` |

Deadlock is checked for `Storage`, where a process can always end and a new one
start. The other systems come to rest: a connection has ended, a stop has been
carried through, the bound on versions, ids, starts or processes is reached,
nothing is left to process.

**Bounds.** *Storage*: two queues for a task in the wrong one, two tasks so that
a save writes one and drops the other, two rows for these, or for a task that is
written twice, three objects so that a version is replaced beside that of the other
task; a step that needs a fourth object, or a third row, is not taken. The theorems
have no bounds. *Delivery*: a version has two copies at most (`TwoAtMost`), so three
Copy values leave the bound visible; versions meet only in the pool, and a pool
of one makes every token count. *TaskState*: two handlers are what it takes to
share an id; three versions are a first, its successor, and one more for a
status set that is late. `Room` lets a handler begin only if the ids and versions
it may need are left, so that the bound cuts nothing off half-way. *ClientTasks*:
two connections for a stale id, two ids for two objects of one connection; two
messages are enough to process any pair out of order. `MaxInfo` is 1, and
`CancelArrives` says why: with a second info for an id whose cancel has been
processed the client makes an object that nothing cancels before the
connection ends. *Protocol*: three requests, so that one is answered, one fails
and one waits. *Service*: two starts, so that the worker of the first is still
there at the second; one connection may be offered, taken and refused around
each; what follows once a caller has not waited is not explored (`CallersWait`), as
nothing is claimed of it. *Client*: two starts for objects that outlive a Stop, two
connections, one that is lost and one that the Stop meets, or that outlives it; one call of each
of the three kinds, which meet only in the worker they wait for. A third connection
makes a million states of them: TLC has checked `IInv` and all three properties on
these, too, in more time than a run should take. *Subscriptions*: two calls, so
that an id of one can be taken for the other's on the next connection, and two ids for both on
one. *Server*: two pids make every reuse possible, four processes are a crash, its
successor, a start command beside it, and another.

**Fairness.** A goroutine that can go on does (weak fairness on its steps). In
`Delivery` a goroutine that waits for a mutex, for a channel, or in a `select`
with several ready cases gets its turn (strong fairness): Go's mutexes and
channel queues serve waiters in order, and `select` picks among ready cases at
random. In `Service` the same is said of connWorker, which a client could keep
busy for ever. A broken connection is noticed. No fairness is assumed of clients:
they need never answer, reject, unsubscribe or read. In `Protocol`,
the other end may never answer; a request then ends only with the connection.
In `Subscriptions` the service answers, or the connection ends, and connWorker
connects again. In `Server` nobody has to start, stop or crash anything, and
what has no signal may serve for ever.

**Weaker than one might expect.** `Delivered` allows for a moment without a
willing subscription, as the router keeps nothing for those who come later but
the offer itself. `TheToldEnd` speaks of subscriptions whose process found its
cancel channel. `RequestEnds` needs the owner of the controller in its loop: once it
has left (the client is stopped, the service's context is done) connRead may wait
for ever to hand over a message (`conn.go:19-25`), connStop never runs, and the
requests of the connection are not released by it. `NilMeansAbsent` and
`OneLiveVersion` need callers that ask a queue for its own tasks.
`CanceledByService` allows for objects that an early offer has left without a
queue. `InfoBeforeCancel` in `TaskState` states the comment of
`task-state.go:34`; no run checks it, as the code does not keep it when two
handlers share an id: the watcher the first one starts can tell the cancel before
the second sends its info.

In `Service` callers are free: any may call `Stop` before `Start` has returned,
end the context, or call `Start` again while an older worker is still on its way
out, which the status does not tell them. What goes wrong then is in the model: a
Stop that cancels a nil context, or an older worker's (`service.go:67`,
`worker.go:50-52`: the field is read twice), the assertion of `worker.go:31`, a
new worker brought down with the end of an old one (`worker.go:38`; `StartLasts`
below). The properties claim something only until a caller has not waited, for
`Start` to return before a stop or for the worker to go before the next Start
(`hasty`); the server's command waits, unless a signal arrives while `Start`
runs, as it starts the service once and ends it by its context. `StoppedQuiet`
allows for a stop before the worker has had a child to wait for.

`NilMeansStopped` is about the Start that a queue was made under, and about
requests that go without an answer: the nil of TaskGet for a task that does not
exist (`lib/client/queue.go:164`) and the panic of TaskNew for a queue that does
not (`queue.go:101`) are answers, and come on a running client.

In `Storage`, `PlacedOnce` and `TaskStore` except the task whose own read was not
committed (`astray`): it is in its row and in memory, a Stop writes it again, and
its removal leaves the old row; what they claim is that nothing else does that,
and that it is that task alone.

`StoppedAtEnd` says that the storage is stopped, not that this saves everything:
children are dropped, and a failed write is only logged
(`lib/db/storage/queue.go:42-54`).

`NothingLeft` is about the service's cancels: what has passed the check goes out
after the unsubscribe, for the client to reject, and the process may stay
(`CanceledEnd` below).

`AppliedRight` allows for a TaskNew, which is sent again, one effect on each
connection it was written to, all of which but the last have finished; the
service may handle it there after the client has sent it elsewhere. It also
allows for tasks canceled before the call.

`Client` and `Subscriptions` let connWorker connect only when goroutines that can
go on have done so (`Settled`): it waits a second first. `OwnIds` allows for two
things the code does: a subscription registered after its connection was cleaned
up (`client.go:380`) and an unsubscribe sent again on the next connection
(`queue.go:235`); without either allowance TLC refutes it. `CallsEnd` allows for
a goroutine that holds a task nobody takes (`queue.go:310`), on which a Stop of
the client then waits.

`OneServer` allows for start commands that both read the pid file before either
has written it. `StopReturns` is about servers: who has got their pid may ignore
the interrupt.

## Findings

1. `lib/db/storage/queue.go:243`: a status set that overlaps Stop answers true
   and is stored nowhere (`StorageStop`).
2. `task.go:109`: the check for cancelation and the status set by UUID are two
   steps; a status is set over a version its setter has never seen
   (`TaskStateSet`).

Other properties the comments promise are stated in the modules and refuted by
TLC in the instances given here. No run repeats them; what does hold
in their place is in the table above.

| Property | Instance | The code |
|---|---|---|
| `Storage`, `NilMeansAbsent` | `Foreign = TRUE`, 1 task | `lib/db/storage/queue.go:119`: a lookup by UUID ignores the queue; a task moves to the queue that was asked, and its own queue then denies it |
| `Storage`, `NeverDoubled` | 1 task, 1 status, 2 rows | `lib/db/storage/queue.go:140`, `208`: the error of `tx.Commit` is ignored; a task read by such a transaction keeps its row and is written a second time |
| `Delivery`, `HeldOnce` | nothing fails | `router.go:141`: handler and loop route the same version, two clients work on it at once |
| `Delivery`, `CanceledEnd` | 1 subscription, `FairSpec` | `queue-subscribe.go:89`: a subscription canceled before its goroutine begins goes on for as long as the connection does |
| `ClientTasks`, `NoOldTask` | that of the run | `lib/client/client.go:344`: state ids of a lost connection collide with those of the next, and the client panics |
| `Service`, `StartLasts` | that of the run without `CallersWait` | `worker.go:38`: what is left of the worker of an earlier Start calls workerStop when it sees its context done, and brings down the service started since |
| `Client`, `RunningNotNil` | 1 connection, no Setter | `lib/client/client.go:148`: a queue got before a Stop and a Start answers nil for ever after, as if the client were stopped |

## What is proved

All theorems hold for every value of the constants that satisfies the named
assumptions of the module; sets need not be finite. The assumptions say that
`None` and the like are none of the values they stand in for, that bounds are
natural numbers, that flags are Booleans, and in `Service` that one can only wait
for a status there is. None is about behaviour.

Each module has an `IInv`, the conjunction of its type invariant, the properties
and what these need to be inductive, and a theorem `Invariance`:
`Spec => []IInv`. Most proofs have a lemma per conjunct or per action, and first
say what any step does to a group of variables. TLC has checked every `IInv`
(`PIInv` in `Protocol`) on the instance of the module's run; the runs of `Storage`,
`Delivery` and `ClientTasks` list it, the others list the properties only.

| Module | Theorems | The property |
|---|---|---|
| `StorageProofs` | `TypeCorrect`, `TaskPlacedOnce`, `TaskLayersAgree` | the type invariant, `PlacedOnce`, `LayersAgree` |
| | `TaskOneLiveVersion`, `TaskNilMeansAbsent` | `OneLiveVersion`, `NilMeansAbsent` under `~Foreign`, without which they are false |
| | `Refinement` | `ImplementsTaskStore` |
| `DeliveryProofs` | `NothingLost`, `NeverThree`, `PoolConserved`, `RejectHitsSend` | `NotLost`, `TwoAtMost`, `TokensConserved`, `SentInProgress` |
| `ConnectionProofs` | `RegistryWhole`, `ClientToldRight` | `Registered`, `ToldRight` of `TaskState` |
| | `ServiceKeepsContract` | `ImplementsStateIds` of `TaskState` |
| | `ChannelsAreKept` | `ChannelsKept` of `Protocol` |
| | `ControllerImplementsRequests` | `ImplementsRequests` of `Protocol` |
| `ClientTasksProofs` | `NoneOutOfReach`, `FirstIsTrue`, `NoCancelLost` | `Reachable`, `FirstConnection`, `CancelArrives` |
| `ClientProofs` | `NilOnlyAtStop`, `EffectsRight` | `NilMeansStopped`, `AppliedRight` |
| `SubscriptionsProofs` | `IdsAreOwn`, `NobodyLeft` | `OwnIds`, `NothingLeft` |
| `ServiceProofs` | `StatusTrue` | `StatusTells` |
| `ServerProofs` | `OneHasStorage`, `GoneHasStopped` | `OneAtATime`, `StoppedAtEnd` |

Why the properties alone are not inductive, and what `IInv` adds:

- *Storage*. That a status set
half-way can be finished needs its task to have a current version
(`QueueStates`); that a replaced version does not disturb another task or
queue needs versions to be shared by nobody (`Cached`); that at most one version
lives needs every living one to be some queue's current one (`LiveCurrent`);
that a new task is in no place yet needs existing tasks to have issued
identifiers (`ExistingIssued`); and that it lives in one queue only needs it to
stay there (`Owned`). Whether a read was committed matters
to `PlacedOnce` and the refinement only. For the latter, lemmas say how each action
moves the location of a task; a task that is stopped or lost becomes
`Save` or `Lose`, a read becomes `Load` or `GoStray`, most else a stutter.
- *Delivery*. Two copies of a version is a bound only if one counts the copies
that may still be made: by the handler that has just made the version, and by
the loop, which must not find it unmarked (`WithinBudget`). A copy is of a
version that exists (`Known`) and taken by a subscription (`TakenBySome`), so that
the tokens a pool lacks are those of its copies; `Counted` gives the finite sets
that are counted.
- *TaskState*. The registry forgets; the watcher does not. An id has a watcher
from the moment it is made (`Issued`), and what a handler is about to tell, or
the client was told, agrees with that watcher for ever (`WatcherKnows`), also
when the version has been registered anew under another id. For the refinement, a
watcher sends its cancel once (`CancelOnce`), as it ends with it; a change of a
task cancels all ids of its version in one step of `StateIds`, and a handler that
registers a version canceled meanwhile gives an id that is canceled from the start.
- *ClientTasks*. On the first connection messages and objects of an id have the
task it names, and a cancel is on its way once (`OfFirst`); with one info per id
an object's info has been processed, so that a cancel is in the inbox, in the list,
or has found its object (`OneInfo`).
- *Protocol*. connRead holds one answer at most (`OneInHand`); who closes a
channel without an answer does so on a connection already lost (`LostBefore`).
For the refinement one has to say where a request can be (`Placed`): with the other
end or on its way back only once written and as long as it is listed, in one of
these places at most, in connRead's hands only when listed no more. A failed
request was then never asked, an answer is put before `finished` is closed, and
connStop releases requests that were written only, as those still to be written
will fail; whatever connRead and the callers do besides is a stutter.
- *Client*. Starts come one after the other, so that all but the newest have
finished (`InOrder`), one connection is offered, the last there is (`Connected`),
and a context kept by a queue, a task or a request is not of a Start before that
of its channel (`Timely`, `Kept`). A request on its way is therefore of a worker
that waits for it (`CallOf`): its nil comes from a channel that Stop has closed or
a context it has canceled. A request is written once to a connection, and to the
next only when the one before has released it, so that what the service does late
was written to a connection that has finished (`Effects`); that a task's request stays on the task's connection needs that no other is
offered while it may still pick one (`OnTask`).
- *Subscriptions*. The ids of a connection are handed out without gaps
(`Numbered`); what a call knows of its id holds as long as the connection is the
one it asked on (`Knows`); what is in the map or on offer was meant for its call
(`Mapped`, `OffersMeant`); and whoever the service has not canceled has the id, or
the answer with it (`LiveHeld`).
- *Service*. While callers wait only the newest start can have a worker
(`InOrder`), whose state says what its channel and its connWorker are (`InStep`);
until a stop begins nothing has canceled it (`AtStart`), and the stop cancels and
awaits that one (`AtStop`). The handler of a worker's panic is therefore never the
first in workerStop. Once a caller has not waited `IInv` is the type invariant, as
nothing else is claimed; a caller that is `hasty` stays so, and each step of one who
is not keeps the rest.
- *Server*. Start commands that have passed the check are one, and the pid file
has its pid until its process is gone (`OnePassed`, `FileTells`), unless two
have raced.

`ConnectionProofs` extends both `TaskState` and `Protocol`, which share neither
variables nor steps; the names of `Protocol` that `TaskState` has too begin with a P.

Only model-checked: the two violations, and every liveness property, which needs
fairness and `ENABLED`, out of the prover's reach. `TaskStore`, `StateIds` and
`Requests` are therefore safety specifications; that a request ends is
`RequestEnds`, that a cancel is told `CancelTold`. Neither checked nor proved is
the other half of the argument, that the service and the connections of
`ClientTasks` and `Client` do everything that `StateIds` and `Requests` allow: it
would say of every step of the one that a step of the other is possible, again
`ENABLED`. It rests on a reading of the two side by side.

## Not modelled

- `StatusSubscribe` of the client (`lib/client/task.go:101-181`). Its messages are
  processed in any order, and the comparison that is to drop older ones
  (`client.go:355`, `504`) compares equal ids.
- The id of a queue. When the commit of a new queue fails unnoticed
  (`lib/db/storage/storage.go:150`) `Storage` lets the queue work without its row and
  be created again later, but under the same id; that the id may then be another
  queue's, with the tasks saved under it, is left out.
- The HTTP listener (its failure is a server that ends by itself), the database
  behind the driver.
- Messages' encoding, configuration, database drivers, the client's commands,
  the debug listing of contexts: data and set-up without a protocol of their own.
- `go-context.v2` and `gorilla/websocket` are not part of the repository. Assumed
  of them: `Go` starts a worker once; `Cancel` ends a context and all below it;
  `ChildsFinished(true)` and `Finished(true)` wait for all goroutines below; a panic
  is given to the handler of its context; a closed or broken websocket fails reads
  and, sooner or later, writes.

## Plan

1. `Storage`, `TaskStore`, `StorageProofs` - done.
2. `Delivery`, `TaskState`, `ClientTasks`, `Protocol` - done.
3. `Service`, `Client`, `Subscriptions`, `Server` - done.
4. Proofs of the safety properties: `Storage`, `Delivery`, `TaskState`,
   `ClientTasks`, `Protocol`, `Client`, `Subscriptions`, `Service`, `Server` - done.
5. `StateIds` and `Requests`, with proofs that `TaskState` and `Protocol` implement
   them - done.
6. Left: `ClientTasks` and `Client` composed with these two, instead of with steps
   of their own that follow them; the client's status subscriptions.
