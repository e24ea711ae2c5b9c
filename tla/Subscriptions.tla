--------------------------- MODULE Subscriptions ----------------------------
(***************************************************************************)
(* The subscriptions of a client to the tasks of a queue: the goroutine of *)
(* queue.TasksSubscribe in lib/client/queue.go, which subscribes anew on   *)
(* every connection and unsubscribes when its user closes the channel; the *)
(* map client.queue.tasksSubscribe by subscribe id, and the goroutine of   *)
(* every SC_QueueSubscribeTask, which finds its subscription in that map.  *)
(*                                                                         *)
(* The service numbers the subscriptions of a connection from 0.  Of its   *)
(* sends there is the check that the subscription has not been canceled,   *)
(* and the message, which may come after an unsubscribe.  Its side in      *)
(* detail, with the process of a subscription that looks its cancel up too *)
(* late and stays, is module Delivery.                                     *)
(*                                                                         *)
(* One action per critical section of c.queue.mu, per request and answer,  *)
(* and per return from a select.                                           *)
(***************************************************************************)
EXTENDS Naturals, FiniteSets

CONSTANTS Sub,       \* calls of TasksSubscribe
          MaxConn,   \* connections (a bound)
          MaxId,     \* subscribe ids of a connection (a bound)
          MaxOffer,  \* tasks sent on a connection (a bound)
          None       \* nil

ASSUME BoundsAssumption ==
  MaxConn \in Nat \ {0} /\ MaxId \in Nat \ {0} /\ MaxOffer \in Nat

VARIABLES
  link,     \* down, up, or finished: connDisconnected has still to come
  conn,     \* the number of the connection
  stopped,  \* the client has been stopped: its contexts are done
  served,   \* of the service, on this connection: per id the call, and whether
            \*   its cancel is in queueSubscribeState.cancels
  sent,     \* of the service: sends on this connection that saw their cancel
  offers,   \* these sends, and the goroutines of SC_QueueSubscribeTask messages
  reg,      \* client.queue.tasksSubscribe
  call,     \* per call of TasksSubscribe, its goroutine
  chan,     \* per call, its channel: open, closed (by the user), ended
  late,     \* of the properties: calls registered after the connDisconnected
            \*   of their connection
  astray    \* of the properties: an Unsubscribe was sent on another connection

service == <<served, sent>>
vars == <<link, conn, stopped, service, offers, reg, call, chan, late, astray>>

Id == 0 .. MaxId - 1
Conn == 1 .. MaxConn
Served == [call : Sub, live : BOOLEAN]

ASSUME NoneAssumption == None \notin Id \cup Sub \cup Served

\* via: the connection of the controller it has; id: *subscribeId, of the
\* connection idOf; answer: to the request that waits.
Goroutine == [pc : {"idle", "pick", "request", "wait", "register", "loop",
                    "hold", "unpick", "unrequest", "unwait", "end"},
              via : 0 .. MaxConn, id : Id \cup {None}, idOf : 0 .. MaxConn,
              answer : Id \cup {None}]

\* passed: at the service, which has yet to write it.  for: the call the service
\* means; to: the one that was found for its id.
Offer == [at : {"passed", "look", "send"}, nth : 1 .. MaxOffer, conn : Conn,
          id : Id, for : Sub, to : Sub \cup {None}]

TypeOK ==
  /\ link \in {"down", "up", "finished"}
  /\ conn \in 0 .. MaxConn
  /\ stopped \in BOOLEAN
  /\ served \in [Id -> Served \cup {None}]
  /\ sent \in 0 .. MaxOffer
  /\ offers \subseteq Offer
  /\ \A m \in offers : m.at = "send" <=> m.to # None
  /\ reg \in [Id -> Sub \cup {None}]
  /\ call \in [Sub -> Goroutine]
  /\ chan \in [Sub -> {"open", "closed", "ended"}]
  /\ \A s \in Sub : chan[s] = "ended" => call[s].pc = "end"
  /\ late \subseteq Sub /\ astray \in BOOLEAN

Blank == [pc |-> "idle", via |-> 0, id |-> None, idOf |-> 0, answer |-> None]

Init ==
  /\ link = "down" /\ conn = 0 /\ stopped = FALSE
  /\ served = [i \in Id |-> None] /\ sent = 0
  /\ offers = {}
  /\ reg = [i \in Id |-> None]
  /\ call = [s \in Sub |-> Blank]
  /\ chan = [s \in Sub |-> "open"]
  /\ late = {} /\ astray = FALSE

-----------------------------------------------------------------------------
(* Connections (connWorker).                                               *)

Current(k) == link = "up" /\ conn = k

\* It connects a second after it has lost a connection: goroutines that could
\* go on have done so by then.  What the service has not written is lost.
Settled ==
  /\ \A m \in offers : m.at = "passed"
  /\ \A s \in Sub : \/ call[s].pc \in {"idle", "pick", "unpick", "end"}
                    \/ call[s].pc = "hold" /\ chan[s] = "open"

Connect ==
  /\ link = "down" /\ ~stopped
  /\ conn < MaxConn
  /\ Settled
  /\ link' = "up"
  /\ conn' = conn + 1
  /\ served' = [i \in Id |-> None] /\ sent' = 0
  /\ offers' = {}
  /\ UNCHANGED <<stopped, reg, call, chan, late, astray>>

\* The connection is lost, and its controller finished.
Finish ==
  /\ link = "up"
  /\ link' = "finished"
  /\ UNCHANGED <<conn, stopped, service, offers, reg, call, chan, late, astray>>

\* connDisconnected.
Disconnected ==
  /\ link = "finished"
  /\ link' = "down"
  /\ reg' = [i \in Id |-> None]
  /\ UNCHANGED <<conn, stopped, service, offers, call, chan, late, astray>>

\* client.Stop.
Stop ==
  /\ ~stopped
  /\ stopped' = TRUE
  /\ link' = IF link = "up" THEN "finished" ELSE link
  /\ UNCHANGED <<conn, service, offers, reg, call, chan, late, astray>>

-----------------------------------------------------------------------------
(* The service.                                                            *)

Named == {i \in Id : served[i] # None}

\* Mutant: it is not counted up.
NextIdZero == 0

\* queueSubscribeState.new.
NextId == Cardinality(Named)

ServiceSubscribe(s) ==
  /\ call[s].pc = "wait" /\ call[s].answer = None
  /\ Current(call[s].via)
  /\ NextId \in Id
  /\ served' = [served EXCEPT ![NextId] = [call |-> s, live |-> TRUE]]
  /\ call' = [call EXCEPT ![s].answer = NextId]
  /\ UNCHANGED <<link, conn, stopped, sent, offers, reg, chan, late, astray>>

\* queueSubscribeState.cancel, of whoever has the id on this connection.  What
\* has passed the check goes on.
ServiceUnsubscribe(s) ==
  /\ call[s].pc = "unwait" /\ call[s].answer = None
  /\ Current(call[s].via)
  /\ LET i == call[s].id
     IN  /\ served' = IF served[i] = None THEN served
                      ELSE [served EXCEPT ![i].live = FALSE]
         /\ call' = [call EXCEPT ![s].answer = i]
  /\ UNCHANGED <<link, conn, stopped, sent, offers, reg, chan, late, astray>>

\* A goroutine that is to send a task sees that its cancel is there; without
\* it, the task would go back to the router.
ServiceTake(i) ==
  /\ link = "up"
  /\ i \in Named /\ served[i].live
  /\ sent < MaxOffer
  /\ sent' = sent + 1
  /\ offers' = offers \cup {[at |-> "passed", nth |-> sent + 1, conn |-> conn,
                             id |-> i, for |-> served[i].call, to |-> None]}
  /\ UNCHANGED <<link, conn, stopped, served, reg, call, chan, late, astray>>

\* It writes the message, canceled or not; the client has read it.
ServiceSend(m) ==
  /\ m \in offers /\ m.at = "passed"
  /\ Current(m.conn)
  /\ offers' = (offers \ {m}) \cup {[m EXCEPT !.at = "look"]}
  /\ UNCHANGED <<link, conn, stopped, service, reg, call, chan, late, astray>>

-----------------------------------------------------------------------------
(* connMesProcess.                                                         *)

\* The subscription of the id; without one, the task is rejected.
OfferLook(m) ==
  /\ m \in offers /\ m.at = "look"
  /\ offers' = (offers \ {m}) \cup
                 (IF reg[m.id] = None THEN {}
                  ELSE {[m EXCEPT !.at = "send", !.to = reg[m.id]]})
  /\ UNCHANGED <<link, conn, stopped, service, reg, call, chan, late, astray>>

\* The user takes the task.
OfferTaken(m) ==
  /\ m \in offers /\ m.at = "send"
  /\ chan[m.to] = "open"
  /\ offers' = offers \ {m}
  /\ UNCHANGED <<link, conn, stopped, service, reg, call, chan, late, astray>>

\* The goroutine of the call takes it, to offer it itself.
OfferHeld(m) ==
  /\ m \in offers /\ m.at = "send"
  /\ chan[m.to] = "open"
  /\ call[m.to].pc = "loop"
  /\ offers' = offers \ {m}
  /\ call' = [call EXCEPT ![m.to].pc = "hold"]
  /\ UNCHANGED <<link, conn, stopped, service, reg, chan, late, astray>>

\* A closed channel: rejected, and the subscription is no more.
OfferClosed(m) ==
  /\ m \in offers /\ m.at = "send"
  /\ chan[m.to] # "open"
  /\ offers' = offers \ {m}
  /\ reg' = IF reg[m.id] = m.to THEN [reg EXCEPT ![m.id] = None] ELSE reg
  /\ UNCHANGED <<link, conn, stopped, service, call, chan, late, astray>>

\* The context of the connection is done: rejected.
OfferEnd(m) ==
  /\ m \in offers /\ m.at = "send"
  /\ ~Current(m.conn)
  /\ offers' = offers \ {m}
  /\ UNCHANGED <<link, conn, stopped, service, reg, call, chan, late, astray>>

-----------------------------------------------------------------------------
(* TasksSubscribe.                                                         *)

Goes(s, from, to) ==
  /\ call[s].pc = from
  /\ call' = [call EXCEPT ![s].pc = to]

Again(s) == call' = [call EXCEPT ![s] = [Blank EXCEPT !.pc = "pick"]]

\* The deferred close; if the user has closed the channel, its panic is caught.
Ends(s) ==
  /\ call' = [call EXCEPT ![s] = [Blank EXCEPT !.pc = "end"]]
  /\ chan' = [chan EXCEPT ![s] = "ended"]

TasksSubscribe(s) ==
  /\ Goes(s, "idle", "pick")
  /\ UNCHANGED <<link, conn, stopped, service, offers, reg, chan, late, astray>>

\* The user: "Close tasks channel - cancel subscribe" (queue.go:27).
Close(s) ==
  /\ call[s].pc # "idle"
  /\ chan[s] = "open"
  /\ chan' = [chan EXCEPT ![s] = "closed"]
  /\ UNCHANGED <<link, conn, stopped, service, offers, reg, call, late, astray>>

\* A controller, which connWorker offers until it sees that it has finished.
Pick(s) ==
  /\ call[s].pc \in {"pick", "unpick"}
  /\ link # "down" /\ ~stopped
  /\ call' = [call EXCEPT ![s].via = conn,
                ![s].pc = IF @ = "pick" THEN "request" ELSE "unrequest"]
  /\ UNCHANGED <<link, conn, stopped, service, offers, reg, chan, late, astray>>

\* The context is done, wherever the goroutine looks at it.
Done(s) ==
  /\ call[s].pc \in {"pick", "wait", "loop", "unpick", "unwait"}
  /\ stopped
  /\ Ends(s)
  /\ UNCHANGED <<link, conn, stopped, service, offers, reg, late, astray>>

Request(s) ==
  /\ call[s].pc = "request"
  /\ IF Current(call[s].via) THEN Goes(s, "request", "wait") ELSE Again(s)
  /\ UNCHANGED <<link, conn, stopped, service, offers, reg, chan, late, astray>>

\* The answer; it may have been put before the connection was lost.
Answer(s) ==
  /\ call[s].pc = "wait"
  /\ call[s].answer # None
  /\ call' = [call EXCEPT ![s].pc = "register", ![s].id = call[s].answer,
                          ![s].idOf = call[s].via, ![s].answer = None]
  /\ UNCHANGED <<link, conn, stopped, service, offers, reg, chan, late, astray>>

\* Nil, for a connection that is lost: next, please.
NoAnswer(s) ==
  /\ ~Current(call[s].via)
  /\ call[s].pc = "wait"
  /\ Again(s)
  /\ UNCHANGED <<link, conn, stopped, service, offers, reg, chan, late, astray>>

\* client.queueTasksSubscribe, whichever connection there is.
Register(s) ==
  /\ Goes(s, "register", "loop")
  /\ reg' = [reg EXCEPT ![call[s].id] = s]
  /\ late' = IF call[s].via < conn \/ link = "down" THEN late \cup {s} ELSE late
  /\ UNCHANGED <<link, conn, stopped, service, offers, chan, astray>>

\* The controller has finished: subscribe again.
Lost(s) ==
  /\ call[s].pc = "loop"
  /\ ~Current(call[s].via)
  /\ Again(s)
  /\ UNCHANGED <<link, conn, stopped, service, offers, reg, chan, late, astray>>

\* The goroutine holds a task, for the user to take ...
Give(s) ==
  /\ chan[s] = "open"
  /\ Goes(s, "hold", "loop")
  /\ UNCHANGED <<link, conn, stopped, service, offers, reg, chan, late, astray>>

\* Mutant: a closed channel ends the call at once.
ClosedAtOnce(s) ==
  /\ call[s].pc \in {"loop", "hold"}
  /\ chan[s] = "closed"
  /\ Ends(s)
  /\ UNCHANGED <<link, conn, stopped, service, offers, reg, late, astray>>

\* Mutant: it does not receive from the channel itself.
ClosedHeld(s) ==
  /\ call[s].pc = "hold"
  /\ chan[s] = "closed"
  /\ call' = [call EXCEPT ![s].pc = "unpick", ![s].via = 0]
  /\ UNCHANGED <<link, conn, stopped, service, offers, reg, chan, late, astray>>

\* ... or receives nil from a closed channel: its send panics.
Closed(s) ==
  /\ call[s].pc \in {"loop", "hold"}
  /\ chan[s] = "closed"
  /\ call' = [call EXCEPT ![s].pc = "unpick", ![s].via = 0]
  /\ UNCHANGED <<link, conn, stopped, service, offers, reg, chan, late, astray>>

\* CS_QueueTasksUnsubscribe, with the id it has.
Unsubscribe(s) ==
  /\ call[s].pc = "unrequest"
  /\ IF Current(call[s].via)
       THEN /\ Goes(s, "unrequest", "unwait")
            /\ astray' = (astray \/ call[s].via # call[s].idOf)
       ELSE /\ call' = [call EXCEPT ![s].pc = "unpick", ![s].via = 0]
            /\ UNCHANGED astray
  /\ UNCHANGED <<link, conn, stopped, service, offers, reg, chan, late>>

\* Its answer, or nil: that is all.
Unsubscribed(s) ==
  /\ call[s].pc = "unwait"
  /\ call[s].answer # None \/ ~Current(call[s].via)
  /\ Ends(s)
  /\ UNCHANGED <<link, conn, stopped, service, offers, reg, late, astray>>

-----------------------------------------------------------------------------
\* What the goroutines of a task do by themselves.
Offered(m) == ServiceSend(m) \/ OfferLook(m) \/ OfferClosed(m) \/ OfferEnd(m)

\* What the goroutine of a call does by itself.
Proceed(s) == \/ Pick(s) \/ Done(s) \/ Request(s) \/ Answer(s) \/ NoAnswer(s)
              \/ Register(s) \/ Lost(s) \/ Closed(s)
              \/ Unsubscribe(s) \/ Unsubscribed(s)

Serve(s) == ServiceSubscribe(s) \/ ServiceUnsubscribe(s)

Next ==
  \/ Connect \/ Finish \/ Disconnected \/ Stop
  \/ \E i \in Id : ServiceTake(i)
  \/ \E m \in offers : Offered(m) \/ OfferTaken(m) \/ OfferHeld(m)
  \/ \E s \in Sub : \/ TasksSubscribe(s) \/ Close(s) \/ Proceed(s) \/ Give(s)
                    \/ Serve(s)

Spec == Init /\ [][Next]_vars

\* Goroutines go on, the service answers, connWorker connects again.  Nobody
\* need take a task, close a channel, or break a connection.
FairSpec ==
  /\ Spec
  /\ WF_vars(Connect) /\ WF_vars(Disconnected)
  /\ \A s \in Sub : WF_vars(Proceed(s)) /\ WF_vars(Serve(s))
  /\ WF_vars(\E m \in offers : Offered(m))

-----------------------------------------------------------------------------
(* Properties.                                                             *)

\* A task goes to the subscription it was sent to: ids start again with every
\* connection, and the map must not know those of the last one (client.go:298).
\* Unless an answer was registered after its connection had been cleaned up.
RightSubscription ==
  \A m \in offers : m.at = "send" => m.to = m.for \/ m.to \in late

\* A subscription is canceled by its own user only (queue.go:27); unless an
\* Unsubscribe was written again, on the next connection, where its id means
\* another one (queue.go:241).
CanceledByOwn ==
  \A i \in Named : ~served[i].live => chan[served[i].call] # "open" \/ astray

\* An id means the call that has it, to both ends.
OwnIds == TypeOK /\ RightSubscription /\ CanceledByOwn

\* A call that has ended is canceled at the service: no send to it passes the
\* check any more (queue-subscribe.go:146).  What passed it before goes out all
\* the same, to be rejected, and the process of the subscription may have missed
\* the cancel (queue-subscribe.go:89) and stay until the connection ends.
NothingLeft ==
  link = "up" => \A i \in Named : served[i].live => call[served[i].call].pc # "end"

\* A call whose channel is closed ends, if it gets a connection, and so does
\* every call of a client that is stopped: except those that hold a task that
\* nobody takes (queue.go:310).
CallsEnd ==
  \A s \in Sub :
    chan[s] = "closed" \/ (stopped /\ call[s].pc # "idle") ~>
      \/ call[s].pc = "end"
      \/ call[s].pc = "hold" /\ chan[s] = "open"
      \/ link = "down" /\ conn = MaxConn /\ ~stopped

-----------------------------------------------------------------------------
(* The inductive invariant of the safety properties.                       *)

Means(i, s) == served[i] # None /\ served[i].call = s

Numbered == \E n \in 0 .. MaxId : Named = 0 .. n - 1
Linked == /\ link # "down" => conn # 0
          /\ link = "up" => ~stopped

\* A goroutine between a request and what comes of it is on the current
\* connection, because connWorker waits; an id of that connection is its own.
KnowsOf(s) ==
  LET c == call[s]
  IN  /\ c.pc \in {"request", "wait", "register", "unrequest", "unwait"} =>
           c.via = conn
      /\ c.answer # None => c.pc \in {"wait", "unwait"}
      /\ c.pc = "wait" /\ c.answer # None => Means(c.answer, s)
      /\ c.pc \in {"register", "loop", "hold", "unpick", "unrequest", "unwait"} =>
           /\ c.id # None /\ c.idOf <= conn
           /\ c.idOf = conn => Means(c.id, s)
      /\ c.pc \in {"register", "loop", "hold"} => c.via = c.idOf
      /\ c.pc \in {"unpick", "unrequest", "unwait"} => chan[s] # "open"
      /\ c.pc = "unwait" /\ c.via # c.idOf => astray
      /\ c.pc = "unwait" /\ c.answer # None /\ c.idOf = conn =>
           ~served[c.id].live
Knows == \A s \in Sub : KnowsOf(s)

\* What is in the map is of the connection, or was late; so is what is offered.
Mapped ==
  \A i \in Id : \/ reg[i] = None \/ reg[i] \in late
                \/ link # "down" /\ Means(i, reg[i])
OffersMeant == \A m \in offers : Means(m.id, m.for)

\* Whom the service may send to has the id or its answer.
Has(s, i) ==
  LET c == call[s]
  IN  \/ c.pc = "wait" /\ c.answer = i
      \/ /\ c.pc \in {"register", "loop", "hold", "unpick", "unrequest", "unwait"}
         /\ c.id = i /\ c.idOf = conn
LiveHeld ==
  link = "up" => \A i \in Named : served[i].live => Has(served[i].call, i)

IInv == /\ TypeOK
        /\ Numbered
        /\ Linked
        /\ Knows
        /\ Mapped
        /\ OffersMeant
        /\ LiveHeld
        /\ RightSubscription
        /\ CanceledByOwn

=============================================================================
