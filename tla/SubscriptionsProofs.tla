------------------------ MODULE SubscriptionsProofs ------------------------
(***************************************************************************)
(* Proofs about Subscriptions: for any calls of TasksSubscribe and any     *)
(* number of connections, subscribe ids and tasks.                         *)
(***************************************************************************)
EXTENDS Subscriptions, FiniteSetTheorems, TLAPS

LEMMA Bounds ==
  /\ MaxConn \in Nat \ {0} /\ MaxId \in Nat \ {0} /\ MaxOffer \in Nat
  /\ 0 \in 0 .. MaxConn /\ 0 \in 0 .. MaxOffer /\ Id \subseteq Nat
  /\ None \notin Id /\ None \notin Sub /\ None \notin Served
BY BoundsAssumption, NoneAssumption DEF Id

LEMMA BlankType ==
  /\ Blank \in Goroutine
  /\ [Blank EXCEPT !.pc = "pick"] \in Goroutine
  /\ [Blank EXCEPT !.pc = "end"] \in Goroutine
BY Bounds DEF Blank, Goroutine

LEMMA InitIInv == Init => IInv
<1> SUFFICES ASSUME Init PROVE IInv
  OBVIOUS
<1>1. TypeOK
  BY Bounds, BlankType DEF Init, TypeOK, Blank
<1>2. Numbered
  <2>1. 0 \in 0 .. MaxId BY Bounds
  <2>2. Named = 0 .. 0 - 1 BY DEF Init, Named
  <2> QED BY <2>1, <2>2 DEF Numbered
<1>3. Linked /\ Knows /\ Mapped /\ OffersMeant /\ LiveHeld
  BY DEF Init, Linked, Knows, KnowsOf, Mapped, OffersMeant, LiveHeld, Blank,
         Named
<1>4. RightSubscription /\ CanceledByOwn
  BY DEF Init, RightSubscription, CanceledByOwn, Named
<1> QED BY <1>1, <1>2, <1>3, <1>4 DEF IInv

-----------------------------------------------------------------------------
(* What a step does to the variables.                                      *)

\* The steps of a call itself.
Moves(s) == \/ TasksSubscribe(s) \/ Proceed(s) \/ Give(s) \/ Serve(s)

\* The next id is not in use.
LEMMA NextIdFresh ==
  ASSUME TypeOK, Numbered
  PROVE  /\ NextId \in 0 .. MaxId
         /\ Named = 0 .. NextId - 1
<1>1. PICK n \in 0 .. MaxId : Named = 0 .. n - 1 BY DEF Numbered
<1>2. Cardinality(0 .. n - 1) = n BY <1>1, Bounds, FS_Interval
<1> QED BY <1>1, <1>2, Bounds DEF NextId

LEMMA SubscribeSteps ==
  ASSUME TypeOK, Numbered, NEW s \in Sub, ServiceSubscribe(s)
  PROVE  /\ Numbered'
         /\ NextId \in Id /\ served[NextId] = None
         /\ served' \in [Id -> Served \cup {None}]
         /\ served'[NextId] = [call |-> s, live |-> TRUE]
         /\ \A i \in Id \ {NextId} : served'[i] = served[i]
<1> DEFINE n == NextId
<1>1. n \in 0 .. MaxId /\ Named = 0 .. n - 1 BY NextIdFresh
<1>2. n \in Id /\ served' = [served EXCEPT ![n] = [call |-> s, live |-> TRUE]]
  BY DEF ServiceSubscribe
<1> HIDE DEF n
<1>3. served[n] = None BY <1>1, <1>2, Bounds DEF Named
<1>4. [call |-> s, live |-> TRUE] \in Served BY DEF Served
<1>5. served' \in [Id -> Served \cup {None}] BY <1>2, <1>4 DEF TypeOK
<1>6. Named' = Named \cup {n}
  BY <1>2, <1>4, Bounds DEF Named, TypeOK
<1>7. n + 1 \in 0 .. MaxId BY <1>1, <1>2, Bounds DEF Id
<1>8. Named' = 0 .. (n + 1) - 1 BY <1>1, <1>6, Bounds
<1>9. Numbered' BY <1>7, <1>8 DEF Numbered
<1>10. /\ served'[n] = [call |-> s, live |-> TRUE]
       /\ \A i \in Id \ {n} : served'[i] = served[i]
  BY <1>2 DEF TypeOK
<1> QED BY <1>2, <1>3, <1>5, <1>9, <1>10 DEF n

\* What the service has said of an id holds until the next connection.
LEMMA ServedSteps ==
  ASSUME TypeOK, Numbered, [Next]_vars, ~Connect
  PROVE  /\ served' \in [Id -> Served \cup {None}]
         /\ \A i \in Id : served[i] # None =>
              /\ served'[i] # None /\ served'[i].call = served[i].call
              /\ ~served[i].live => ~served'[i].live
         /\ Numbered'
<1>1. CASE UNCHANGED served
  BY <1>1 DEF TypeOK, Numbered, Named
<1>2. CASE \E s \in Sub : ServiceSubscribe(s)
  BY <1>2, SubscribeSteps
<1>3. CASE \E s \in Sub : ServiceUnsubscribe(s)
  <2>1. PICK s \in Sub : ServiceUnsubscribe(s) BY <1>3
  <2>2. CASE UNCHANGED served BY <1>1, <2>2
  <2>3. CASE ~UNCHANGED served
    <3> DEFINE i == call[s].id
    <3>1. served[i] # None /\ served' = [served EXCEPT ![i].live = FALSE]
      BY <2>1, <2>3 DEF ServiceUnsubscribe
    <3> HIDE DEF i
    <3>2. i \in Id BY <2>3, <3>1 DEF TypeOK
    <3>3. /\ served[i] \in Served
          /\ [served[i] EXCEPT !.live = FALSE] \in Served
          /\ [served[i] EXCEPT !.live = FALSE].call = served[i].call
          /\ ~[served[i] EXCEPT !.live = FALSE].live
      BY <3>1, <3>2 DEF TypeOK, Served
    <3>4. /\ served'[i] = [served[i] EXCEPT !.live = FALSE]
          /\ \A j \in Id \ {i} : served'[j] = served[j]
      BY <3>1, <3>2 DEF TypeOK
    <3>5. served' \in [Id -> Served \cup {None}]
      BY <3>1, <3>2, <3>3 DEF TypeOK
    <3>6. Named' = Named BY <3>1, <3>2, <3>3, <3>4, Bounds DEF Named
    <3>7. Numbered' BY <3>6 DEF Numbered
    <3> QED BY <3>2, <3>3, <3>4, <3>5, <3>7, Bounds
  <2> QED BY <2>2, <2>3
<1>4. CASE \/ Finish \/ Disconnected \/ Stop \/ UNCHANGED vars
           \/ \E i \in Id : ServiceTake(i)
           \/ \E m \in offers : Offered(m) \/ OfferTaken(m) \/ OfferHeld(m)
  BY <1>1, <1>4
  DEF Finish, Disconnected, Stop, vars, service,
      ServiceTake, ServiceSend, Offered,
      OfferLook, OfferClosed, OfferEnd, OfferTaken, OfferHeld
<1>5. ASSUME NEW s \in Sub,
             TasksSubscribe(s) \/ Close(s) \/ Proceed(s) \/ Give(s)
      PROVE  UNCHANGED served
  BY <1>5
  DEF TasksSubscribe, Close, Proceed, Give, Pick, Done, Request, Answer,
      NoAnswer, Register, Lost, Closed, Unsubscribe, Unsubscribed, service
<1> QED BY <1>1, <1>2, <1>3, <1>4, <1>5 DEF Next, Serve

\* A channel stays closed, and the marks of the properties stay.
LEMMA MarkSteps ==
  ASSUME TypeOK, [Next]_vars
  PROVE  /\ ~Connect => conn' = conn
         /\ \A s \in Sub : chan[s] # "open" => chan'[s] # "open"
         /\ astray => astray'
         /\ late \subseteq late' /\ late' \subseteq Sub /\ astray' \in BOOLEAN
         /\ chan' \in [Sub -> {"open", "closed", "ended"}]
<1> USE DEF TypeOK
<1>1. CASE \/ Connect \/ Finish \/ Disconnected \/ Stop \/ UNCHANGED vars
           \/ \E i \in Id : ServiceTake(i)
           \/ \E m \in offers : Offered(m) \/ OfferTaken(m) \/ OfferHeld(m)
  BY <1>1
  DEF Connect, Finish, Disconnected, Stop, vars, service,
      ServiceTake, ServiceSend, Offered,
      OfferLook, OfferClosed, OfferEnd, OfferTaken, OfferHeld
<1>2. CASE \E s \in Sub : \/ TasksSubscribe(s) \/ Close(s) \/ Give(s)
                          \/ Serve(s) \/ Pick(s) \/ Request(s) \/ Answer(s)
                          \/ NoAnswer(s) \/ Lost(s) \/ Closed(s)
  BY <1>2
  DEF TasksSubscribe, Close, Give, Serve, ServiceSubscribe, ServiceUnsubscribe,
      Pick, Request, Answer, NoAnswer, Lost, Closed, service
<1>3. CASE \E s \in Sub : Done(s) \/ Unsubscribed(s)
  BY <1>3 DEF Done, Unsubscribed, Ends, service
<1>4. CASE \E s \in Sub : Register(s)
  BY <1>4 DEF Register, service
<1>5. CASE \E s \in Sub : Unsubscribe(s)
  <2>1. UNCHANGED <<conn, chan, late>> BY <1>5 DEF Unsubscribe
  <2>2. (astray => astray') /\ astray' \in BOOLEAN
    BY <1>5, Zenon DEF Unsubscribe
  <2> QED BY <2>1, <2>2
<1> QED BY <1>1, <1>2, <1>3, <1>4, <1>5 DEF Next, Proceed


-----------------------------------------------------------------------------
(* Types.                                                                  *)

LEMMA MoveType ==
  ASSUME TypeOK, Numbered, NEW s \in Sub, Moves(s)
  PROVE  /\ call' \in [Sub -> Goroutine]
         /\ \A u \in Sub \ {s} : call'[u] = call[u]
         /\ UNCHANGED <<link, conn, stopped, offers, sent>>
         /\ chan'[s] = "ended" /\ chan[s] # "ended" => call'[s].pc = "end"
         /\ call[s].pc = "end" => call'[s].pc = "end"
         /\ \A u \in Sub \ {s} : chan'[u] = chan[u]
<1>1. /\ call \in [Sub -> Goroutine]
      /\ chan \in [Sub -> {"open", "closed", "ended"}]
      /\ conn \in 0 .. MaxConn
      /\ call[s] \in Goroutine
  BY DEF TypeOK
<1> DEFINE Good(c) == /\ c \in Goroutine
                      /\ call' = [call EXCEPT ![s] = c]
                      /\ call[s].pc # "end"
                      /\ chan' = chan \/ (chan' = [chan EXCEPT ![s] = "ended"]
                                          /\ c.pc = "end")
                      /\ UNCHANGED <<link, conn, stopped, offers, sent>>
<1>2. ASSUME NEW c, Good(c)
      PROVE  /\ call' \in [Sub -> Goroutine]
             /\ \A u \in Sub \ {s} : call'[u] = call[u]
             /\ UNCHANGED <<link, conn, stopped, offers, sent>>
             /\ chan'[s] = "ended" /\ chan[s] # "ended" => call'[s].pc = "end"
             /\ call[s].pc = "end" => call'[s].pc = "end"
             /\ \A u \in Sub \ {s} : chan'[u] = chan[u]
  BY <1>1, <1>2
<1>3. \E c : Good(c)
  <2>1. CASE TasksSubscribe(s) \/ Give(s) \/ Pick(s) \/ Register(s) \/ Closed(s)
    <3>1. /\ [call[s] EXCEPT !.pc = "pick"] \in Goroutine
          /\ [call[s] EXCEPT !.pc = "loop"] \in Goroutine
          /\ [call[s] EXCEPT !.via = conn, !.pc = "request"] \in Goroutine
          /\ [call[s] EXCEPT !.via = conn, !.pc = "unrequest"] \in Goroutine
          /\ [call[s] EXCEPT !.pc = "unpick", !.via = 0] \in Goroutine
      BY <1>1, Bounds DEF Goroutine
    <3>2. CASE TasksSubscribe(s)
      BY <1>1, <3>1, <3>2 DEF TasksSubscribe, Goes, service
    <3>3. CASE Give(s) BY <1>1, <3>1, <3>3 DEF Give, Goes, service
    <3>4. CASE Pick(s)
      <4>1. Good([call[s] EXCEPT !.via = conn,
                   !.pc = IF @ = "pick" THEN "request" ELSE "unrequest"])
        BY <1>1, <3>1, <3>4 DEF Pick, service, Goroutine
      <4> HIDE DEF Good
      <4> QED BY <4>1
    <3>5. CASE Register(s) BY <1>1, <3>1, <3>5 DEF Register, Goes, service
    <3>6. CASE Closed(s) BY <1>1, <3>1, <3>6 DEF Closed, service
    <3> QED BY <2>1, <3>2, <3>3, <3>4, <3>5, <3>6
  <2>2. CASE Done(s) \/ Unsubscribed(s)
    <3>1. [Blank EXCEPT !.pc = "end"].pc = "end" BY DEF Blank
    <3>2. Good([Blank EXCEPT !.pc = "end"])
      BY <1>1, <2>2, <3>1, BlankType DEF Done, Unsubscribed, Ends, service
    <3> QED BY <3>2
  <2>3. CASE NoAnswer(s) \/ Lost(s)
    <3>1. Good([Blank EXCEPT !.pc = "pick"])
      BY <1>1, <2>3, BlankType DEF NoAnswer, Lost, Again, service
    <3> QED BY <3>1
  <2>4. CASE Request(s)
    <3>1. [call[s] EXCEPT !.pc = "wait"] \in Goroutine
      BY <1>1 DEF Goroutine
    <3> QED BY <1>1, <2>4, <3>1, BlankType DEF Request, Goes, Again, service
  <2>5. CASE Answer(s)
    <3>1. Good([call[s] EXCEPT !.pc = "register", !.id = call[s].answer,
                               !.idOf = call[s].via, !.answer = None])
      BY <1>1, <2>5 DEF Answer, service, Goroutine
    <3> QED BY <3>1
  <2>6. CASE Unsubscribe(s)
    <3>1. /\ [call[s] EXCEPT !.pc = "unwait"] \in Goroutine
          /\ [call[s] EXCEPT !.pc = "unpick", !.via = 0] \in Goroutine
      BY <1>1, Bounds DEF Goroutine
    <3> QED BY <1>1, <2>6, <3>1 DEF Unsubscribe, Goes, service
  <2>7. CASE ServiceSubscribe(s)
    <3>1. [call[s] EXCEPT !.answer = NextId] \in Goroutine
      BY <1>1, <2>7 DEF Goroutine, ServiceSubscribe
    <3> QED BY <1>1, <2>7, <3>1 DEF ServiceSubscribe
  <2>8. CASE ServiceUnsubscribe(s)
    <3>1. [call[s] EXCEPT !.answer = call[s].id] \in Goroutine
      BY <1>1 DEF Goroutine
    <3> QED BY <1>1, <2>8, <3>1 DEF ServiceUnsubscribe
  <2> QED BY <2>1, <2>2, <2>3, <2>4, <2>5, <2>6, <2>7, <2>8
          DEF Moves, Proceed, Serve
<1> HIDE DEF Good
<1> QED BY <1>2, <1>3


LEMMA OfferType ==
  ASSUME TypeOK, Linked,
         \/ \E i \in Id : ServiceTake(i)
         \/ \E m \in offers : Offered(m) \/ OfferTaken(m) \/ OfferHeld(m)
  PROVE  /\ offers' \subseteq Offer
         /\ \A m \in offers' : m.at = "send" <=> m.to # None
         /\ sent' \in 0 .. MaxOffer
         /\ UNCHANGED <<link, conn, stopped, served, chan, late, astray>>
<1>1. ASSUME NEW i \in Id, ServiceTake(i)
      PROVE  /\ offers' \subseteq Offer
             /\ \A m \in offers' : m.at = "send" <=> m.to # None
             /\ sent' \in 0 .. MaxOffer
             /\ UNCHANGED <<link, conn, stopped, served, chan, late, astray>>
  <2> DEFINE m == [at |-> "passed", nth |-> sent + 1, conn |-> conn, id |-> i,
                   for |-> served[i].call, to |-> None]
  <2>1. conn \in Conn BY <1>1, Bounds DEF ServiceTake, Linked, TypeOK, Conn
  <2>2. sent + 1 \in 1 .. MaxOffer
    BY <1>1, Bounds DEF ServiceTake, TypeOK
  <2>3. served[i].call \in Sub
    BY <1>1 DEF ServiceTake, Named, TypeOK, Served
  <2>4. m \in Offer BY <2>1, <2>2, <2>3 DEF Offer
  <2>5. sent' \in 0 .. MaxOffer /\ offers' = offers \cup {m}
    BY <1>1, <2>2, Bounds DEF ServiceTake
  <2>6. m.at = "passed" /\ m.to = None OBVIOUS
  <2> HIDE DEF m
  <2> QED BY <1>1, <2>4, <2>5, <2>6 DEF ServiceTake, TypeOK
<1>2. ASSUME NEW m \in offers, OfferLook(m)
      PROVE  /\ offers' \subseteq Offer
             /\ \A x \in offers' : x.at = "send" <=> x.to # None
             /\ UNCHANGED <<link, conn, stopped, served, chan, late, astray, sent>>
  <2> DEFINE x == [m EXCEPT !.at = "send", !.to = reg[m.id]]
  <2>1. m \in Offer /\ m.id \in Id BY DEF TypeOK, Offer
  <2>2. reg[m.id] # None => x \in Offer /\ x.at = "send" /\ x.to # None
    BY <2>1 DEF TypeOK, Offer
  <2>3. \/ offers' \subseteq offers
        \/ reg[m.id] # None /\ offers' \subseteq offers \cup {x}
    BY <1>2 DEF OfferLook
  <2> HIDE DEF x
  <2> QED BY <1>2, <2>2, <2>3 DEF OfferLook, TypeOK, service
<1>3. ASSUME NEW m \in offers, ServiceSend(m)
      PROVE  /\ offers' \subseteq Offer
             /\ \A x \in offers' : x.at = "send" <=> x.to # None
             /\ UNCHANGED <<link, conn, stopped, served, chan, late, astray, sent>>
  <2> DEFINE x == [m EXCEPT !.at = "look"]
  <2>1. m \in Offer /\ m.at = "passed" BY <1>3 DEF TypeOK, ServiceSend
  <2>2. m.to = None BY <2>1 DEF TypeOK
  <2>3. x \in Offer /\ x.at = "look" /\ x.to = None BY <2>1, <2>2 DEF Offer
  <2>4. offers' = (offers \ {m}) \cup {x} BY <1>3 DEF ServiceSend
  <2> HIDE DEF x
  <2> QED BY <1>3, <2>3, <2>4 DEF ServiceSend, TypeOK, service
<1>4. CASE \E m \in offers : OfferClosed(m) \/ OfferEnd(m) \/ OfferTaken(m)
                             \/ OfferHeld(m)
  <2>1. offers' \subseteq offers /\ UNCHANGED <<link, conn, stopped, served, chan,
                                                late, astray, sent>>
    BY <1>4 DEF OfferClosed, OfferEnd, OfferTaken, OfferHeld, service
  <2> QED BY <2>1 DEF TypeOK
<1> QED BY <1>1, <1>2, <1>3, <1>4 DEF Offered, TypeOK

LEMMA HeldType ==
  ASSUME TypeOK, NEW m \in offers, OfferHeld(m)
  PROVE  /\ m.to \in Sub
         /\ call[m.to].pc = "loop"
         /\ call' = [call EXCEPT ![m.to] = [@ EXCEPT !.pc = "hold"]]
         /\ call' \in [Sub -> Goroutine]
<1>1. m.to \in Sub BY DEF OfferHeld, TypeOK, Offer
<1>2. call[m.to] \in Goroutine BY <1>1 DEF TypeOK
<1>3. [call[m.to] EXCEPT !.pc = "hold"] \in Goroutine BY <1>2 DEF Goroutine
<1> QED BY <1>1, <1>3 DEF OfferHeld, TypeOK

LEMMA TypeStep == IInv /\ [Next]_vars => TypeOK' /\ Numbered'
<1> SUFFICES ASSUME IInv, [Next]_vars PROVE TypeOK' /\ Numbered'
  OBVIOUS
<1>t. TypeOK /\ Numbered /\ Linked BY DEF IInv
<1>1. CASE Connect
  <2>1. conn' \in 0 .. MaxConn BY <1>t, <1>1, Bounds DEF Connect, TypeOK
  <2>2. /\ served' \in [Id -> Served \cup {None}]
        /\ sent' \in 0 .. MaxOffer
        /\ link' \in {"down", "up", "finished"}
    BY <1>1, Bounds DEF Connect
  <2>3. Named' = 0 .. 0 - 1 /\ 0 \in 0 .. MaxId
    BY <1>1, Bounds DEF Connect, Named
  <2>4. offers' = {} /\ UNCHANGED <<stopped, reg, call, chan, late, astray>>
    BY <1>1 DEF Connect
  <2> QED BY <1>t, <2>1, <2>2, <2>3, <2>4 DEF TypeOK, Numbered
<1>2. ASSUME ~Connect
      PROVE  /\ served' \in [Id -> Served \cup {None}] /\ Numbered'
             /\ conn' = conn /\ late' \subseteq Sub /\ astray' \in BOOLEAN
             /\ chan' \in [Sub -> {"open", "closed", "ended"}]
  BY <1>t, <1>2, ServedSteps, MarkSteps
<1>3. CASE Finish \/ Disconnected \/ Stop \/ UNCHANGED vars
  <2>1. ~Connect BY <1>3, <1>t, Bounds
                 DEF Connect, Finish, Disconnected, Stop, vars, TypeOK
  <2>2. UNCHANGED <<offers, call, chan, sent>>
    BY <1>3 DEF Finish, Disconnected, Stop, vars, service
  <2>3. /\ link' \in {"down", "up", "finished"} /\ stopped' \in BOOLEAN
        /\ reg' \in [Id -> Sub \cup {None}]
    BY <1>t, <1>3 DEF Finish, Disconnected, Stop, vars, TypeOK
  <2> QED BY <1>t, <1>2, <2>1, <2>2, <2>3 DEF TypeOK
<1>4. CASE \/ \E i \in Id : ServiceTake(i)
           \/ \E m \in offers : Offered(m) \/ OfferTaken(m) \/ OfferHeld(m)
  <2>1. /\ offers' \subseteq Offer
        /\ \A m \in offers' : m.at = "send" <=> m.to # None
        /\ sent' \in 0 .. MaxOffer
        /\ UNCHANGED <<link, conn, stopped, served, chan, late, astray>>
    BY <1>t, <1>4, OfferType
  <2>2. reg' \in [Id -> Sub \cup {None}]
    BY <1>t, <1>4
    DEF ServiceTake, ServiceSend, Offered, OfferLook, OfferClosed, OfferEnd,
        OfferTaken,
        OfferHeld, TypeOK
  <2>3. /\ call' \in [Sub -> Goroutine]
        /\ \A s \in Sub : chan'[s] = "ended" => call'[s].pc = "end"
    <3>1. CASE UNCHANGED call BY <1>t, <2>1, <3>1 DEF TypeOK
    <3>2. CASE \E m \in offers : OfferHeld(m)
      <4>1. PICK m \in offers : OfferHeld(m) BY <3>2
      <4>2. /\ m.to \in Sub /\ call[m.to].pc = "loop"
            /\ call' = [call EXCEPT ![m.to] = [@ EXCEPT !.pc = "hold"]]
            /\ call' \in [Sub -> Goroutine]
        BY <1>t, <4>1, HeldType
      <4> QED BY <1>t, <2>1, <4>2 DEF TypeOK
    <3> QED
      BY <1>4, <3>1, <3>2
      DEF ServiceTake, ServiceSend, Offered, OfferLook, OfferClosed, OfferEnd,
          OfferTaken
  <2>4. Numbered' BY <1>t, <2>1 DEF Numbered, Named
  <2> QED BY <1>t, <2>1, <2>2, <2>3, <2>4 DEF TypeOK
<1>5. ASSUME NEW s \in Sub, Close(s) PROVE TypeOK' /\ Numbered'
  BY <1>t, <1>5 DEF Close, TypeOK, service, Numbered, Named
<1>6. ASSUME NEW s \in Sub, Moves(s) PROVE TypeOK' /\ Numbered'
  <2>1. /\ call' \in [Sub -> Goroutine]
        /\ \A u \in Sub \ {s} : call'[u] = call[u]
        /\ UNCHANGED <<link, conn, stopped, offers, sent>>
        /\ chan'[s] = "ended" /\ chan[s] # "ended" => call'[s].pc = "end"
        /\ call[s].pc = "end" => call'[s].pc = "end"
        /\ \A u \in Sub \ {s} : chan'[u] = chan[u]
    BY <1>t, <1>6, MoveType
  <2>2. ~Connect BY <1>t, <2>1, Bounds DEF Connect, TypeOK
  <2>3. reg' \in [Id -> Sub \cup {None}]
    <3>1. CASE Register(s) BY <1>t, <3>1 DEF Register, TypeOK
    <3>2. CASE UNCHANGED reg BY <1>t, <3>2 DEF TypeOK
    <3> QED
      BY <1>6, <3>1, <3>2
      DEF Moves, TasksSubscribe, Proceed, Give, Serve, Pick, Done, Request,
          Answer, NoAnswer, Lost, Closed, Unsubscribe, Unsubscribed,
          ServiceSubscribe, ServiceUnsubscribe
  <2> QED BY <1>t, <1>2, <2>1, <2>2, <2>3 DEF TypeOK
<1> QED BY <1>1, <1>3, <1>4, <1>5, <1>6 DEF Next, Moves

LEMMA LinkedStep == IInv /\ [Next]_vars => Linked'
<1> SUFFICES ASSUME IInv, [Next]_vars PROVE Linked'
  OBVIOUS
<1>t. TypeOK /\ Numbered /\ Linked BY DEF IInv
<1>1. CASE Connect BY <1>t, <1>1, Bounds DEF Connect, Linked, TypeOK
<1>2. CASE Finish \/ Disconnected \/ Stop \/ UNCHANGED vars
  BY <1>t, <1>2 DEF Finish, Disconnected, Stop, vars, Linked
<1>3. ASSUME UNCHANGED <<link, conn, stopped>> PROVE Linked'
  BY <1>t, <1>3 DEF Linked
<1>4. CASE \/ \E i \in Id : ServiceTake(i)
           \/ \E m \in offers : Offered(m) \/ OfferTaken(m) \/ OfferHeld(m)
  BY <1>t, <1>3, <1>4, OfferType
<1>5. ASSUME NEW s \in Sub, Close(s) \/ Moves(s) PROVE Linked'
  BY <1>t, <1>3, <1>5, MoveType DEF Close
<1> QED BY <1>1, <1>2, <1>4, <1>5 DEF Next, Moves


-----------------------------------------------------------------------------
(* What a call knows.                                                      *)

LEMMA MeansStays ==
  ASSUME TypeOK, Numbered, [Next]_vars, ~Connect
  PROVE  \A i \in Id : \A s : Means(i, s) => Means(i, s)'
BY ServedSteps DEF Means

LEMMA Unmoved ==
  ASSUME TypeOK, Numbered, [Next]_vars, ~Connect,
         NEW s \in Sub, call'[s] = call[s], KnowsOf(s)
  PROVE  KnowsOf(s)'
<1>1. /\ \A i \in Id : Means(i, s) => Means(i, s)'
      /\ \A i \in Id : served[i] # None /\ ~served[i].live => ~served'[i].live
  BY ServedSteps, MeansStays
<1>2. /\ conn' = conn /\ (astray => astray')
      /\ chan[s] # "open" => chan'[s] # "open"
  BY MarkSteps
<1>3. call[s].id \in Id \cup {None} /\ call[s].answer \in Id \cup {None}
  BY DEF TypeOK, Goroutine
<1>4. KnowsOf(s) /\ call'[s] = call[s] OBVIOUS
<1> QED BY <1>1, <1>2, <1>3, <1>4 DEF KnowsOf, Means

LEMMA MoveKnows ==
  ASSUME TypeOK, Numbered, Linked, NEW s \in Sub, Moves(s), KnowsOf(s)
  PROVE  KnowsOf(s)'
<1>t. /\ call \in [Sub -> Goroutine] /\ call[s] \in Goroutine
      /\ chan \in [Sub -> {"open", "closed", "ended"}]
      /\ conn \in 0 .. MaxConn /\ MaxConn \in Nat
      /\ call[s].id \in Id \cup {None} /\ call[s].answer \in Id \cup {None}
      /\ None \notin Id
  BY Bounds DEF TypeOK, Goroutine
<1>k. KnowsOf(s) OBVIOUS
<1>b. Blank.answer = None BY DEF Blank
<1>1. ASSUME call'[s].pc \in {"pick", "end"}, call'[s].answer = None
      PROVE  KnowsOf(s)'
  BY <1>1 DEF KnowsOf
<1>2. CASE Done(s) \/ Unsubscribed(s) \/ NoAnswer(s) \/ Lost(s)
  BY <1>t, <1>1, <1>2 DEF Done, Unsubscribed, NoAnswer, Lost, Ends, Again, Blank
<1>3. CASE TasksSubscribe(s)
  BY <1>t, <1>k, <1>1, <1>3 DEF TasksSubscribe, Goes, KnowsOf
<1>4. CASE Request(s)
  <2>1. CASE Again(s) BY <1>t, <1>1, <2>1 DEF Again, Blank
  <2>2. CASE Goes(s, "request", "wait")
    <3>1. /\ call[s].pc = "request"
          /\ call'[s] = [call[s] EXCEPT !.pc = "wait"]
          /\ UNCHANGED conn
      BY <1>t, <1>4, <2>2 DEF Request, Goes
    <3> QED BY <1>t, <1>k, <3>1 DEF KnowsOf, Goroutine
  <2> QED BY <1>4, <2>1, <2>2 DEF Request
<1>5. CASE Pick(s)
  <2>1. /\ call[s].pc \in {"pick", "unpick"}
        /\ call'[s] = [call[s] EXCEPT !.via = conn,
                         !.pc = IF call[s].pc = "pick" THEN "request"
                                ELSE "unrequest"]
        /\ UNCHANGED <<conn, served, chan>>
    BY <1>t, <1>5 DEF Pick, service
  <2> QED BY <1>t, <1>k, <2>1 DEF KnowsOf, Goroutine, Means
<1>6. CASE Answer(s)
  <2>1. /\ call[s].pc = "wait" /\ call[s].answer # None
        /\ call'[s] = [call[s] EXCEPT !.pc = "register", !.id = call[s].answer,
                         !.idOf = call[s].via, !.answer = None]
        /\ UNCHANGED <<conn, served, chan>>
    BY <1>t, <1>6 DEF Answer, service
  <2> QED BY <1>t, <1>k, <2>1 DEF KnowsOf, Goroutine, Means
<1>7. CASE Register(s) \/ Give(s)
  <2>1. /\ call[s].pc \in {"register", "hold"}
        /\ call'[s] = [call[s] EXCEPT !.pc = "loop"]
        /\ UNCHANGED <<conn, served, chan>>
    BY <1>t, <1>7 DEF Register, Give, Goes, service
  <2> QED BY <1>t, <1>k, <2>1 DEF KnowsOf, Goroutine, Means
<1>8. CASE Closed(s)
  <2>1. /\ call[s].pc \in {"loop", "hold"} /\ chan[s] = "closed"
        /\ call'[s] = [call[s] EXCEPT !.pc = "unpick", !.via = 0]
        /\ UNCHANGED <<conn, served, chan>>
    BY <1>t, <1>8 DEF Closed, service
  <2> QED BY <1>t, <1>k, <2>1 DEF KnowsOf, Goroutine, Means
<1>9. CASE Unsubscribe(s)
  <2>1. call[s].pc = "unrequest" /\ UNCHANGED <<conn, served, chan>>
    BY <1>9 DEF Unsubscribe, service
  <2>2. CASE Goes(s, "unrequest", "unwait")
             /\ astray' = (astray \/ call[s].via # call[s].idOf)
    <3>1. call'[s] = [call[s] EXCEPT !.pc = "unwait"]
      BY <1>t, <2>2 DEF Goes
    <3>2. call[s].via # call[s].idOf => astray' BY <2>2
    <3> QED BY <1>t, <1>k, <2>1, <3>1, <3>2 DEF KnowsOf, Goroutine, Means
  <2>3. CASE call' = [call EXCEPT ![s].pc = "unpick", ![s].via = 0]
    <3>1. call'[s] = [call[s] EXCEPT !.pc = "unpick", !.via = 0]
      BY <1>t, <2>3
    <3> QED BY <1>t, <1>k, <2>1, <3>1 DEF KnowsOf, Goroutine, Means
  <2> QED BY <1>9, <2>2, <2>3 DEF Unsubscribe
<1>10. CASE ServiceSubscribe(s)
  <2>0. PICK n \in Id : n = NextId BY <1>10 DEF ServiceSubscribe
  <2>1. /\ call[s].pc = "wait"
        /\ call'[s] = [call[s] EXCEPT !.answer = n]
        /\ UNCHANGED conn
    BY <1>t, <1>10, <2>0 DEF ServiceSubscribe
  <2>2. served'[n] = [call |-> s, live |-> TRUE]
    BY <1>10, <2>0, SubscribeSteps
  <2>3. [call |-> s, live |-> TRUE] \in Served BY DEF Served
  <2>4. Means(n, s)' /\ n # None
    <3>1. served'[n].call = s BY <2>2
    <3>2. served'[n] # None BY <2>2, <2>3, Bounds
    <3> QED BY <3>1, <3>2, Bounds DEF Means
  <2> QED BY <1>t, <1>k, <2>1, <2>4 DEF KnowsOf, Goroutine
<1>11. CASE ServiceUnsubscribe(s)
  <2>0. call[s].pc = "unwait" BY <1>11 DEF ServiceUnsubscribe
  <2>2. PICK i \in Id : i = call[s].id BY <1>t, <1>k, <2>0 DEF KnowsOf
  <2>1. /\ call'[s] = [call[s] EXCEPT !.answer = i]
        /\ UNCHANGED <<conn, chan, astray>>
        /\ served' = IF served[i] = None THEN served
                     ELSE [served EXCEPT ![i].live = FALSE]
    BY <1>t, <1>11, <2>2 DEF ServiceUnsubscribe, service
  <2>3. ASSUME call[s].idOf = conn
        PROVE  Means(i, s)' /\ ~served'[i].live
    <3>1. Means(i, s) BY <1>k, <2>0, <2>2, <2>3 DEF KnowsOf
    <3>2. served[i] \in Served BY <3>1 DEF Means, TypeOK
    <3>3. /\ [served[i] EXCEPT !.live = FALSE] \in Served
          /\ [served[i] EXCEPT !.live = FALSE].call = served[i].call
          /\ ~[served[i] EXCEPT !.live = FALSE].live
      BY <3>2 DEF Served
    <3>4. served'[i] = [served[i] EXCEPT !.live = FALSE]
      BY <2>1, <3>1 DEF Means, TypeOK
    <3> QED BY <3>1, <3>3, <3>4, Bounds DEF Means
  <2>4. /\ call'[s].pc = "unwait" /\ call'[s].answer = i /\ call'[s].id = i
        /\ call'[s].via = call[s].via /\ call'[s].idOf = call[s].idOf
    BY <1>t, <2>0, <2>1, <2>2 DEF Goroutine
  <2>5. /\ call[s].via = conn /\ call[s].idOf <= conn
        /\ chan[s] # "open" /\ (call[s].via # call[s].idOf => astray)
    BY <1>k, <2>0 DEF KnowsOf
  <2> QED BY <1>t, <2>1, <2>3, <2>4, <2>5 DEF KnowsOf
<1> QED
  BY <1>2, <1>3, <1>4, <1>5, <1>6, <1>7, <1>8, <1>9, <1>10, <1>11
  DEF Moves, Proceed, Serve

LEMMA KnowsStep == IInv /\ [Next]_vars => Knows'
<1> SUFFICES ASSUME IInv, [Next]_vars, NEW s \in Sub PROVE KnowsOf(s)'
  BY DEF Knows
<1>t. TypeOK /\ Numbered /\ Linked /\ Knows /\ KnowsOf(s)
  BY DEF IInv, Knows
<1>1. CASE Connect
  <2>1. /\ call[s] \in Goroutine /\ conn \in 0 .. MaxConn /\ MaxConn \in Nat
        /\ conn' = conn + 1 /\ UNCHANGED <<call, chan>>
    BY <1>t, <1>1, Bounds DEF Connect, TypeOK
  <2>2. call[s].pc \in {"idle", "pick", "unpick", "end", "hold"}
    BY <1>1 DEF Connect, Settled
  <2>3. call[s].idOf \in 0 .. MaxConn BY <2>1 DEF Goroutine
  <2> QED BY <1>t, <2>1, <2>2, <2>3 DEF KnowsOf
<1>2. CASE ~Connect /\ call'[s] = call[s]
  BY <1>t, <1>2, Unmoved
<1>3. CASE Moves(s) BY <1>t, <1>3, MoveKnows
<1>4. ASSUME NEW u \in Sub \ {s}, Moves(u) PROVE call'[s] = call[s]
  BY <1>t, <1>4, MoveType
<1>5. CASE \E m \in offers : OfferHeld(m)
  <2>1. PICK m \in offers : OfferHeld(m) BY <1>5
  <2>2. /\ m.to \in Sub /\ call[m.to].pc = "loop"
        /\ call' = [call EXCEPT ![m.to] = [@ EXCEPT !.pc = "hold"]]
    BY <1>t, <2>1, HeldType
  <2>3. UNCHANGED <<conn, chan, served>>
    BY <2>1 DEF OfferHeld, service
  <2>4. CASE m.to = s
    <3>1. /\ call[s] \in Goroutine /\ call[s].pc = "loop"
          /\ call'[s] = [call[s] EXCEPT !.pc = "hold"]
      BY <1>t, <2>2, <2>4 DEF TypeOK
    <3> QED BY <1>t, <2>3, <3>1 DEF KnowsOf, Goroutine, Means
  <2>5. CASE m.to # s
    <3>1. call'[s] = call[s] BY <1>t, <2>2, <2>5 DEF TypeOK
    <3>2. ~Connect
      BY <1>t, <2>3, Bounds DEF Connect, TypeOK
    <3> QED BY <1>2, <3>1, <3>2
  <2> QED BY <2>4, <2>5
<1>6. CASE \/ Finish \/ Disconnected \/ Stop \/ UNCHANGED vars
           \/ \E i \in Id : ServiceTake(i)
           \/ \E m \in offers : Offered(m) \/ OfferTaken(m)
           \/ \E u \in Sub : Close(u)
  <2>1. UNCHANGED call
    BY <1>6
    DEF Finish, Disconnected, Stop, vars,
        ServiceTake, ServiceSend, Offered, OfferLook,
        OfferClosed, OfferEnd, OfferTaken, Close
  <2> QED BY <1>1, <1>2, <2>1
<1> QED BY <1>1, <1>2, <1>3, <1>4, <1>5, <1>6 DEF Next, Moves


-----------------------------------------------------------------------------
(* The map, and what is offered.                                           *)

LEMMA MappedStep == IInv /\ [Next]_vars => Mapped'
<1> SUFFICES ASSUME IInv, [Next]_vars PROVE Mapped'
  OBVIOUS
<1>t. TypeOK /\ Numbered /\ Linked /\ Mapped /\ Knows BY DEF IInv
<1>l. late \subseteq late' BY <1>t, MarkSteps
<1>1. CASE Connect
  BY <1>t, <1>1 DEF Connect, Mapped
<1>2. CASE Disconnected
  BY <1>2 DEF Disconnected, Mapped
<1>3. ASSUME ~Connect, link # "down" => link' # "down",
             \A i \in Id : reg'[i] \in {reg[i], None}
      PROVE  Mapped'
  <2>1. \A i \in Id : \A s : Means(i, s) => Means(i, s)'
    BY <1>t, <1>3, MeansStays
  <2> SUFFICES ASSUME NEW i \in Id, reg'[i] # None
               PROVE  reg'[i] \in late' \/ (link' # "down" /\ Means(i, reg[i])')
    BY <1>3 DEF Mapped, Means
  <2>2. PICK s : s = reg[i] OBVIOUS
  <2>3. reg'[i] = s BY <1>3, <2>2
  <2>4. s \in late \/ (link # "down" /\ Means(i, s))
    BY <1>t, <2>2, <2>3 DEF Mapped, Means
  <2>5. s \in late' \/ (link' # "down" /\ Means(i, s)')
    BY <1>l, <1>3, <2>1, <2>4
  <2> QED BY <1>3, <2>3, <2>5 DEF Means
<1>4. CASE \/ Finish \/ Stop \/ UNCHANGED vars
           \/ \E i \in Id : ServiceTake(i)
           \/ \E m \in offers : Offered(m) \/ OfferTaken(m) \/ OfferHeld(m)
           \/ \E s \in Sub : Close(s)
  <2>1. ~Connect
    <3>1. MaxConn \in Nat /\ conn \in Nat BY <1>t, Bounds DEF TypeOK
    <3>2. conn' = conn
      BY <1>4
      DEF Finish, Stop, vars,
          ServiceTake, ServiceSend, Offered, OfferLook, OfferClosed,
          OfferEnd, OfferTaken, OfferHeld, Close
    <3> QED BY <3>1, <3>2 DEF Connect
  <2>2. link # "down" => link' # "down"
    BY <1>4
    DEF Finish, Stop, vars,
        ServiceTake, ServiceSend, Offered, OfferLook, OfferClosed,
        OfferEnd, OfferTaken, OfferHeld, Close
  <2>3. \A i \in Id : reg'[i] \in {reg[i], None}
    BY <1>4, <1>t
    DEF Finish, Stop, vars,
        ServiceTake, ServiceSend, Offered, OfferLook, OfferClosed,
        OfferEnd, OfferTaken, OfferHeld, Close, TypeOK
  <2> QED BY <1>3, <2>1, <2>2, <2>3
<1>5. ASSUME NEW s \in Sub, Moves(s) PROVE Mapped'
  <2>1. UNCHANGED <<link, conn, offers>> BY <1>t, <1>5, MoveType
  <2>2. ~Connect BY <1>t, <2>1, Bounds DEF Connect, TypeOK
  <2>3. CASE Register(s)
    <3>1. /\ call[s].pc = "register" /\ UNCHANGED served
          /\ reg' = [reg EXCEPT ![call[s].id] = s]
          /\ late' = IF call[s].via < conn \/ link = "down"
                       THEN late \cup {s} ELSE late
      BY <2>3 DEF Register, Goes, service
    <3>2. /\ call[s].via = conn /\ call[s].via = call[s].idOf
          /\ call[s].id # None /\ (call[s].idOf = conn => Means(call[s].id, s))
      BY <1>t, <3>1 DEF Knows, KnowsOf
    <3>3. call[s].id \in Id BY <1>t, <3>2 DEF TypeOK, Goroutine
    <3>4. s \in late' \/ (link # "down" /\ Means(call[s].id, s))
      BY <3>1, <3>2
    <3>5. \A i \in Id : i # call[s].id => reg'[i] = reg[i]
      BY <1>t, <3>1, <3>3 DEF TypeOK
    <3>6. reg'[call[s].id] = s BY <1>t, <3>1, <3>3 DEF TypeOK
    <3> QED BY <1>l, <1>t, <2>1, <3>1, <3>4, <3>5, <3>6 DEF Mapped, Means
  <2>4. CASE UNCHANGED reg BY <1>3, <2>1, <2>2, <2>4
  <2> QED
    BY <1>5, <2>3, <2>4
    DEF Moves, TasksSubscribe, Proceed, Give, Serve, Pick, Done, Request,
        Answer, NoAnswer, Lost, Closed, Unsubscribe, Unsubscribed,
        ServiceSubscribe, ServiceUnsubscribe
<1> QED BY <1>1, <1>2, <1>4, <1>5 DEF Next, Moves

\* Both what offers mean, and whom they are for.
LEMMA OffersStep == IInv /\ [Next]_vars => OffersMeant' /\ RightSubscription'
<1> SUFFICES ASSUME IInv, [Next]_vars
             PROVE  OffersMeant' /\ RightSubscription'
  OBVIOUS
<1>t. /\ TypeOK /\ Numbered /\ Linked /\ Mapped /\ OffersMeant
      /\ RightSubscription
      /\ \A m \in offers : m.id \in Id /\ m \in Offer
  BY DEF IInv, TypeOK, Offer
<1>l. late \subseteq late' BY <1>t, MarkSteps
<1>1. CASE Connect
  BY <1>1 DEF Connect, OffersMeant, RightSubscription
<1>2. ASSUME ~Connect, offers' \subseteq offers
      PROVE  OffersMeant' /\ RightSubscription'
  <2>1. \A i \in Id : \A s : Means(i, s) => Means(i, s)'
    BY <1>t, <1>2, MeansStays
  <2>2. \A m \in offers' : Means(m.id, m.for)'
    BY <1>2, <1>t, <2>1 DEF OffersMeant
  <2> QED BY <1>2, <1>l, <1>t, <2>2 DEF OffersMeant, RightSubscription
<1>3. CASE \/ Finish \/ Disconnected \/ Stop \/ UNCHANGED vars
           \/ \E m \in offers : OfferClosed(m) \/ OfferEnd(m) \/ OfferTaken(m)
                                \/ OfferHeld(m)
           \/ \E s \in Sub : Close(s) \/ Moves(s)
  <2>1. offers' \subseteq offers
    <3>1. ASSUME NEW s \in Sub, Moves(s) PROVE UNCHANGED offers
      BY <1>t, <3>1, MoveType
    <3> QED
      BY <1>3, <3>1
      DEF Finish, Disconnected, Stop, vars, OfferClosed, OfferEnd, OfferTaken,
          OfferHeld, Close
  <2> QED BY <1>1, <1>2, <2>1
<1>4. ASSUME NEW i \in Id, ServiceTake(i)
      PROVE  OffersMeant' /\ RightSubscription'
  <2> DEFINE x == [at |-> "passed", nth |-> sent + 1, conn |-> conn, id |-> i,
                   for |-> served[i].call, to |-> None]
  <2>0. /\ offers' = offers \cup {x}
        /\ x.at = "passed" /\ x.id = i /\ x.for = served[i].call
    BY <1>4 DEF ServiceTake
  <2> HIDE DEF x
  <2>1. PICK m : /\ offers' = offers \cup {m}
                 /\ m.at = "passed" /\ m.id = i /\ m.for = served[i].call
    BY <2>0
  <2>2. UNCHANGED <<served, late>> /\ served[i] # None
    BY <1>4 DEF ServiceTake, Named
  <2>3. Means(i, served[i].call) BY <2>2 DEF Means
  <2> QED BY <1>t, <2>1, <2>2, <2>3 DEF OffersMeant, RightSubscription, Means
<1>5. ASSUME NEW m \in offers, OfferLook(m)
      PROVE  OffersMeant' /\ RightSubscription'
  <2>1. UNCHANGED <<served, late>> BY <1>5 DEF OfferLook, service
  <2>2. CASE reg[m.id] = None
    BY <1>1, <1>2, <1>5, <2>2 DEF OfferLook
  <2>3. CASE reg[m.id] # None
    <3> DEFINE x == [m EXCEPT !.at = "send", !.to = reg[m.id]]
    <3>1. x.at = "send" /\ x.to = reg[m.id] /\ x.id = m.id /\ x.for = m.for
      BY <1>t DEF Offer
    <3>2. offers' = (offers \ {m}) \cup {x} BY <1>5, <2>3 DEF OfferLook
    <3> HIDE DEF x
    <3>3. Means(m.id, m.for) BY <1>t DEF OffersMeant
    <3>4. reg[m.id] \in late \/ Means(m.id, reg[m.id])
      BY <1>t, <2>3 DEF Mapped
    <3>5. x.to = x.for \/ x.to \in late
      BY <3>1, <3>3, <3>4 DEF Means
    <3> QED
      BY <1>t, <2>1, <3>1, <3>2, <3>3, <3>5
      DEF OffersMeant, RightSubscription, Means
  <2> QED BY <2>2, <2>3
<1>6. ASSUME NEW m \in offers, ServiceSend(m)
      PROVE  OffersMeant' /\ RightSubscription'
  <2>1. UNCHANGED <<served, late>> BY <1>6 DEF ServiceSend, service
  <2> DEFINE x == [m EXCEPT !.at = "look"]
  <2>2. x.at = "look" /\ x.id = m.id /\ x.for = m.for BY <1>t DEF Offer
  <2>3. offers' = (offers \ {m}) \cup {x} BY <1>6 DEF ServiceSend
  <2> HIDE DEF x
  <2>4. Means(m.id, m.for) BY <1>t DEF OffersMeant
  <2> QED
    BY <1>t, <2>1, <2>2, <2>3, <2>4 DEF OffersMeant, RightSubscription, Means
<1> QED BY <1>1, <1>3, <1>4, <1>5, <1>6 DEF Next, Moves, Offered


-----------------------------------------------------------------------------
(* What the service has canceled, and what it has not.                     *)

LEMMA CanceledStep == IInv /\ [Next]_vars => CanceledByOwn'
<1> SUFFICES ASSUME IInv, [Next]_vars PROVE CanceledByOwn'
  OBVIOUS
<1>t. TypeOK /\ Numbered /\ Knows /\ CanceledByOwn BY DEF IInv
<1>1. CASE Connect
  BY <1>1 DEF Connect, CanceledByOwn, Named
<1>2. CASE ~Connect
  <2> SUFFICES ASSUME NEW i \in Id, served'[i] # None, ~served'[i].live
               PROVE  chan'[served'[i].call] # "open" \/ astray'
    BY DEF CanceledByOwn, Named
  <2>1. /\ served[i] # None => served'[i].call = served[i].call
        /\ \A s \in Sub : chan[s] # "open" => chan'[s] # "open"
        /\ astray => astray'
    BY <1>2, <1>t, ServedSteps, MarkSteps
  <2>2. CASE served[i] # None /\ ~served[i].live
    <3>1. chan[served[i].call] # "open" \/ astray
      BY <1>t, <2>2 DEF CanceledByOwn, Named
    <3>2. served[i].call \in Sub BY <2>2 DEF IInv, TypeOK, Served
    <3> QED BY <2>1, <2>2, <3>1, <3>2
  <2>3. CASE served[i] = None \/ served[i].live
    <3>1. ~UNCHANGED served BY <2>3
    <3>2. ~ \E s \in Sub : ServiceSubscribe(s)
      <4>1. ASSUME NEW s \in Sub, ServiceSubscribe(s) PROVE FALSE
        <5>1. PICK n \in Id : n = NextId BY <4>1 DEF ServiceSubscribe
        <5>2. /\ served[n] = None
              /\ served'[n] = [call |-> s, live |-> TRUE]
              /\ \A j \in Id \ {n} : served'[j] = served[j]
          BY <1>t, <4>1, <5>1, SubscribeSteps
        <5>3. served'[n].live BY <5>2
        <5>4. i # n BY <5>3
        <5>5. served'[i] = served[i] BY <5>2, <5>4
        <5> QED BY <2>3, <5>5
      <4> QED BY <4>1
    <3>3. PICK s \in Sub : ServiceUnsubscribe(s)
      BY <1>2, <3>1, <3>2
      DEF Next, Finish, Disconnected, Stop, vars, service,
          ServiceTake, ServiceSend, Offered,
          OfferLook, OfferClosed, OfferEnd, OfferTaken, OfferHeld,
          TasksSubscribe, Close, Proceed, Give, Pick, Done, Request, Answer,
          NoAnswer, Register, Lost, Closed, Unsubscribe, Unsubscribed, Serve
    <3>4. /\ call[s].pc = "unwait" /\ i = call[s].id /\ served[i] # None
      BY <1>t, <2>3, <3>1, <3>3 DEF ServiceUnsubscribe, TypeOK
    <3>5. /\ call[s].via = conn /\ chan[s] # "open"
          /\ call[s].via = call[s].idOf \/ astray
          /\ call[s].idOf = conn => Means(i, s)
      BY <1>t, <3>4 DEF Knows, KnowsOf
    <3>6. Means(i, s) \/ astray BY <3>5
    <3> QED BY <2>1, <3>4, <3>5, <3>6 DEF Means
  <2> QED BY <2>2, <2>3
<1> QED BY <1>1, <1>2


\* A call that moves while the connection is up keeps what the service may send
\* to.
LEMMA MoveHas ==
  ASSUME TypeOK, Linked, link = "up", NEW s \in Sub, Moves(s), KnowsOf(s),
         NEW i \in Id, Has(s, i), served[i].live, served'[i].live, Means(i, s)
  PROVE  Has(s, i)'
<1>t. /\ call \in [Sub -> Goroutine] /\ call[s] \in Goroutine /\ i # None
      /\ served \in [Id -> Served \cup {None}]
  BY Bounds DEF TypeOK
<1>k. KnowsOf(s) /\ Has(s, i) /\ ~stopped BY DEF Linked
<1>c. \A k : Current(k) <=> k = conn BY DEF Current
<1>1. CASE call[s].pc = "wait"
  <2>1. call[s].answer = i /\ call[s].via = conn
    BY <1>k, <1>1 DEF Has, KnowsOf
  <2>2. Answer(s)
    BY <1>t, <1>k, <1>c, <1>1, <2>1
    DEF Moves, TasksSubscribe, Proceed, Give, Serve, Pick, Done, Request,
        Answer, NoAnswer, Register, Lost, Closed, Unsubscribe, Unsubscribed,
        ServiceSubscribe, ServiceUnsubscribe, Goes
  <2>3. /\ call'[s].pc = "register" /\ call'[s].id = i /\ call'[s].idOf = conn
        /\ UNCHANGED conn
    BY <1>t, <2>1, <2>2 DEF Answer, Goroutine
  <2> QED BY <2>3 DEF Has
<1>2. CASE call[s].pc # "wait"
  <2>1. /\ call[s].pc \in {"register", "loop", "hold", "unpick", "unrequest",
                           "unwait"}
        /\ call[s].id = i /\ call[s].idOf = conn
    BY <1>k, <1>2 DEF Has
  <2>2. /\ ~Lost(s) /\ ~Done(s)
    BY <1>k, <1>c, <2>1 DEF Lost, Done, KnowsOf
  <2>3. ~Unsubscribed(s)
    BY <1>k, <1>c, <2>1 DEF Unsubscribed, KnowsOf
  <2>4. ~ServiceUnsubscribe(s)
    <3> SUFFICES ASSUME ServiceUnsubscribe(s) PROVE FALSE
      OBVIOUS
    <3>1. served[i] # None BY DEF Means
    <3>2. served' = [served EXCEPT ![i].live = FALSE]
      BY <2>1, <3>1 DEF ServiceUnsubscribe
    <3>3. served[i] \in Served BY <1>t, <3>1
    <3>4. served'[i] = [served[i] EXCEPT !.live = FALSE] BY <1>t, <3>2
    <3>5. ~served'[i].live BY <3>3, <3>4 DEF Served
    <3> QED BY <3>5
  <2>5. \/ Register(s) \/ Give(s) \/ Closed(s) \/ Pick(s) \/ Unsubscribe(s)
    BY <2>1, <2>2, <2>3, <2>4
    DEF Moves, TasksSubscribe, Proceed, Serve, Request, Answer, NoAnswer,
        ServiceSubscribe, Goes
  <2>6. /\ call'[s].pc \in {"loop", "unpick", "unrequest", "unwait"}
        /\ call'[s].id = call[s].id /\ call'[s].idOf = call[s].idOf
        /\ UNCHANGED conn
    <3>1. CASE Register(s) \/ Give(s)
      BY <1>t, <3>1 DEF Register, Give, Goes, Goroutine
    <3>2. CASE Closed(s) BY <1>t, <3>2 DEF Closed, Goroutine
    <3>3. CASE Pick(s) BY <1>t, <2>1, <3>3 DEF Pick, Goroutine
    <3>4. CASE Unsubscribe(s)
      BY <1>t, <3>4 DEF Unsubscribe, Goes, Goroutine
    <3> QED BY <2>5, <3>1, <3>2, <3>3, <3>4
  <2> QED BY <2>1, <2>6 DEF Has
<1> QED BY <1>1, <1>2

LEMMA LiveStep == IInv /\ [Next]_vars => LiveHeld'
<1> SUFFICES ASSUME IInv, [Next]_vars, link' = "up",
                    NEW i \in Id, served'[i] # None, served'[i].live
             PROVE  Has(served[i].call, i)'
  BY DEF LiveHeld, Named
<1>t. /\ TypeOK /\ Numbered /\ Linked /\ Knows /\ LiveHeld
      /\ call \in [Sub -> Goroutine]
  BY DEF IInv, TypeOK
<1>0. ~Connect BY DEF Connect
<1>1. /\ served[i] # None =>
           served'[i].call = served[i].call /\ served[i].live
      /\ conn' = conn
      /\ served'[i] \in Served
  BY <1>0, <1>t, ServedSteps, MarkSteps
<1>2. link = "up"
  <2>1. CASE UNCHANGED link BY <2>1
  <2>2. CASE link' # link
    <3>1. ~ \E s \in Sub : Moves(s) BY <1>t, <2>2, MoveType
    <3> QED
      BY <1>0, <2>2, <3>1
      DEF Next, Finish, Disconnected, Stop, vars,
          ServiceTake, ServiceSend, Offered, Moves,
          OfferLook, OfferClosed, OfferEnd, OfferTaken, OfferHeld, Close
  <2> QED BY <2>1, <2>2
<1>3. CASE served[i] = None
  <2>1. PICK s \in Sub : ServiceSubscribe(s)
    <3>1. ~UNCHANGED served BY <1>3
    <3>2. ASSUME NEW s \in Sub, ServiceUnsubscribe(s) PROVE FALSE
      BY <1>t, <1>3, <3>2 DEF ServiceUnsubscribe, TypeOK
    <3> QED
      BY <1>0, <3>1, <3>2
      DEF Next, Finish, Disconnected, Stop, vars, service,
          ServiceTake, ServiceSend, Offered,
          OfferLook, OfferClosed, OfferEnd, OfferTaken, OfferHeld,
          TasksSubscribe, Close, Proceed, Give, Pick, Done, Request, Answer,
          NoAnswer, Register, Lost, Closed, Unsubscribe, Unsubscribed, Serve
  <2>2. PICK n \in Id : n = NextId BY <2>1 DEF ServiceSubscribe
  <2>3. /\ served'[n] = [call |-> s, live |-> TRUE]
        /\ \A j \in Id \ {n} : served'[j] = served[j]
    BY <1>t, <2>1, <2>2, SubscribeSteps
  <2>4. i = n BY <1>3, <2>3
  <2>5. served'[i].call = s BY <2>3, <2>4
  <2>6. /\ call[s].pc = "wait"
        /\ call' = [call EXCEPT ![s].answer = n]
    BY <2>1, <2>2 DEF ServiceSubscribe
  <2>7. call'[s].pc = "wait" /\ call'[s].answer = i
    BY <1>t, <2>4, <2>6 DEF Goroutine
  <2> QED BY <2>5, <2>7 DEF Has
<1>4. CASE served[i] # None
  <2>1. PICK s \in Sub : s = served[i].call
    BY <1>t, <1>4 DEF TypeOK, Served
  <2>2. Has(s, i) /\ Means(i, s) /\ served'[i].call = s /\ KnowsOf(s)
    BY <1>t, <1>1, <1>2, <1>4, <2>1 DEF LiveHeld, Named, Means, Knows
  <2> SUFFICES Has(s, i)'
    BY <2>2 DEF Has
  <2>3. CASE call'[s] = call[s] BY <1>1, <2>2, <2>3 DEF Has
  <2>4. CASE Moves(s) BY <1>t, <1>1, <1>2, <1>4, <2>2, <2>4, MoveHas
  <2>5. ASSUME NEW u \in Sub \ {s}, Moves(u) PROVE call'[s] = call[s]
    BY <1>t, <2>5, MoveType
  <2>6. CASE \E m \in offers : OfferHeld(m)
    <3>1. PICK m \in offers : OfferHeld(m) BY <2>6
    <3>2. /\ m.to \in Sub /\ call[m.to].pc = "loop"
          /\ call' = [call EXCEPT ![m.to] = [@ EXCEPT !.pc = "hold"]]
      BY <1>t, <3>1, HeldType
    <3>3. CASE m.to = s
      <4>1. /\ call[s].pc = "loop"
            /\ call'[s] = [call[s] EXCEPT !.pc = "hold"]
        BY <1>t, <3>2, <3>3
      <4>2. /\ call'[s].pc = "hold" /\ call'[s].id = call[s].id
            /\ call'[s].idOf = call[s].idOf
        BY <1>t, <4>1 DEF Goroutine
      <4> QED BY <1>1, <2>2, <4>1, <4>2 DEF Has
    <3>4. CASE m.to # s BY <1>t, <2>3, <3>2, <3>4
    <3> QED BY <3>3, <3>4
  <2>7. CASE \/ Finish \/ Disconnected \/ Stop \/ UNCHANGED vars
             \/ \E j \in Id : ServiceTake(j)
             \/ \E m \in offers : Offered(m) \/ OfferTaken(m)
             \/ \E u \in Sub : Close(u)
    <3>1. UNCHANGED call
      BY <2>7
      DEF Finish, Disconnected, Stop, vars,
          ServiceTake, ServiceSend, Offered, OfferLook,
          OfferClosed, OfferEnd, OfferTaken, Close
    <3> QED BY <2>3, <3>1
  <2> QED BY <1>0, <2>3, <2>4, <2>5, <2>6, <2>7 DEF Next, Moves
<1> QED BY <1>3, <1>4

-----------------------------------------------------------------------------
(* The theorems.                                                           *)

\* Every step of the calls, the offers, the service and connWorker keeps the
\* invariant.
THEOREM Invariance == Spec => []IInv
<1>1. IInv /\ [Next]_vars => IInv'
  BY TypeStep, LinkedStep, KnowsStep, MappedStep, OffersStep, LiveStep,
     CanceledStep DEF IInv
<1> QED BY InitIInv, <1>1, PTL DEF Spec

\* A task goes to the call its subscribe id stands for, and a subscription is
\* canceled by its own call, over any number of connections that number their
\* ids anew (client.go:298, queue.go:241).
THEOREM IdsAreOwn == Spec => []OwnIds
<1>1. IInv => OwnIds BY DEF IInv, OwnIds
<1> QED BY <1>1, Invariance, PTL

\* A call that ends while its connection lasts has been canceled at the
\* service: no send to it passes the check there any more
\* (queue-subscribe.go:146).  Those that passed it before may still go out.
THEOREM NobodyLeft == Spec => []NothingLeft
<1>1. IInv => NothingLeft
  BY DEF IInv, LiveHeld, NothingLeft, Has
<1> QED BY <1>1, Invariance, PTL

=============================================================================
