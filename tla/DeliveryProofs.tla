--------------------------- MODULE DeliveryProofs ---------------------------
(***************************************************************************)
(* Proofs about Delivery: for any versions, subscriptions and connections, *)
(* any filters and labels, and any number of copies.                       *)
(***************************************************************************)
EXTENDS Delivery, FiniteSetTheorems, TLAPS

\* What the proofs need of the parameters.
LEMMA Parameters ==
  /\ PoolSize \in Nat \ {0}
  /\ ConnOf \in [Sub -> Conn]
  /\ None \notin Version \cup Copy \cup Sub
BY ParametersAssumption

-----------------------------------------------------------------------------
(* Copies.                                                                 *)

CopyValue == [version : Version, at : Places, sub : Sub \cup {None}] \cup {Idle}

LEMMA RoutingType ==
  ASSUME NEW v \in Version
  PROVE  /\ Routing(v) \in CopyValue
         /\ Routing(v) = Idle \/ Routing(v) = Spawned(v)
BY DEF Routing, Spawned, CopyValue, Places

\* What becomes of the sets of copies when one copy changes.
LEMMA OneCopy ==
  ASSUME TypeOK, NEW c \in Copy, NEW x \in CopyValue,
         copy' = [copy EXCEPT ![c] = x]
  PROVE  /\ copy' \in [Copy -> CopyValue]
         /\ \A d \in Copy : copy'[d] = IF d = c THEN x ELSE copy[d]
         /\ \A v \in Version :
              CopiesOf(v)' = IF x.version = v THEN CopiesOf(v) \cup {c}
                                              ELSE CopiesOf(v) \ {c}
         /\ \A s \in Sub :
              TakenBy(s)' = IF x.at \in Taken /\ x.sub = s
                              THEN TakenBy(s) \cup {c} ELSE TakenBy(s) \ {c}
<1>1. copy \in [Copy -> CopyValue] BY DEF TypeOK, CopyValue
<1>2. /\ copy' \in [Copy -> CopyValue]
      /\ \A d \in Copy : copy'[d] = IF d = c THEN x ELSE copy[d]
  BY <1>1
<1>3. ASSUME NEW v \in Version
      PROVE  CopiesOf(v)' = IF x.version = v THEN CopiesOf(v) \cup {c}
                                              ELSE CopiesOf(v) \ {c}
  BY <1>2 DEF CopiesOf
<1>4. ASSUME NEW s \in Sub
      PROVE  TakenBy(s)' = IF x.at \in Taken /\ x.sub = s
                              THEN TakenBy(s) \cup {c} ELSE TakenBy(s) \ {c}
  BY <1>2 DEF TakenBy
<1> QED BY <1>2, <1>3, <1>4

\* A copy that goes on to another place.
LEMMA Moved ==
  ASSUME TypeOK, NEW c \in Copy, copy[c].at # "idle", NEW p \in Places
  PROVE  LET x == [copy[c] EXCEPT !.at = p]
         IN  /\ x \in CopyValue
             /\ x.at = p /\ x.version = copy[c].version /\ x.sub = copy[c].sub
             /\ copy[c].version \in Version
             /\ copy[c].at \in Places
             /\ copy[c].sub \in Sub \cup {None}
<1>1. copy[c] \in [version : Version, at : Places, sub : Sub \cup {None}]
  BY DEF TypeOK, Idle
<1> QED BY <1>1 DEF CopyValue

\* What a step of a copy makes of it: nothing but a place, or it is idle again,
\* or it is on its way anew.
LEMMA CopyChange ==
  ASSUME TypeOK, TakenBySome, NEW c \in Copy, CopyStep(c)
  PROVE  /\ copy[c] # Idle /\ copy[c].version \in Version
         /\ \E x \in CopyValue :
              /\ copy' = [copy EXCEPT ![c] = x]
              /\ x = Idle \/ x.version = copy[c].version
              /\ x.at \in Taken => copy[c].at \in Taken /\ x.sub = copy[c].sub
              /\ x = Idle => Withdraw(c) \/ Leave(c)
              /\ x.at \notin Taken /\ copy[c].at \in Taken => Leave(c)
<1> DEFINE P(x) == /\ copy' = [copy EXCEPT ![c] = x]
                   /\ x = Idle \/ x.version = copy[c].version
                   /\ x.at \in Taken => copy[c].at \in Taken /\ x.sub = copy[c].sub
                   /\ x = Idle => Withdraw(c) \/ Leave(c)
                   /\ x.at \notin Taken /\ copy[c].at \in Taken => Leave(c)
<1> HIDE DEF P
<1>1. copy[c].at # "idle"
  BY DEF CopyStep, MarkRouted, Withdraw, SendBegin, SendOk, SendFail, Release, Leave
<1>2. copy[c] # Idle /\ copy[c].version \in Version
  <2>1. copy[c] # Idle BY <1>1 DEF Idle
  <2> QED BY <2>1 DEF TypeOK
<1> SUFFICES \E x \in CopyValue : P(x)
  BY <1>2 DEF P
<1>3. ASSUME NEW p \in Places, copy' = [copy EXCEPT ![c].at = p],
             p \in Taken <=> copy[c].at \in Taken
      PROVE  \E x \in CopyValue : P(x)
  <2> DEFINE x == [copy[c] EXCEPT !.at = p]
  <2>1. /\ x \in CopyValue
        /\ x.at = p /\ x.version = copy[c].version /\ x.sub = copy[c].sub
    BY <1>1, Moved
  <2>2. x # Idle BY <2>1 DEF Idle, Places
  <2>3. copy' = [copy EXCEPT ![c] = x] BY <1>3
  <2>4. P(x) BY <1>3, <2>1, <2>2, <2>3 DEF P
  <2> QED BY <2>1, <2>4
<1>4. CASE MarkRouted(c) BY <1>3, <1>4 DEF MarkRouted, Places, Taken
<1>5. CASE SendBegin(c) BY <1>3, <1>5 DEF SendBegin, Places, Taken
<1>6. CASE SendOk(c) BY <1>3, <1>6 DEF SendOk, Places, Taken
<1>7. CASE SendFail(c) \/ Release(c)
  BY <1>3, <1>7 DEF SendFail, Release, Places, Taken
<1>8. CASE Withdraw(c)
  <2>1. copy' = [copy EXCEPT ![c] = Idle] /\ copy[c].at = "offered"
    BY <1>8 DEF Withdraw
  <2>2. P(Idle) BY <1>8, <2>1 DEF Idle, Taken, P
  <2> QED BY <2>2 DEF CopyValue
<1>9. CASE Leave(c)
  <2> DEFINE x == Routing(copy[c].version)
  <2>1. /\ x \in CopyValue
        /\ x = Idle \/ x = Spawned(copy[c].version)
    BY <1>2, RoutingType
  <2>2. /\ x.at \notin Taken
        /\ x = Idle \/ x.version = copy[c].version
    BY <2>1 DEF Idle, Spawned, Taken
  <2>3. copy' = [copy EXCEPT ![c] = x] BY <1>9 DEF Leave
  <2>4. P(x) BY <1>9, <2>2, <2>3 DEF P
  <2> QED BY <2>1, <2>4
<1> QED BY <1>4, <1>5, <1>6, <1>7, <1>8, <1>9 DEF CopyStep

\* Route spawns one copy, of a version that is not canceled, or none.
LEMMA RouteChange ==
  ASSUME TypeOK, NEW v \in Version, Route(v)
  PROVE  \/ UNCHANGED copy /\ (v \in dead \/ loop = "off")
         \/ \E c \in Copy : /\ copy[c] = Idle
                            /\ v \notin dead /\ loop # "off"
                            /\ Spawned(v) \in CopyValue
                            /\ copy' = [copy EXCEPT ![c] = Spawned(v)]
BY RoutingType DEF Route, Routing, Spawned, Idle

\* A subscription never holds more than its pool allows.
LEMMA WithinPool ==
  ASSUME TypeOK, Counted, TokensConserved, NEW s \in Sub
  PROVE  /\ Cardinality(TakenBy(s)) \in Nat /\ tokens[s] \in Nat
         /\ Cardinality(TakenBy(s)) + tokens[s] <= PoolSize
<1>1. Cardinality(TakenBy(s)) \in Nat BY FS_CardinalityType DEF Counted
<1>2. tokens[s] \in Nat BY Parameters DEF TypeOK
<1>3. CASE proc[s] = "receive" BY <1>1, <1>2, <1>3, Parameters DEF TokensConserved
<1>4. CASE proc[s] = "gone" BY <1>1, <1>2, <1>4, Parameters DEF TokensConserved
<1>5. CASE proc[s] \notin {"receive", "gone"}
  <2> DEFINE used == Cardinality(TakenBy(s)) + tokens[s]
  <2>1. used = PoolSize BY <1>5 DEF TokensConserved
  <2> QED BY <1>1, <1>2, <2>1, Parameters
<1> QED BY <1>1, <1>2, <1>3, <1>4, <1>5

LEMMA TokenOut ==
  ASSUME TypeOK, Counted, TokensConserved, NEW s \in Sub, NEW c \in TakenBy(s)
  PROVE  tokens[s] + 1 \in 0 .. PoolSize
<1>1. Cardinality(TakenBy(s)) # 0 BY FS_EmptySet DEF Counted
<1> QED BY <1>1, WithinPool, Parameters

-----------------------------------------------------------------------------
(* Types.                                                                  *)

LEMMA TypeStep == IInv /\ [Next]_vars => TypeOK'
<1> SUFFICES ASSUME IInv, [Next]_vars PROVE TypeOK'
  OBVIOUS
<1> USE DEF IInv, TypeOK, versions, scan, subscriptions
<1>a. ASSUME NEW v \in Version, Route(v) \/ UNCHANGED copy
      PROVE  copy' \in [Copy -> [version : Version, at : Places, sub : Sub \cup {None}] \cup {Idle}]
  BY RoutingType, <1>a DEF Route, CopyValue
<1>1. CASE ServiceStop \/ ListingEnd \/ List \/ Lock
  BY <1>1 DEF ServiceStop, ListingEnd, List, Lock
<1>2. ASSUME NEW v \in Version, ListRoute(v) PROVE TypeOK'
  BY <1>2, <1>a DEF ListRoute
<1>3. ASSUME NEW v \in Version, NEW new \in BOOLEAN, Appear(v, new) PROVE TypeOK'
  BY <1>3 DEF Appear
<1>4. ASSUME NEW v \in Version, HandlerRoute(v) PROVE TypeOK'
  BY <1>4, <1>a DEF HandlerRoute
<1>5. ASSUME NEW v \in Version, Cancel(v) \/ Unmark(v) PROVE TypeOK'
  BY <1>5 DEF Cancel, Unmark
<1>6. ASSUME NEW s \in Sub, Subscribe(s) \/ Unsubscribe(s) \/ ProcessBegin(s)
                            \/ Finish(s) \/ ProcessEnd(s)
      PROVE  TypeOK'
  BY <1>6 DEF Subscribe, Unsubscribe, ProcessBegin, Finish, ProcessEnd
<1>7. ASSUME NEW s \in Sub, TakeToken(s) PROVE TypeOK'
  BY <1>7, Parameters DEF TakeToken
<1>8. ASSUME NEW c \in Copy, MarkRouted(c) PROVE TypeOK'
  BY <1>8 DEF MarkRouted, Places, Idle
<1>9. ASSUME NEW c \in Copy, Withdraw(c) \/ SendOk(c) PROVE TypeOK'
  BY <1>9 DEF Withdraw, SendOk, Places, Idle
<1>b. ASSUME NEW c \in Copy, NEW p \in Places, copy[c].at \in Taken,
             copy' = [copy EXCEPT ![c].at = p]
      PROVE  /\ copy' \in [Copy -> CopyValue]
             /\ copy[c].version \in Version /\ ConnOfCopy(c) \in Conn
  BY <1>b, Moved, Parameters DEF CopyValue, Taken, TakenBySome, ConnOfCopy
<1>10. ASSUME NEW c \in Copy, SendBegin(c) PROVE TypeOK'
  <2>1. /\ copy' \in [Copy -> CopyValue]
        /\ copy[c].version \in Version /\ ConnOfCopy(c) \in Conn
    BY <1>10, <1>b DEF SendBegin, Places, Taken
  <2>2. sent' \in [Conn -> [Version -> Copy \cup {None}]]
    BY <1>10, <2>1 DEF SendBegin
  <2> QED BY <1>10, <2>1, <2>2 DEF SendBegin, CopyValue
<1>11. ASSUME NEW c \in Copy, SendFail(c) \/ Release(c) PROVE TypeOK'
  <2>1. /\ copy' \in [Copy -> CopyValue]
        /\ copy[c].version \in Version /\ ConnOfCopy(c) \in Conn
    BY <1>11, <1>b DEF SendFail, Release, Places, Taken
  <2>b. RejectSent(ConnOfCopy(c), copy[c].version)
    BY <1>11 DEF SendFail, Release
  <2>2. sent' \in [Conn -> [Version -> Copy \cup {None}]]
    BY <2>1, <2>b DEF RejectSent
  <2>a. sent[ConnOfCopy(c)][copy[c].version] \in Copy \cup {None} BY <2>1
  <2>3. rejected' \subseteq Copy
    BY <2>a, <2>b DEF RejectSent
  <2> QED BY <1>11, <2>1, <2>2, <2>3 DEF SendFail, Release, CopyValue
<1>12. ASSUME NEW c \in Copy, Leave(c) PROVE TypeOK'
  <2>1. PICK s \in Sub : s = copy[c].sub
    BY <1>12 DEF Leave, TakenBySome, Taken
  <2>2. copy[c].version \in Version BY <1>12 DEF Leave, Idle
  <2>3. c \in TakenBy(s) BY <1>12, <2>1 DEF Leave, TakenBy, Taken
  <2>5. tokens[s] + 1 \in 0 .. PoolSize
    BY <2>3, TokenOut
  <2>6. copy' \in [Copy -> CopyValue]
    BY <1>12, <2>2, RoutingType DEF Leave, CopyValue
  <2> QED BY <1>12, <2>1, <2>5, <2>6 DEF Leave, CopyValue
<1>13. ASSUME NEW c \in Copy, NEW s \in Sub, Deliver(c, s) PROVE TypeOK'
  <2>1. copy[c] \in [version : Version, at : Places, sub : Sub \cup {None}]
    BY <1>13 DEF Deliver, Idle
  <2>2. [copy[c] EXCEPT !.at = "got", !.sub = s] \in CopyValue
    BY <2>1 DEF CopyValue, Places
  <2>3. copy' = [copy EXCEPT ![c] = [copy[c] EXCEPT !.at = "got", !.sub = s]]
    BY <1>13 DEF Deliver
  <2>4. copy' \in [Copy -> CopyValue] BY <2>2, <2>3 DEF CopyValue
  <2> QED BY <1>13, <2>4 DEF Deliver, CopyValue
<1>14. ASSUME NEW k \in Conn, Break(k) \/ GoDown(k) PROVE TypeOK'
  BY <1>14 DEF Break, GoDown
<1>15. ASSUME NEW k \in Conn, NEW v \in Version, ClientReject(k, v) PROVE TypeOK'
  BY <1>15 DEF ClientReject, RejectSent
<1>16. CASE UNCHANGED vars BY <1>16 DEF vars
<1> QED BY <1>1, <1>2, <1>3, <1>4, <1>5, <1>6, <1>7, <1>8, <1>9, <1>10, <1>11,
           <1>12, <1>13, <1>14, <1>15, <1>16
        DEF Next, LoopStep, ProcessStep, CopyStep

-----------------------------------------------------------------------------
(* What is known of versions and subscriptions.                            *)

LEMMA KnownStep == IInv /\ [Next]_vars => Known'
<1> SUFFICES ASSUME IInv, [Next]_vars PROVE Known'
  OBVIOUS
<1> USE DEF IInv, Known, versions, scan, subscriptions
<1>1. CASE ServiceStop \/ ListingEnd \/ List \/ Lock
  BY <1>1 DEF ServiceStop, ListingEnd, List, Lock
<1>2. ASSUME NEW v \in Version, ListRoute(v) \/ HandlerRoute(v) PROVE Known'
  <2>1. CASE UNCHANGED copy BY <1>2, <2>1 DEF ListRoute, HandlerRoute
  <2>2. CASE Route(v)
    <3>1. SUFFICES ASSUME NEW c \in Copy, Spawned(v) \in CopyValue,
                          copy' = [copy EXCEPT ![c] = Spawned(v)]
                   PROVE  Known'
      BY <2>1, <2>2, RouteChange
    <3>2. \A d \in Copy : copy'[d] = IF d = c THEN Spawned(v) ELSE copy[d]
      BY <3>1, OneCopy
    <3>3. v \in live \cup dead BY <1>2 DEF ListRoute, HandlerRoute
    <3>4. \A d \in Copy : copy'[d] = Idle \/ copy'[d].version \in live \cup dead
      BY <3>2, <3>3 DEF Spawned
    <3> QED BY <1>2, <3>4 DEF ListRoute, HandlerRoute
  <2> QED BY <1>2, <2>1, <2>2 DEF ListRoute, HandlerRoute
<1>3. ASSUME NEW v \in Version, NEW new \in BOOLEAN, Appear(v, new) PROVE Known'
  BY <1>3 DEF Appear
<1>4. ASSUME NEW v \in Version, Cancel(v) \/ Unmark(v) PROVE Known'
  BY <1>4 DEF Cancel, Unmark
<1>5. ASSUME NEW s \in Sub, Subscribe(s) \/ Unsubscribe(s) \/ ProcessStep(s)
      PROVE  Known'
  BY <1>5 DEF Subscribe, Unsubscribe, ProcessStep, ProcessBegin, Finish,
              TakeToken, ProcessEnd
<1>6. ASSUME NEW c \in Copy, CopyStep(c) PROVE Known'
  <2>1. PICK x \in CopyValue :
          /\ copy' = [copy EXCEPT ![c] = x]
          /\ x = Idle \/ x.version = copy[c].version
    BY <1>6, CopyChange
  <2>2. copy[c] # Idle BY <1>6, CopyChange
  <2>3. \A d \in Copy : copy'[d] = IF d = c THEN x ELSE copy[d]
    BY <2>1, OneCopy
  <2>4. \A d \in Copy : copy'[d] = Idle \/ copy'[d].version \in live \cup dead
    BY <2>1, <2>2, <2>3
  <2>5. /\ UNCHANGED <<live, dead, fresh, todo>>
        /\ routed' \subseteq routed \cup {copy[c].version}
    BY <1>6 DEF CopyStep, MarkRouted, Withdraw, SendBegin, SendOk, SendFail,
                Release, Leave
  <2> QED BY <2>2, <2>4, <2>5
<1>7. ASSUME NEW c \in Copy, NEW s \in Sub, Deliver(c, s) PROVE Known'
  <2>1. /\ UNCHANGED <<live, dead, fresh, todo, routed>>
        /\ copy' = [copy EXCEPT ![c] = [copy[c] EXCEPT !.at = "got", !.sub = s]]
        /\ copy[c].at = "offered"
    BY <1>7 DEF Deliver
  <2>2. copy[c] # Idle BY <2>1 DEF Idle
  <2> QED BY <2>1, <2>2 DEF TypeOK
<1>8. ASSUME NEW k \in Conn, Break(k) \/ GoDown(k) PROVE Known'
  BY <1>8 DEF Break, GoDown
<1>9. ASSUME NEW k \in Conn, NEW v \in Version, ClientReject(k, v) PROVE Known'
  BY <1>9 DEF ClientReject
<1>10. CASE UNCHANGED vars BY <1>10 DEF vars
<1> QED BY <1>1, <1>2, <1>3, <1>4, <1>5, <1>6, <1>7, <1>8, <1>9, <1>10
        DEF Next, LoopStep

LEMMA TakenBySomeStep == IInv /\ [Next]_vars => TakenBySome'
<1> SUFFICES ASSUME IInv, [Next]_vars PROVE TakenBySome'
  OBVIOUS
<1> USE DEF IInv, TakenBySome
<1>1. CASE UNCHANGED copy
  <2>1. loop' = "off" => loop = "off"
    BY DEF Next, vars, versions, scan, subscriptions, LoopStep, ProcessStep,
           CopyStep, ServiceStop, ListingEnd, List, Lock, ListRoute, Appear,
           HandlerRoute, Cancel, Unmark, Subscribe, Unsubscribe, ProcessBegin,
           Finish, TakeToken, ProcessEnd, MarkRouted, Withdraw, SendBegin, SendOk,
           SendFail, Release, Leave, Deliver, Break, GoDown, ClientReject
  <2> QED BY <1>1, <2>1
<1>2. ASSUME NEW v \in Version, ListRoute(v) \/ HandlerRoute(v), Route(v),
             ~UNCHANGED copy
      PROVE  TakenBySome'
  <2>1. PICK c \in Copy : /\ loop # "off"
                          /\ Spawned(v) \in CopyValue
                          /\ copy' = [copy EXCEPT ![c] = Spawned(v)]
    BY <1>2, RouteChange
  <2>2. \A d \in Copy : copy'[d] = IF d = c THEN Spawned(v) ELSE copy[d]
    BY <2>1, OneCopy
  <2>3. loop' # "off" BY <1>2, <2>1 DEF ListRoute, HandlerRoute, scan
  <2> QED BY <2>2, <2>3 DEF Spawned, Taken
<1>3. ASSUME NEW c \in Copy, CopyStep(c) PROVE TakenBySome'
  <2>1. PICK x \in CopyValue :
          /\ copy' = [copy EXCEPT ![c] = x]
          /\ x.at \in Taken => copy[c].at \in Taken /\ x.sub = copy[c].sub
    BY <1>3, CopyChange
  <2>2. \A d \in Copy : copy'[d] = IF d = c THEN x ELSE copy[d]
    BY <2>1, OneCopy
  <2>3. loop # "off" BY <1>3, CopyChange
  <2>4. loop' = loop
    BY <1>3 DEF CopyStep, MarkRouted, Withdraw, SendBegin, SendOk, SendFail,
                Release, Leave, scan
  <2> QED BY <2>1, <2>2, <2>3, <2>4
<1>4. ASSUME NEW c \in Copy, NEW s \in Sub, Deliver(c, s) PROVE TakenBySome'
  <2>1. copy[c].at = "offered" /\ copy' = [copy EXCEPT ![c].at = "got", ![c].sub = s]
        /\ loop' = loop
    BY <1>4 DEF Deliver, scan
  <2>2. copy[c] # Idle BY <2>1 DEF Idle
  <2>3. copy'[c].sub = s /\ \A d \in Copy \ {c} : copy'[d] = copy[d]
    BY <2>1, <2>2 DEF TypeOK
  <2> QED BY <2>1, <2>2, <2>3
<1> QED BY <1>1, <1>2, <1>3, <1>4
        DEF Next, LoopStep, ProcessStep, ServiceStop, ListingEnd, List, Lock,
            ListRoute, HandlerRoute, Appear, Cancel, Unmark, Subscribe,
            Unsubscribe, ProcessBegin, Finish, TakeToken, ProcessEnd, Break,
            GoDown, ClientReject, vars

-----------------------------------------------------------------------------
(* Counting.                                                               *)

\* A step changes one copy, if any.
LEMMA OneCopyAtMost ==
  ASSUME IInv, [Next]_vars
  PROVE  \/ UNCHANGED copy
         \/ \E c \in Copy, x \in CopyValue : copy' = [copy EXCEPT ![c] = x]
<1> USE DEF IInv
<1>1. ASSUME NEW v \in Version, Route(v)
      PROVE  \/ UNCHANGED copy
             \/ \E c \in Copy, x \in CopyValue : copy' = [copy EXCEPT ![c] = x]
  BY <1>1, RouteChange
<1>2. ASSUME NEW c \in Copy, CopyStep(c)
      PROVE  \E x \in CopyValue : copy' = [copy EXCEPT ![c] = x]
  BY <1>2, CopyChange
<1>3. ASSUME NEW c \in Copy, NEW s \in Sub, Deliver(c, s)
      PROVE  \E x \in CopyValue : copy' = [copy EXCEPT ![c] = x]
  <2>1. copy[c] \in [version : Version, at : Places, sub : Sub \cup {None}]
    BY <1>3 DEF Deliver, Idle, TypeOK
  <2>2. [copy[c] EXCEPT !.at = "got", !.sub = s] \in CopyValue
    BY <2>1 DEF CopyValue, Places
  <2>3. copy' = [copy EXCEPT ![c] = [copy[c] EXCEPT !.at = "got", !.sub = s]]
    BY <1>3 DEF Deliver
  <2> QED BY <2>2, <2>3
<1> QED BY <1>1, <1>2, <1>3
        DEF Next, LoopStep, ProcessStep, ServiceStop, ListingEnd, List, Lock,
            ListRoute, HandlerRoute, Appear, Cancel, Unmark, Subscribe,
            Unsubscribe, ProcessBegin, Finish, TakeToken, ProcessEnd, Break,
            GoDown, ClientReject, vars

LEMMA CountedStep == IInv /\ [Next]_vars => Counted'
<1> SUFFICES ASSUME IInv, [Next]_vars PROVE Counted'
  OBVIOUS
<1> USE DEF IInv, Counted
<1>1. CASE UNCHANGED copy BY <1>1 DEF CopiesOf, TakenBy
<1>2. ASSUME NEW c \in Copy, NEW x \in CopyValue, copy' = [copy EXCEPT ![c] = x]
      PROVE  Counted'
  <2>1. ASSUME NEW v \in Version PROVE IsFiniteSet(CopiesOf(v)')
    <3>1. CopiesOf(v)' \in {CopiesOf(v) \cup {c}, CopiesOf(v) \ {c}}
      BY <1>2, OneCopy
    <3>2. IsFiniteSet(CopiesOf(v) \cup {c}) BY FS_AddElement
    <3>3. IsFiniteSet(CopiesOf(v) \ {c}) BY FS_RemoveElement
    <3> QED BY <3>1, <3>2, <3>3
  <2>2. ASSUME NEW s \in Sub PROVE IsFiniteSet(TakenBy(s)')
    <3>1. TakenBy(s)' \in {TakenBy(s) \cup {c}, TakenBy(s) \ {c}}
      BY <1>2, OneCopy
    <3>2. IsFiniteSet(TakenBy(s) \cup {c}) BY FS_AddElement
    <3>3. IsFiniteSet(TakenBy(s) \ {c}) BY FS_RemoveElement
    <3> QED BY <3>1, <3>2, <3>3
  <2> QED BY <2>1, <2>2
<1> QED BY <1>1, <1>2, OneCopyAtMost

\* No version gets more copies than it may still have.
LEMMA BudgetKept ==
  ASSUME IInv,
         \A v \in Version : CopiesOf(v)' \subseteq CopiesOf(v),
         fresh' \subseteq fresh, dead \subseteq dead',
         routed \ routed' \subseteq dead'
  PROVE  WithinBudget' /\ TwoAtMost'
<1> SUFFICES ASSUME NEW v \in Version
             PROVE  /\ Cardinality(CopiesOf(v)') <= 2
                    /\ v \in dead' \/ Budget(v)' <= 2
  BY DEF WithinBudget, TwoAtMost
<1> DEFINE n == Cardinality(CopiesOf(v))
           m == Cardinality(CopiesOf(v)')
<1>1. IsFiniteSet(CopiesOf(v)) /\ CopiesOf(v)' \in SUBSET CopiesOf(v)
  BY DEF IInv, Counted
<1>2. m <= n /\ IsFiniteSet(CopiesOf(v)') BY <1>1, FS_Subset
<1>3. n \in Nat /\ m \in Nat BY <1>1, <1>2, FS_CardinalityType
<1>4. n <= 2 /\ (v \in dead \/ Budget(v) <= 2) BY DEF IInv, TwoAtMost, WithinBudget
<1> HIDE DEF n, m
<1>5. v \notin dead' =>
        m + (IF v \in fresh' THEN 1 ELSE 0) + (IF v \in routed' THEN 0 ELSE 1) <= 2
  <2>1. v \notin dead' => 
          n + (IF v \in fresh THEN 1 ELSE 0) + (IF v \in routed THEN 0 ELSE 1) <= 2
    BY <1>4 DEF Budget, n
  <2>2. v \notin dead' => (v \in fresh' => v \in fresh) /\ (v \in routed => v \in routed')
    OBVIOUS
  <2> QED BY <1>2, <1>3, <2>1, <2>2
<1> QED BY <1>2, <1>3, <1>4, <1>5 DEF Budget, m

\* A new copy is paid for by the handler or by the loop.
LEMMA BudgetSpent ==
  ASSUME IInv, NEW v \in Version, NEW c \in Copy, copy[c] = Idle,
         Spawned(v) \in CopyValue, copy' = [copy EXCEPT ![c] = Spawned(v)],
         v \notin dead, dead' = dead,
         \/ v \in fresh /\ fresh' = fresh \ {v} /\ routed' = routed
         \/ v \notin routed /\ fresh' = fresh /\ routed' = routed \cup {v}
  PROVE  WithinBudget' /\ TwoAtMost'
<1>1. /\ \A u \in Version \ {v} : CopiesOf(u)' = CopiesOf(u)
      /\ CopiesOf(v)' = CopiesOf(v) \cup {c} /\ c \notin CopiesOf(v)
  <2>1. \A u \in Version : c \notin CopiesOf(u)
    BY Parameters DEF CopiesOf, Idle
  <2>2. Spawned(v).version = v BY DEF Spawned
  <2>3. \A u \in Version : CopiesOf(u)' = IF u = v THEN CopiesOf(u) \cup {c}
                                                    ELSE CopiesOf(u) \ {c}
    BY <2>2, OneCopy DEF IInv
  <2>4. ASSUME NEW u \in Version \ {v} PROVE CopiesOf(u)' = CopiesOf(u)
    <3>1. CopiesOf(u)' = CopiesOf(u) \ {c} BY <2>3
    <3> QED BY <2>1, <3>1
  <2> QED BY <2>1, <2>3, <2>4
<1>2. /\ Cardinality(CopiesOf(v)') = Cardinality(CopiesOf(v)) + 1
      /\ Cardinality(CopiesOf(v)) \in Nat
  BY <1>1, FS_AddElement, FS_CardinalityType DEF IInv, Counted
<1>3. Budget(v) <= 2 BY DEF IInv, WithinBudget
<1>4. Budget(v)' = Budget(v) /\ Cardinality(CopiesOf(v)') <= 2
  BY <1>2, <1>3 DEF Budget
<1>5. \A u \in Version \ {v} : /\ Budget(u)' = Budget(u)
                               /\ Cardinality(CopiesOf(u)') <= 2
  BY <1>1 DEF Budget, IInv, TwoAtMost
<1> QED BY <1>3, <1>4, <1>5 DEF WithinBudget, TwoAtMost, IInv

LEMMA BudgetStep == IInv /\ [Next]_vars => WithinBudget' /\ TwoAtMost'
<1> SUFFICES ASSUME IInv, [Next]_vars PROVE WithinBudget' /\ TwoAtMost'
  OBVIOUS
<1> USE DEF versions, scan, subscriptions
<1>a. UNCHANGED copy => \A v \in Version : CopiesOf(v)' = CopiesOf(v)
  BY DEF CopiesOf
<1>1. CASE ServiceStop \/ ListingEnd \/ List \/ Lock
  BY <1>1, <1>a, BudgetKept DEF ServiceStop, ListingEnd, List, Lock
<1>2. ASSUME NEW v \in Version, HandlerRoute(v) PROVE WithinBudget' /\ TwoAtMost'
  <2>1. CASE UNCHANGED copy
    BY <1>2, <1>a, <2>1, BudgetKept DEF HandlerRoute
  <2>2. CASE ~UNCHANGED copy
    BY <1>2, <2>2, RouteChange, BudgetSpent DEF HandlerRoute, IInv
  <2> QED BY <2>1, <2>2
<1>3. ASSUME NEW v \in Version, ListRoute(v) PROVE WithinBudget' /\ TwoAtMost'
  <2>1. CASE UNCHANGED copy
    BY <1>3, <1>a, <2>1, BudgetKept DEF ListRoute
  <2>2. CASE ~UNCHANGED copy
    BY <1>3, <2>2, RouteChange, BudgetSpent DEF ListRoute, IInv
  <2> QED BY <2>1, <2>2
<1>4. ASSUME NEW v \in Version, NEW new \in BOOLEAN, Appear(v, new)
      PROVE  WithinBudget' /\ TwoAtMost'
  <2>1. v \notin fresh /\ v \notin routed /\ CopiesOf(v)' = {}
    BY <1>4, Parameters DEF Appear, IInv, Known, CopiesOf, Idle
  <2>2. Cardinality(CopiesOf(v)') = 0 BY <2>1, FS_EmptySet
  <2>3. /\ dead' = dead /\ routed' = routed
        /\ \A u \in Version \ {v} : u \in fresh' <=> u \in fresh
        /\ \A u \in Version : CopiesOf(u)' = CopiesOf(u)
    BY <1>4, <1>a DEF Appear
  <2>4. Budget(v)' <= 2 BY <2>2 DEF Budget
  <2>5. \A u \in Version \ {v} : Budget(u)' = Budget(u)
    BY <2>3 DEF Budget
  <2> QED BY <2>3, <2>4, <2>5 DEF WithinBudget, TwoAtMost, IInv
<1>5. ASSUME NEW v \in Version, Cancel(v) \/ Unmark(v)
      PROVE  WithinBudget' /\ TwoAtMost'
  BY <1>5, <1>a, BudgetKept DEF Cancel, Unmark
<1>6. ASSUME NEW s \in Sub, Subscribe(s) \/ Unsubscribe(s) \/ ProcessStep(s)
      PROVE  WithinBudget' /\ TwoAtMost'
  BY <1>6, <1>a, BudgetKept
  DEF Subscribe, Unsubscribe, ProcessStep, ProcessBegin, Finish, TakeToken,
      ProcessEnd
<1>7. ASSUME NEW c \in Copy, CopyStep(c) PROVE WithinBudget' /\ TwoAtMost'
  <2>1. PICK x \in CopyValue :
          /\ copy' = [copy EXCEPT ![c] = x]
          /\ x = Idle \/ x.version = copy[c].version
    BY <1>7, CopyChange DEF IInv
  <2>2. \A v \in Version : x.version = v => c \in CopiesOf(v)
    BY <2>1, Parameters DEF CopiesOf, Idle
  <2>3. ASSUME NEW v \in Version PROVE CopiesOf(v)' \subseteq CopiesOf(v)
    <3>1. CopiesOf(v)' = IF x.version = v THEN CopiesOf(v) \cup {c}
                                          ELSE CopiesOf(v) \ {c}
      BY <2>1, OneCopy DEF IInv
    <3> QED BY <2>2, <3>1
  <2>4. UNCHANGED <<fresh, dead>> /\ routed \subseteq routed'
    BY <1>7 DEF CopyStep, MarkRouted, Withdraw, SendBegin, SendOk, SendFail,
                Release, Leave
  <2> QED BY <2>3, <2>4, BudgetKept
<1>8. ASSUME NEW c \in Copy, NEW s \in Sub, Deliver(c, s)
      PROVE  WithinBudget' /\ TwoAtMost'
  <2>1. \A d \in Copy : copy'[d].version = copy[d].version
    BY <1>8 DEF Deliver, IInv, TypeOK, Idle
  <2>2. \A v \in Version : CopiesOf(v)' = CopiesOf(v) BY <2>1 DEF CopiesOf
  <2> QED BY <1>8, <2>2, BudgetKept DEF Deliver
<1>9. ASSUME NEW k \in Conn, Break(k) \/ GoDown(k) PROVE WithinBudget' /\ TwoAtMost'
  BY <1>9, <1>a, BudgetKept DEF Break, GoDown
<1>10. ASSUME NEW k \in Conn, NEW v \in Version, ClientReject(k, v)
       PROVE  WithinBudget' /\ TwoAtMost'
  BY <1>10, <1>a, BudgetKept DEF ClientReject
<1>11. CASE UNCHANGED vars BY <1>11, <1>a, BudgetKept DEF vars
<1> QED BY <1>1, <1>2, <1>3, <1>4, <1>5, <1>6, <1>7, <1>8, <1>9, <1>10, <1>11
        DEF Next, LoopStep

-----------------------------------------------------------------------------
(* No version is lost.                                                     *)

LEMMA NotLostStep == IInv /\ [Next]_vars => NotLost'
<1> SUFFICES ASSUME IInv, [Next]_vars PROVE NotLost'
  OBVIOUS
<1> USE DEF versions, scan, subscriptions
<1>a. UNCHANGED copy => \A v \in Version : CopiesOf(v)' = CopiesOf(v)
  BY DEF CopiesOf
<1>b. routed \subseteq Version /\ live \cap dead = {} BY DEF IInv, TypeOK, Known
<1>c. ASSUME running' => running, UNCHANGED copy, routed' \subseteq routed,
             live' \cap routed \subseteq live
      PROVE  NotLost'
  BY <1>a, <1>b, <1>c DEF NotLost, IInv
<1>1. CASE ServiceStop \/ ListingEnd \/ List \/ Lock
  BY <1>1, <1>c DEF ServiceStop, ListingEnd, List, Lock
<1>2. ASSUME NEW v \in Version, HandlerRoute(v) \/ ListRoute(v) PROVE NotLost'
  <2>1. CASE UNCHANGED routed /\ UNCHANGED copy
    BY <1>2, <2>1, <1>c DEF HandlerRoute, ListRoute
  <2>2. CASE Route(v) /\ UNCHANGED copy
    <3>1. v \in dead \/ UNCHANGED routed
      <4>1. CASE HandlerRoute(v) BY <4>1 DEF HandlerRoute
      <4>2. CASE loop = "route"
        <5>1. Routing(v) \in {Idle, Spawned(v)} BY DEF Routing
        <5>2. CASE Routing(v) = Idle
          BY <4>2, <5>2 DEF Routing, Spawned, Idle
        <5>3. CASE \E c \in Copy : /\ copy[c] = Idle
                                   /\ copy' = [copy EXCEPT ![c] = Routing(v)]
          <6>1. Routing(v) = Idle BY <2>2, <5>3 DEF IInv, TypeOK
          <6> QED BY <5>2, <6>1
        <5> QED BY <2>2, <5>2, <5>3 DEF Route
      <4> QED BY <1>2, <4>1, <4>2 DEF ListRoute
    <3>2. running' = running /\ live' = live /\ routed' \subseteq routed \cup {v}
      BY <1>2 DEF HandlerRoute, ListRoute
    <3> QED BY <1>a, <1>b, <2>2, <3>1, <3>2 DEF NotLost, IInv
  <2>3. CASE Route(v) /\ ~UNCHANGED copy
    <3>1. PICK c \in Copy : /\ copy[c] = Idle
                            /\ Spawned(v) \in CopyValue
                            /\ copy' = [copy EXCEPT ![c] = Spawned(v)]
      BY <2>3, RouteChange DEF IInv
    <3>2. \A d \in Copy : copy'[d] = IF d = c THEN Spawned(v) ELSE copy[d]
      BY <3>1, OneCopy DEF IInv
    <3>3. c \in CopiesOf(v)' BY <3>2 DEF CopiesOf, Spawned
    <3>4. \A u \in Version : CopiesOf(u) \subseteq CopiesOf(u)'
      BY <3>1, <3>2, Parameters DEF CopiesOf, Idle
    <3>5. running' = running /\ live' = live /\ routed' \subseteq routed \cup {v}
      BY <1>2 DEF HandlerRoute, ListRoute
    <3> QED BY <1>b, <3>3, <3>4, <3>5 DEF NotLost, IInv
  <2> QED BY <1>2, <2>1, <2>2, <2>3 DEF HandlerRoute, ListRoute
<1>3. ASSUME NEW v \in Version, NEW new \in BOOLEAN, Appear(v, new) PROVE NotLost'
  <2>1. v \notin routed BY <1>3 DEF Appear, IInv, Known
  <2> QED BY <1>3, <2>1, <1>c DEF Appear
<1>4. ASSUME NEW v \in Version, Cancel(v) \/ Unmark(v) PROVE NotLost'
  BY <1>4, <1>c DEF Cancel, Unmark
<1>5. ASSUME NEW s \in Sub, Subscribe(s) \/ Unsubscribe(s) \/ ProcessStep(s)
      PROVE  NotLost'
  BY <1>5, <1>c
  DEF Subscribe, Unsubscribe, ProcessStep, ProcessBegin, Finish, TakeToken,
      ProcessEnd
<1>6. ASSUME NEW c \in Copy, CopyStep(c) PROVE NotLost'
  <2>1. PICK x \in CopyValue :
          /\ copy' = [copy EXCEPT ![c] = x]
          /\ x = Idle \/ x.version = copy[c].version
          /\ x = Idle => Withdraw(c) \/ Leave(c)
    BY <1>6, CopyChange DEF IInv
  <2>2. \A d \in Copy : copy'[d] = IF d = c THEN x ELSE copy[d]
    BY <2>1, OneCopy DEF IInv
  <2>3. copy[c] # Idle /\ copy[c].version \in Version
    BY <1>6, CopyChange DEF IInv
  <2>4. running' = running /\ live' = live /\ dead' = dead
    BY <1>6 DEF CopyStep, MarkRouted, Withdraw, SendBegin, SendOk, SendFail,
                Release, Leave
  <2>5. CASE x = Idle
    <3>1. copy[c].version \in dead \/ ~running
      <4>1. CASE Withdraw(c) BY <4>1 DEF Withdraw
      <4>2. CASE Leave(c)
        <5>1. Routing(copy[c].version) = Idle
          BY <2>2, <2>5, <4>2 DEF Leave, IInv, TypeOK
        <5>2. loop # "off" BY <2>3 DEF IInv, TakenBySome
        <5> QED BY <5>1, <5>2 DEF Routing, Spawned, Idle
      <4> QED BY <2>1, <2>5, <4>1, <4>2
    <3>2. routed' = routed
      <4>1. CASE Withdraw(c) BY <4>1 DEF Withdraw
      <4>2. CASE Leave(c) BY <4>2 DEF Leave
      <4> QED BY <2>1, <2>5, <4>1, <4>2
    <3>3. \A u \in Version \ {copy[c].version} : CopiesOf(u) \subseteq CopiesOf(u)'
      BY <2>2, <2>3 DEF CopiesOf
    <3> QED BY <1>b, <2>4, <3>1, <3>2, <3>3 DEF NotLost, IInv
  <2>6. CASE x # Idle
    <3>1. \A u \in Version : CopiesOf(u)' = CopiesOf(u)
      BY <2>1, <2>2, <2>6 DEF CopiesOf
    <3>2. c \in CopiesOf(copy[c].version) BY DEF CopiesOf
    <3>3. routed' \subseteq routed \cup {copy[c].version}
      BY <1>6 DEF CopyStep, MarkRouted, Withdraw, SendBegin, SendOk, SendFail,
                  Release, Leave
    <3> QED BY <1>b, <2>3, <2>4, <3>1, <3>2, <3>3 DEF NotLost, IInv
  <2> QED BY <2>5, <2>6
<1>7. ASSUME NEW c \in Copy, NEW s \in Sub, Deliver(c, s) PROVE NotLost'
  <2>1. \A d \in Copy : copy'[d].version = copy[d].version
    BY <1>7 DEF Deliver, IInv, TypeOK, Idle
  <2>2. \A v \in Version : CopiesOf(v)' = CopiesOf(v) BY <2>1 DEF CopiesOf
  <2> QED BY <1>7, <2>2, <1>b DEF Deliver, NotLost, IInv
<1>8. ASSUME NEW k \in Conn, Break(k) \/ GoDown(k) PROVE NotLost'
  BY <1>8, <1>c DEF Break, GoDown
<1>9. ASSUME NEW k \in Conn, NEW v \in Version, ClientReject(k, v) PROVE NotLost'
  BY <1>9, <1>c DEF ClientReject
<1>10. CASE UNCHANGED vars BY <1>10, <1>c DEF vars
<1> QED BY <1>1, <1>2, <1>3, <1>4, <1>5, <1>6, <1>7, <1>8, <1>9, <1>10
        DEF Next, LoopStep

-----------------------------------------------------------------------------
(* The pool.                                                               *)

\* What TokensConserved says of a subscription.
Balanced(s) ==
  LET used == Cardinality(TakenBy(s)) + tokens[s]
  IN  /\ proc[s] = "receive" => used + 1 = PoolSize
      /\ proc[s] = "gone" => used <= PoolSize
      /\ proc[s] \notin {"receive", "gone"} => used = PoolSize

LEMMA TokensBalance ==
  /\ TokensConserved => \A s \in Sub : Balanced(s)
  /\ (\A s \in Sub : Balanced(s)') => TokensConserved'
<1>1. ASSUME TokensConserved, NEW s \in Sub PROVE Balanced(s)
  <2>1. CASE proc[s] = "receive" BY <1>1, <2>1 DEF TokensConserved, Balanced
  <2>2. CASE proc[s] = "gone" BY <1>1, <2>2 DEF TokensConserved, Balanced
  <2>3. CASE proc[s] \notin {"receive", "gone"}
    BY <1>1, <2>3 DEF TokensConserved, Balanced
  <2> QED BY <2>1, <2>2, <2>3
<1>2. ASSUME \A s \in Sub : Balanced(s)' PROVE TokensConserved'
  BY <1>2 DEF TokensConserved, Balanced
<1> QED BY <1>1, <1>2

\* Nothing is taken or given back.
LEMMA BalanceKept ==
  ASSUME IInv, NEW s \in Sub,
         TakenBy(s)' = TakenBy(s), tokens'[s] = tokens[s],
         \/ proc'[s] = proc[s]
         \/ proc[s] \notin {"receive", "gone"} /\ proc'[s] \notin {"receive", "gone"}
         \/ proc'[s] = "gone"
  PROVE  Balanced(s)'
<1>1. /\ Cardinality(TakenBy(s)) \in Nat /\ tokens[s] \in Nat
      /\ Cardinality(TakenBy(s)) + tokens[s] <= PoolSize
  BY WithinPool DEF IInv
<1>2. Balanced(s) BY TokensBalance DEF IInv
<1> QED BY <1>1, <1>2, Parameters DEF Balanced

LEMMA TokensStep == IInv /\ [Next]_vars => TokensConserved'
<1> SUFFICES ASSUME IInv, [Next]_vars PROVE \A s \in Sub : Balanced(s)'
  BY TokensBalance
<1> USE DEF versions, scan, subscriptions
<1>a. UNCHANGED copy => \A s \in Sub : TakenBy(s)' = TakenBy(s)
  BY DEF TakenBy
<1>b. \A s \in Sub : /\ Balanced(s)
                     /\ IsFiniteSet(TakenBy(s)) /\ Cardinality(TakenBy(s)) \in Nat
                     /\ tokens[s] \in Nat
  BY TokensBalance, WithinPool, FS_CardinalityType DEF IInv, Counted
<1>c. ASSUME \A s \in Sub : TakenBy(s)' = TakenBy(s), UNCHANGED <<proc, tokens>>
      PROVE  \A s \in Sub : Balanced(s)'
  BY <1>c, BalanceKept
<1>1. CASE ServiceStop \/ ListingEnd \/ List \/ Lock
  BY <1>1, <1>a, <1>c DEF ServiceStop, ListingEnd, List, Lock
<1>2. ASSUME NEW v \in Version, HandlerRoute(v) \/ ListRoute(v)
      PROVE  \A s \in Sub : Balanced(s)'
  <2>1. UNCHANGED <<proc, tokens>> BY <1>2 DEF HandlerRoute, ListRoute
  <2>2. CASE UNCHANGED copy BY <2>1, <2>2, <1>a, <1>c
  <2>3. CASE ~UNCHANGED copy
    <3>1. Route(v) BY <1>2, <2>3 DEF HandlerRoute, ListRoute
    <3>2. PICK c \in Copy : /\ copy[c] = Idle
                            /\ Spawned(v) \in CopyValue
                            /\ copy' = [copy EXCEPT ![c] = Spawned(v)]
      BY <2>3, <3>1, RouteChange DEF IInv
    <3>3. Spawned(v).at \notin Taken /\ \A s \in Sub : c \notin TakenBy(s)
      BY <3>2 DEF Spawned, Idle, Taken, TakenBy
    <3>4. ASSUME NEW s \in Sub PROVE TakenBy(s)' = TakenBy(s)
      <4>1. TakenBy(s)' = TakenBy(s) \ {c} BY <3>2, <3>3, OneCopy DEF IInv
      <4> QED BY <3>3, <4>1
    <3> QED BY <2>1, <3>4, <1>c
  <2> QED BY <2>2, <2>3
<1>3. ASSUME NEW v \in Version, NEW new \in BOOLEAN, Appear(v, new)
      PROVE  \A s \in Sub : Balanced(s)'
  BY <1>3, <1>a, <1>c DEF Appear
<1>4. ASSUME NEW v \in Version, Cancel(v) \/ Unmark(v)
      PROVE  \A s \in Sub : Balanced(s)'
  BY <1>4, <1>a, <1>c DEF Cancel, Unmark
<1>5. ASSUME NEW s \in Sub, Unsubscribe(s) \/ Finish(s)
      PROVE  \A r \in Sub : Balanced(r)'
  BY <1>5, <1>a, <1>c DEF Unsubscribe, Finish
<1>6. ASSUME NEW s \in Sub, Subscribe(s) \/ ProcessBegin(s) \/ ProcessEnd(s)
      PROVE  \A r \in Sub : Balanced(r)'
  <2>1. \A r \in Sub : /\ TakenBy(r)' = TakenBy(r) /\ tokens'[r] = tokens[r]
                       /\ \/ proc'[r] = proc[r]
                          \/ /\ proc[r] \notin {"receive", "gone"}
                             /\ proc'[r] \notin {"receive", "gone"}
                          \/ proc'[r] = "gone"
    BY <1>6, <1>a DEF Subscribe, ProcessBegin, ProcessEnd, IInv, TypeOK
  <2> QED BY <2>1, BalanceKept
<1>7. ASSUME NEW s \in Sub, TakeToken(s) PROVE \A r \in Sub : Balanced(r)'
  <2>1. /\ \A r \in Sub : TakenBy(r)' = TakenBy(r)
        /\ proc[s] = "pool" /\ proc'[s] = "receive"
        /\ tokens[s] > 0 /\ tokens'[s] = tokens[s] - 1
        /\ \A r \in Sub \ {s} : proc'[r] = proc[r] /\ tokens'[r] = tokens[r]
    BY <1>7, <1>a DEF TakeToken, IInv, TypeOK
  <2>2. Balanced(s)' BY <1>b, <2>1, Parameters DEF Balanced
  <2>3. \A r \in Sub \ {s} : Balanced(r)' BY <2>1, BalanceKept
  <2> QED BY <2>2, <2>3
<1>8. ASSUME NEW c \in Copy, CopyStep(c), ~Leave(c)
      PROVE  \A s \in Sub : Balanced(s)'
  <2>1. PICK x \in CopyValue :
          /\ copy' = [copy EXCEPT ![c] = x]
          /\ x.at \in Taken => copy[c].at \in Taken /\ x.sub = copy[c].sub
          /\ ~(x.at \notin Taken /\ copy[c].at \in Taken)
    BY <1>8, CopyChange DEF IInv
  <2>2. ASSUME NEW s \in Sub PROVE TakenBy(s)' = TakenBy(s)
    <3>1. TakenBy(s)' = IF x.at \in Taken /\ x.sub = s
                          THEN TakenBy(s) \cup {c} ELSE TakenBy(s) \ {c}
      BY <2>1, OneCopy DEF IInv
    <3>2. (x.at \in Taken /\ x.sub = s) <=> c \in TakenBy(s)
      BY <2>1 DEF TakenBy
    <3> QED BY <3>1, <3>2
  <2>3. UNCHANGED <<proc, tokens>>
    BY <1>8 DEF CopyStep, MarkRouted, Withdraw, SendBegin, SendOk, SendFail, Release
  <2> QED BY <2>2, <2>3, <1>c
<1>9. ASSUME NEW c \in Copy, Leave(c) PROVE \A s \in Sub : Balanced(s)'
  <2> DEFINE x == Routing(copy[c].version)
  <2>0. PICK s \in Sub : s = copy[c].sub
    BY <1>9 DEF Leave, IInv, TakenBySome, Taken
  <2>1. copy[c].at = "leaving" /\ c \in TakenBy(s)
    BY <1>9, <2>0 DEF Leave, TakenBy, Taken
  <2>2. copy[c].version \in Version BY <2>1 DEF IInv, TypeOK, Idle
  <2>3. x \in CopyValue /\ x.at \notin Taken
    BY <2>2, RoutingType DEF Idle, Spawned, Taken
  <2>4. copy' = [copy EXCEPT ![c] = x] /\ proc' = proc
        /\ tokens' = [tokens EXCEPT ![s] = tokens[s] + 1]
    BY <1>9, <2>0 DEF Leave
  <2> HIDE DEF x
  <2>5. \A r \in Sub : TakenBy(r)' = TakenBy(r) \ {c}
    BY <2>3, <2>4, OneCopy DEF IInv
  <2>6. \A r \in Sub \ {s} : TakenBy(r)' = TakenBy(r) /\ tokens'[r] = tokens[r]
    <3>1. \A r \in Sub \ {s} : c \notin TakenBy(r) BY <2>0 DEF TakenBy
    <3>2. \A r \in Sub \ {s} : TakenBy(r)' = TakenBy(r) BY <2>5, <3>1
    <3>3. tokens \in [Sub -> 0 .. PoolSize] BY DEF IInv, TypeOK
    <3> QED BY <2>4, <3>2, <3>3
  <2>7. /\ Cardinality(TakenBy(s)') = Cardinality(TakenBy(s)) - 1
        /\ tokens'[s] = tokens[s] + 1
    <3>1. TakenBy(s)' = TakenBy(s) \ {c} BY <2>1, <2>5
    <3>2. Cardinality(TakenBy(s) \ {c}) = Cardinality(TakenBy(s)) - 1
      BY <1>b, <2>1, FS_RemoveElement
    <3>3. tokens \in [Sub -> 0 .. PoolSize] BY DEF IInv, TypeOK
    <3> QED BY <2>1, <2>4, <3>1, <3>2, <3>3
  <2>8. Balanced(s)'
    <3>1. /\ Cardinality(TakenBy(s)) \in Nat /\ tokens[s] \in Nat /\ Balanced(s)
      BY <1>b, <2>1
    <3> QED BY <2>4, <2>7, <3>1, Parameters DEF Balanced
  <2>9. \A r \in Sub \ {s} : Balanced(r)' BY <2>4, <2>6, BalanceKept
  <2> QED BY <2>8, <2>9
<1>10. ASSUME NEW c \in Copy, NEW s \in Sub, Deliver(c, s)
       PROVE  \A r \in Sub : Balanced(r)'
  <2> DEFINE x == [copy[c] EXCEPT !.at = "got", !.sub = s]
  <2>1. copy[c].at = "offered" /\ copy' = [copy EXCEPT ![c] = x]
        /\ tokens' = tokens /\ proc[s] = "receive"
        /\ proc' = [proc EXCEPT ![s] = "pool"]
    BY <1>10 DEF Deliver
  <2>2. copy[c] \in [version : Version, at : Places, sub : Sub \cup {None}]
    BY <2>1 DEF Idle, IInv, TypeOK
  <2>3. x \in CopyValue /\ x.at \in Taken /\ x.sub = s
    BY <2>2 DEF CopyValue, Places, Taken
  <2> HIDE DEF x
  <2>4. \A r \in Sub : c \notin TakenBy(r) BY <2>1 DEF TakenBy, Taken
  <2>a. \A r \in Sub : TakenBy(r)' = IF x.at \in Taken /\ x.sub = r
                                       THEN TakenBy(r) \cup {c} ELSE TakenBy(r) \ {c}
    BY <2>1, <2>3, OneCopy DEF IInv
  <2>5. TakenBy(s)' = TakenBy(s) \cup {c} BY <2>3, <2>a
  <2>6. ASSUME NEW r \in Sub \ {s} PROVE TakenBy(r)' = TakenBy(r)
    <3>1. TakenBy(r)' = TakenBy(r) \ {c} BY <2>3, <2>a
    <3> QED BY <2>4, <3>1
  <2>7. Cardinality(TakenBy(s)') = Cardinality(TakenBy(s)) + 1
    BY <1>b, <2>4, <2>5, FS_AddElement
  <2>8. proc'[s] = "pool" /\ \A r \in Sub \ {s} : proc'[r] = proc[r]
    BY <2>1 DEF IInv, TypeOK
  <2>9. Balanced(s)'
    <3>1. Cardinality(TakenBy(s)) \in Nat /\ tokens[s] \in Nat /\ Balanced(s)
      BY <1>b
    <3> QED BY <2>1, <2>7, <2>8, <3>1, Parameters DEF Balanced
  <2>10. \A r \in Sub \ {s} : Balanced(r)' BY <2>1, <2>6, <2>8, BalanceKept
  <2> QED BY <2>9, <2>10
<1>11. ASSUME NEW k \in Conn, Break(k) \/ GoDown(k) PROVE \A s \in Sub : Balanced(s)'
  BY <1>11, <1>a, <1>c DEF Break, GoDown
<1>12. ASSUME NEW k \in Conn, NEW v \in Version, ClientReject(k, v)
       PROVE  \A s \in Sub : Balanced(s)'
  BY <1>12, <1>a, <1>c DEF ClientReject
<1>13. CASE UNCHANGED vars BY <1>13, <1>a, <1>c DEF vars
<1> QED BY <1>1, <1>2, <1>3, <1>4, <1>5, <1>6, <1>7, <1>8, <1>9, <1>10, <1>11,
           <1>12, <1>13
        DEF Next, LoopStep, ProcessStep

-----------------------------------------------------------------------------
(* What is recorded as sent.                                               *)

InProgress(c, k, v) == /\ copy[c].version = v
                       /\ copy[c].at \in {"sending", "held"}
                       /\ ConnOfCopy(c) = k

LEMMA Recorded ==
  ASSUME SentInProgress, NEW k \in Conn, NEW v \in Version, NEW c \in Copy,
         sent[k][v] = c
  PROVE  InProgress(c, k, v)
BY Parameters DEF SentInProgress, InProgress

LEMMA RecordedNext ==
  ASSUME TypeOK',
         \A k \in Conn, v \in Version, c \in Copy :
           sent'[k][v] = c => InProgress(c, k, v)'
  PROVE  SentInProgress'
<1> SUFFICES ASSUME NEW k \in Conn, NEW v \in Version, sent'[k][v] # None
             PROVE  /\ copy'[sent'[k][v]].version = v
                    /\ copy'[sent'[k][v]].at \in {"sending", "held"}
                    /\ ConnOf[copy'[sent'[k][v]].sub] = k
  BY DEF SentInProgress, ConnOfCopy
<1>1. PICK c \in Copy : c = sent'[k][v] BY DEF TypeOK
<1>2. InProgress(c, k, v)' BY <1>1
<1> QED BY <1>1, <1>2 DEF InProgress, ConnOfCopy

\* No send ends, and nothing is recorded.
LEMMA SentKept ==
  ASSUME IInv, TypeOK',
         \A c \in Copy : copy[c].at \in {"sending", "held"}
           => /\ copy'[c].at \in {"sending", "held"}
              /\ copy'[c].version = copy[c].version /\ copy'[c].sub = copy[c].sub,
         \A k \in Conn, v \in Version : sent'[k][v] \in {sent[k][v], None}
  PROVE  SentInProgress'
<1> SUFFICES ASSUME NEW k \in Conn, NEW v \in Version, NEW c \in Copy, sent'[k][v] = c
             PROVE  InProgress(c, k, v)'
  BY RecordedNext
<1>1. sent[k][v] = c BY Parameters
<1>2. InProgress(c, k, v) BY <1>1, Recorded DEF IInv
<1> QED BY <1>2 DEF InProgress, ConnOfCopy

LEMMA SentStep == IInv /\ [Next]_vars => SentInProgress'
<1> SUFFICES ASSUME IInv, [Next]_vars PROVE SentInProgress'
  OBVIOUS
<1> USE DEF versions, scan, subscriptions
<1>t. TypeOK' /\ sent \in [Conn -> [Version -> Copy \cup {None}]]
  BY TypeStep DEF IInv, TypeOK
<1>a. ASSUME UNCHANGED <<copy, sent>> PROVE SentInProgress'
  BY <1>a, <1>t, SentKept
<1>b. ASSUME NEW c \in Copy, NEW x \in CopyValue, copy' = [copy EXCEPT ![c] = x],
             copy[c].at \notin {"sending", "held"}, sent' = sent
      PROVE  SentInProgress'
  <2>1. \A d \in Copy : copy'[d] = IF d = c THEN x ELSE copy[d]
    BY <1>b, OneCopy DEF IInv
  <2> QED BY <1>b, <1>t, <2>1, SentKept
<1>1. CASE ServiceStop \/ ListingEnd \/ List \/ Lock
  BY <1>1, <1>a DEF ServiceStop, ListingEnd, List, Lock
<1>2. ASSUME NEW v \in Version, HandlerRoute(v) \/ ListRoute(v)
      PROVE  SentInProgress'
  <2>1. sent' = sent BY <1>2 DEF HandlerRoute, ListRoute
  <2>2. CASE UNCHANGED copy BY <2>1, <2>2, <1>a
  <2>3. CASE ~UNCHANGED copy
    <3>1. Route(v) BY <1>2, <2>3 DEF HandlerRoute, ListRoute
    <3>2. PICK c \in Copy : /\ copy[c] = Idle
                            /\ Spawned(v) \in CopyValue
                            /\ copy' = [copy EXCEPT ![c] = Spawned(v)]
      BY <2>3, <3>1, RouteChange DEF IInv
    <3>3. copy[c].at = "idle" BY <3>2 DEF Idle
    <3> QED BY <2>1, <3>2, <3>3, <1>b
  <2> QED BY <2>2, <2>3
<1>3. ASSUME NEW v \in Version, NEW new \in BOOLEAN, Appear(v, new)
      PROVE  SentInProgress'
  BY <1>3, <1>a DEF Appear
<1>4. ASSUME NEW v \in Version, Cancel(v) \/ Unmark(v) PROVE SentInProgress'
  BY <1>4, <1>a DEF Cancel, Unmark
<1>5. ASSUME NEW s \in Sub, Subscribe(s) \/ Unsubscribe(s) \/ ProcessStep(s)
      PROVE  SentInProgress'
  BY <1>5, <1>a DEF Subscribe, Unsubscribe, ProcessStep, ProcessBegin, Finish,
                    TakeToken, ProcessEnd
<1>6. ASSUME NEW c \in Copy, MarkRouted(c) \/ Withdraw(c) \/ Leave(c)
      PROVE  SentInProgress'
  <2>1. PICK x \in CopyValue : copy' = [copy EXCEPT ![c] = x]
    BY <1>6, CopyChange DEF CopyStep, IInv
  <2>2. copy[c].at \notin {"sending", "held"} /\ sent' = sent
    BY <1>6 DEF MarkRouted, Withdraw, Leave
  <2> QED BY <2>1, <2>2, <1>b
<1>7. ASSUME NEW c \in Copy, SendOk(c) PROVE SentInProgress'
  <2>1. sent' = sent /\ copy[c].at = "sending"
        /\ copy' = [copy EXCEPT ![c] = [copy[c] EXCEPT !.at = "held"]]
    BY <1>7 DEF SendOk
  <2>2. LET x == [copy[c] EXCEPT !.at = "held"]
        IN  /\ x \in CopyValue /\ x.at = "held"
            /\ x.version = copy[c].version /\ x.sub = copy[c].sub
    BY <2>1, Moved DEF IInv, Places
  <2>3. /\ copy'[c].at = "held"
        /\ copy'[c].version = copy[c].version /\ copy'[c].sub = copy[c].sub
        /\ \A d \in Copy \ {c} : copy'[d] = copy[d]
    BY <2>1, <2>2, OneCopy DEF IInv
  <2> QED BY <1>t, <2>1, <2>3, SentKept
<1>8. ASSUME NEW c \in Copy, SendBegin(c) PROVE SentInProgress'
  <2>1. copy[c].at = "got" BY <1>8 DEF SendBegin
  <2>2. CASE copy[c].sub \notin cancels
    <3>1. PICK x \in CopyValue : copy' = [copy EXCEPT ![c] = x]
      BY <1>8, CopyChange DEF CopyStep, IInv
    <3>2. sent' = sent BY <1>8, <2>2 DEF SendBegin
    <3> QED BY <2>1, <3>1, <3>2, <1>b
  <2>3. CASE copy[c].sub \in cancels
    <3> DEFINE x == [copy[c] EXCEPT !.at = "sending"]
    <3>1. copy' = [copy EXCEPT ![c] = x]
          /\ sent' = [sent EXCEPT ![ConnOfCopy(c)][copy[c].version] = c]
      BY <1>8, <2>3 DEF SendBegin
    <3>2. /\ x \in CopyValue /\ x.at = "sending"
          /\ x.version = copy[c].version /\ x.sub = copy[c].sub
      BY <2>1, Moved DEF IInv, Places
    <3>3. \A d \in Copy : copy'[d] = IF d = c THEN x ELSE copy[d]
      BY <3>1, <3>2, OneCopy DEF IInv
    <3> HIDE DEF x
    <3>4. SUFFICES ASSUME NEW k \in Conn, NEW v \in Version, NEW d \in Copy,
                          sent'[k][v] = d
                   PROVE  InProgress(d, k, v)'
      BY <1>t, RecordedNext
    <3>5. CASE k = ConnOfCopy(c) /\ v = copy[c].version
      <4>1. d = c BY <1>t, <3>1, <3>4, <3>5
      <4> QED BY <3>2, <3>3, <3>5, <4>1 DEF InProgress, ConnOfCopy
    <3>6. CASE ~(k = ConnOfCopy(c) /\ v = copy[c].version)
      <4>1. sent[k][v] = d BY <1>t, <3>1, <3>4, <3>6
      <4>2. InProgress(d, k, v) BY <4>1, Recorded DEF IInv
      <4>3. copy'[d] = copy[d] BY <2>1, <3>3, <4>2 DEF InProgress
      <4> QED BY <4>2, <4>3 DEF InProgress, ConnOfCopy
    <3> QED BY <3>5, <3>6
  <2> QED BY <2>2, <2>3
<1>9. ASSUME NEW c \in Copy, SendFail(c) \/ Release(c) PROVE SentInProgress'
  <2>1. sent' = [sent EXCEPT ![ConnOfCopy(c)][copy[c].version] = None]
    BY <1>9 DEF SendFail, Release, RejectSent
  <2>2. PICK x \in CopyValue : copy' = [copy EXCEPT ![c] = x]
    BY <1>9, CopyChange DEF CopyStep, IInv
  <2>3. \A d \in Copy : copy'[d] = IF d = c THEN x ELSE copy[d]
    BY <2>2, OneCopy DEF IInv
  <2>4. SUFFICES ASSUME NEW k \in Conn, NEW v \in Version, NEW d \in Copy,
                        sent'[k][v] = d
                 PROVE  InProgress(d, k, v)'
    BY <1>t, RecordedNext
  <2>5. sent[k][v] = d /\ ~(k = ConnOfCopy(c) /\ v = copy[c].version)
    BY <1>t, <2>1, <2>4, Parameters
  <2>6. InProgress(d, k, v) BY <2>5, Recorded DEF IInv
  <2>7. d # c BY <2>5, <2>6 DEF InProgress
  <2> QED BY <2>3, <2>6, <2>7 DEF InProgress, ConnOfCopy
<1>10. ASSUME NEW c \in Copy, NEW s \in Sub, Deliver(c, s) PROVE SentInProgress'
  <2>1. sent' = sent /\ copy[c].at = "offered"
        /\ copy' = [copy EXCEPT ![c] = [copy[c] EXCEPT !.at = "got", !.sub = s]]
    BY <1>10 DEF Deliver
  <2>2. copy[c] \in [version : Version, at : Places, sub : Sub \cup {None}]
    BY <2>1 DEF Idle, IInv, TypeOK
  <2>3. [copy[c] EXCEPT !.at = "got", !.sub = s] \in CopyValue
    BY <2>2 DEF CopyValue, Places
  <2> QED BY <2>1, <2>3, <1>b
<1>11. ASSUME NEW k \in Conn, Break(k) \/ GoDown(k) PROVE SentInProgress'
  BY <1>11, <1>a DEF Break, GoDown
<1>12. ASSUME NEW k \in Conn, NEW v \in Version, ClientReject(k, v)
       PROVE  SentInProgress'
  <2>1. copy' = copy /\ sent' = [sent EXCEPT ![k][v] = None]
    BY <1>12 DEF ClientReject, RejectSent
  <2>2. \A j \in Conn, u \in Version : sent'[j][u] \in {sent[j][u], None}
    BY <1>t, <2>1
  <2> QED BY <1>t, <2>1, <2>2, SentKept
<1>13. CASE UNCHANGED vars BY <1>13, <1>a DEF vars
<1> QED BY <1>1, <1>2, <1>3, <1>4, <1>5, <1>6, <1>7, <1>8, <1>9, <1>10, <1>11,
           <1>12, <1>13
        DEF Next, LoopStep, CopyStep

-----------------------------------------------------------------------------
(* The theorems.                                                           *)

LEMMA InitIInv == Init => IInv
<1> SUFFICES ASSUME Init PROVE IInv
  OBVIOUS
<1>1. TypeOK
  BY Parameters DEF Init, TypeOK, Idle
<1>2. /\ \A c \in Copy : copy[c] = Idle
      /\ \A v \in Version : CopiesOf(v) = {}
      /\ \A s \in Sub : TakenBy(s) = {} /\ proc[s] = "new" /\ tokens[s] = PoolSize
      /\ \A k \in Conn, v \in Version : sent[k][v] = None
  BY Parameters DEF Init, CopiesOf, TakenBy, Idle, Taken
<1>3. /\ \A v \in Version : /\ IsFiniteSet(CopiesOf(v))
                            /\ Cardinality(CopiesOf(v)) = 0
      /\ \A s \in Sub : IsFiniteSet(TakenBy(s)) /\ Cardinality(TakenBy(s)) = 0
  BY <1>2, FS_EmptySet
<1>4. Known /\ TakenBySome
  BY <1>2 DEF Init, Known, TakenBySome, Taken, Idle
<1>5. Counted BY <1>3 DEF Counted
<1>6. NotLost /\ SentInProgress BY <1>2 DEF Init, NotLost, SentInProgress
<1>7. WithinBudget /\ TwoAtMost
  BY <1>3 DEF Init, WithinBudget, Budget, TwoAtMost
<1>8. TokensConserved BY <1>2, <1>3, Parameters DEF TokensConserved
<1> QED BY <1>1, <1>4, <1>5, <1>6, <1>7, <1>8 DEF IInv

\* The conjunction of all parts is inductive: they need each other, as a token
\* is counted by the copies taken, and a copy is of a version that was made.
THEOREM Invariance == Spec => []IInv
<1>1. IInv /\ [Next]_vars => IInv'
  BY TypeStep, KnownStep, TakenBySomeStep, CountedStep, BudgetStep, NotLostStep,
     TokensStep, SentStep
  DEF IInv
<1> QED BY InitIInv, <1>1, PTL DEF Spec

\* While the service runs, a version that is marked routed and not canceled is
\* with a goroutine or a subscription, whatever connections and subscriptions
\* do: the loop, which skips the marked ones, need not look at it again
\* (router.go:86-90, queue-subscribe.go:150).
THEOREM NothingLost == Spec => []NotLost
<1>1. IInv => NotLost BY DEF IInv
<1> QED BY Invariance, <1>1, PTL

\* Rerouting never multiplies a version: for any number of subscriptions two
\* goroutines have it at most (router.go:42-61, 139-142).
THEOREM NeverThree == Spec => []TwoAtMost
<1>1. IInv => TwoAtMost BY DEF IInv
<1> QED BY Invariance, <1>1, PTL

\* No path of queueSubscribeSend keeps a token or gives one back twice: what a
\* subscription has taken and its pool add up to the size of the pool, for any
\* size (queue-subscribe.go:105-126, 141).
THEOREM PoolConserved == Spec => []TokensConserved
<1>1. IInv => TokensConserved BY DEF IInv
<1> QED BY Invariance, <1>1, PTL

\* A reject cancels the send of its version on its connection, or nothing: what
\* is recorded as sent is in progress (queue-subscribe.go, addSent, rejectSent).
THEOREM RejectHitsSend == Spec => []SentInProgress
<1>1. IInv => SentInProgress BY DEF IInv
<1> QED BY Invariance, <1>1, PTL

=============================================================================
