------------------------------ MODULE Protocol ------------------------------
(***************************************************************************)
(* One end of a connection: internal/protocol/controller.  Goroutines send *)
(* requests (RequestSend) and wait on a channel each for the answer; one   *)
(* goroutine, connRead, reads everything that arrives, puts answers into   *)
(* these channels and hands messages to the owner of the controller over   *)
(* an unbuffered channel; when it cannot read any more it tells the owner  *)
(* so, in the same way, and ends the controller (connStop).                *)
(*                                                                         *)
(* The other end answers a request once or never, in any order, and sends  *)
(* messages of its own.  A request and its id are one value.  What a       *)
(* message says, and the requests of the other end, which take the way of  *)
(* its messages, are left out.                                             *)
(***************************************************************************)
EXTENDS Naturals

CONSTANTS Request,    \* the requests of this end
          MaxMessages \* messages of the other end (a bound)

ASSUME ParametersAssumption == MaxMessages \in Nat

VARIABLES
  link,     \* the websocket: up, broken, or closed by this end
  finished, \* the channel finished is closed
  reader,   \* connRead: reading; with an answer; handing a message or its
            \*   failure to the owner; in connStop: finish, close, release; gone
  hand,     \* the requests whose answer connRead has (one at most)
  listed,   \* res.list: the requests whose channel waits for an answer
  channel,  \* per request: no channel, open, holding the answer, closed
            \*   after it, closed without
  sender,   \* per request: idle, stored (not yet written), waiting, done; or
            \*   failed (closing its channel), refused (the error is returned)
  asked,    \* requests that have reached the other end
  answers,  \* requests whose answer is on its way
  messages, \* messages of the other end so far
  owner     \* is the owner in its loop?

calls == <<listed, channel, sender>>
wire == <<asked, answers, messages>>
pvars == <<link, finished, reader, hand, listed, channel, sender, asked,
           answers, messages, owner>>

Closed(r) == channel[r] \in {"answered", "nil"}

PTypeOK ==
  /\ link \in {"up", "broken", "closed"}
  /\ finished \in BOOLEAN
  /\ reader \in {"read", "answer", "message", "failure", "finish", "close",
                 "release", "gone"}
  /\ hand \subseteq Request
  /\ listed \subseteq Request
  /\ channel \in [Request -> {"none", "open", "full", "answered", "nil"}]
  /\ sender \in [Request -> {"idle", "stored", "waiting", "failed", "refused",
                          "done"}]
  /\ asked \subseteq Request
  /\ answers \subseteq Request
  /\ messages \in 0 .. MaxMessages
  /\ owner \in BOOLEAN

PInit ==
  /\ link = "up"
  /\ finished = FALSE
  /\ reader = "read"
  /\ hand = {}
  /\ listed = {}
  /\ channel = [r \in Request |-> "none"]
  /\ sender = [r \in Request |-> "idle"]
  /\ asked = {}
  /\ answers = {}
  /\ messages = 0
  /\ owner = TRUE

-----------------------------------------------------------------------------
(* RequestSend.                                                            *)

\* The channel is listed before the request is written.
Store(r) ==
  /\ sender[r] = "idle"
  /\ sender' = [sender EXCEPT ![r] = "stored"]
  /\ listed' = listed \cup {r}
  /\ channel' = [channel EXCEPT ![r] = "open"]
  /\ UNCHANGED <<link, finished, reader, hand, wire, owner>>

\* MessageSend.  It may also succeed for a while when the link is broken.
Write(r) ==
  /\ sender[r] = "stored"
  /\ link # "closed"
  /\ sender' = [sender EXCEPT ![r] = "waiting"]
  /\ asked' = IF link = "up" THEN asked \cup {r} ELSE asked
  /\ UNCHANGED <<link, finished, reader, hand, listed, channel, answers,
                 messages, owner>>

\* Mutant: the channel is neither taken from the list nor closed.
WriteFailOpen(r) ==
  /\ sender[r] = "stored"
  /\ link # "up"
  /\ sender' = [sender EXCEPT ![r] = "done"]
  /\ UNCHANGED <<link, finished, reader, hand, listed, channel, wire, owner>>

\* It fails: the channel is taken from the list,
WriteFail(r) ==
  /\ sender[r] = "stored"
  /\ link # "up"
  /\ sender' = [sender EXCEPT ![r] = "failed"]
  /\ listed' = listed \ {r}
  /\ UNCHANGED <<link, finished, reader, hand, channel, wire, owner>>

\* and closed, if connStop has not done so.
CloseFailed(r) ==
  /\ sender[r] = "failed"
  /\ sender' = [sender EXCEPT ![r] = "refused"]
  /\ channel' = [channel EXCEPT ![r] = CASE @ = "open" -> "nil"
                                          [] @ = "full" -> "answered"
                                          [] OTHER -> @]
  /\ UNCHANGED <<link, finished, reader, hand, listed, wire, owner>>

\* The caller takes what comes out of the channel.
Receive(r) ==
  /\ sender[r] = "waiting"
  /\ Closed(r)
  /\ sender' = [sender EXCEPT ![r] = "done"]
  /\ UNCHANGED <<link, finished, reader, hand, listed, channel, wire, owner>>

-----------------------------------------------------------------------------
(* The other end, the link, and the owner.                                 *)

Answer(r) ==
  /\ link = "up"
  /\ r \in asked
  /\ asked' = asked \ {r}
  /\ answers' = answers \cup {r}
  /\ UNCHANGED <<link, finished, reader, hand, calls, messages, owner>>

Break ==
  /\ link = "up"
  /\ link' = "broken"
  /\ UNCHANGED <<finished, reader, hand, calls, wire, owner>>

\* connServe, client.connRead: takes the message, and leaves after a failure
\* (a panic of mesProcess, or Finished).
OwnerTakes ==
  /\ owner
  /\ \/ reader = "message" /\ reader' = "read"
     \/ reader = "failure" /\ reader' = "finish"
  /\ UNCHANGED <<link, finished, hand, calls, wire, owner>>

\* Its context is done: it leaves, and the connection is closed behind it.
OwnerLeaves ==
  /\ owner
  /\ owner' = FALSE
  /\ link' = "closed"
  /\ UNCHANGED <<finished, reader, hand, calls, wire>>

-----------------------------------------------------------------------------
(* connRead and connStop.                                                  *)

\* An answer that finds its channel in the list takes it from there,
ReadAnswer(r) ==
  /\ reader = "read"
  /\ link # "closed"
  /\ r \in answers
  /\ answers' = answers \ {r}
  /\ IF r \in listed
       THEN /\ reader' = "answer"
            /\ hand' = {r}
            /\ listed' = listed \ {r}
       ELSE reader' = "message" /\ UNCHANGED <<hand, listed>>
  /\ UNCHANGED <<link, finished, channel, sender, asked, messages, owner>>

\* Mutant: the channel is not closed behind the answer.
PutAnswerOpen(r) ==
  /\ r \in hand
  /\ channel' = [channel EXCEPT ![r] = IF @ = "open" THEN "full" ELSE @]
  /\ reader' = "read"
  /\ hand' = {}
  /\ UNCHANGED <<link, finished, listed, sender, wire, owner>>

\* and is put there, with the channel closed behind it (connIncomingRes).
PutAnswer(r) ==
  /\ r \in hand
  /\ \/ /\ channel[r] = "open"
        /\ channel' = [channel EXCEPT ![r] = "full"]
        /\ UNCHANGED <<reader, hand>>
     \/ /\ channel[r] = "full"
        /\ channel' = [channel EXCEPT ![r] = "answered"]
        /\ reader' = "read" /\ hand' = {}
     \/ /\ Closed(r)
        /\ reader' = "read" /\ hand' = {}
        /\ UNCHANGED channel
  /\ UNCHANGED <<link, finished, listed, sender, wire, owner>>

ReadMessage ==
  /\ reader = "read"
  /\ link = "up"
  /\ messages < MaxMessages
  /\ messages' = messages + 1
  /\ reader' = "message"
  /\ UNCHANGED <<link, finished, hand, calls, asked, answers, owner>>

\* ReadMessage of the websocket fails, or what it reads is no message.
ReadFail ==
  /\ reader = "read"
  /\ \/ link # "up" /\ UNCHANGED messages
     \/ messages < MaxMessages /\ messages' = messages + 1
  /\ reader' = "failure"
  /\ UNCHANGED <<link, finished, hand, calls, asked, answers, owner>>

\* connStop: close(finished),
CloseFinished ==
  /\ reader = "finish"
  /\ finished' = TRUE
  /\ reader' = "close"
  /\ UNCHANGED <<link, hand, calls, wire, owner>>

\* conn.Close(),
CloseConn ==
  /\ reader = "close"
  /\ link' = "closed"
  /\ reader' = "release"
  /\ UNCHANGED <<finished, hand, calls, wire, owner>>

\* and every channel in the list is closed.
Release ==
  /\ reader = "release"
  /\ channel' = [r \in Request |->
                   IF r \in listed /\ channel[r] = "open" THEN "nil"
                   ELSE channel[r]]
  /\ reader' = "gone"
  /\ UNCHANGED <<link, finished, hand, listed, sender, wire, owner>>

\* Mutant: the channels are released before the connection is closed, so that
\* a request may still be written.
StopReleased ==
  \/ CloseFinished
  \/ /\ reader = "close"
     /\ channel' = [r \in Request |->
                      IF r \in listed /\ channel[r] = "open" THEN "nil"
                      ELSE channel[r]]
     /\ reader' = "release"
     /\ UNCHANGED <<link, finished, hand, listed, sender, wire, owner>>
  \/ /\ reader = "release"
     /\ link' = "closed"
     /\ reader' = "gone"
     /\ UNCHANGED <<finished, hand, calls, wire, owner>>

Stop == CloseFinished \/ CloseConn \/ Release

-----------------------------------------------------------------------------
Sender(r) == Write(r) \/ WriteFail(r) \/ CloseFailed(r) \/ Receive(r)

Reader == \/ \E r \in Request : ReadAnswer(r) \/ PutAnswer(r)
          \/ ReadMessage \/ ReadFail \/ Stop

PNext == \/ \E r \in Request : Store(r) \/ Sender(r) \/ Answer(r)
         \/ Break \/ OwnerTakes \/ OwnerLeaves
         \/ Reader

PSpec == PInit /\ [][PNext]_pvars

\* Every goroutine of this end gets on, and its owner's loop.  The other end
\* may never answer.
PFairSpec == /\ PSpec
             /\ \A r \in Request : WF_pvars(Sender(r))
             /\ WF_pvars(Reader)
             /\ WF_pvars(OwnerTakes)

-----------------------------------------------------------------------------
(* Properties.                                                             *)

\* When connRead has gone, a channel that is still open is one whose request is
\* yet to fail, or fails now: nobody waits for an answer that no one will put
\* (controller.go:93-111 against conn.go:112-126, which takes no lock).
NoneForgotten ==
  reader = "gone" =>
    \A r \in Request : channel[r] = "open" => sender[r] \in {"stored", "failed"}

\* A channel is in the list as long as it is open, except in the hands of one
\* who is going to close it.
ListedIfOpen ==
  \A r \in Request :
    channel[r] \in {"open", "full"} =>
      r \in listed \/ r \in hand \/ sender[r] = "failed"

\* "Chan closed with result.  If received nil - finished" (controller.go:22-23):
\* when the connection is lost, every request under way ends, as long as the
\* owner of the controller is there to take the failure.  (Once it has left,
\* connRead may wait for it for ever, conn.go:19-25, and connStop never runs.)
RequestEnds ==
  \A r \in Request :
    sender[r] # "idle" /\ link # "up" ~> Closed(r) \/ ~owner

\* Only when it is lost: with a link, nil is not an answer.
NilMeansFinished ==
  \A r \in Request : channel[r] = "nil" => link # "up"

\* The response channels: none is forgotten, at the end of connRead or before,
\* and none says "finished" too early.
ChannelsKept == NoneForgotten /\ ListedIfOpen /\ NilMeansFinished

\* To those who send requests all of this is Requests: what the caller of
\* RequestSend gets, error, answer or nil, is told in time and for good, whoever
\* of connRead, connStop and the goroutine of the call gets to the channel first
\* ("Chan closed with result.  If received nil - finished",
\* controller.go:22-23).
StateOf(r) ==
  IF sender[r] = "idle" THEN "new"
  ELSE IF sender[r] \in {"failed", "refused"} THEN "error"
  ELSE IF channel[r] \in {"full", "answered"} THEN "value"
  ELSE IF channel[r] = "nil" /\ sender[r] # "stored" THEN "nil"
  ELSE IF r \in asked THEN "asked"
  ELSE IF r \in answers \cup hand THEN "replied"
  ELSE "sent"

Promise == INSTANCE Requests WITH up <- link = "up",
                                  state <- [r \in Request |-> StateOf(r)]

ImplementsRequests == Promise!Spec

\* What has been read ends up with the caller: the answer of a waiting request,
\* whatever else connRead is busy with.
AnswerArrives ==
  \A r \in Request : r \in hand ~> channel[r] = "answered"

-----------------------------------------------------------------------------
(* The inductive invariant of the safety properties.                       *)

\* connRead has the answer it is putting, and no other.
OneInHand ==
  \/ reader = "answer" /\ \E r \in Request : hand = {r}
  \/ reader # "answer" /\ hand = {}

\* Whoever closes channels without an answer does so on a lost connection: a
\* request that could not be written, and connStop once it has closed it.
LostBefore ==
  /\ \A r \in Request : sender[r] \in {"failed", "refused"} => link # "up"
  /\ reader \in {"close", "release", "gone"} <=> finished
  /\ reader \in {"release", "gone"} => link = "closed"

\* Where a request is: with the other end, on its way back or in the hands of
\* connRead only once written, in one of these places, and listed until it is
\* read.  Its channel is nil because it failed or because all is over.
Placed(r) ==
  /\ sender[r] = "idle" <=> channel[r] = "none"
  /\ sender[r] = "stored" => r \in listed
  /\ sender[r] = "done" => Closed(r)
  /\ sender[r] \in {"failed", "refused"} =>
       r \notin listed /\ channel[r] \in {"open", "nil"}
  /\ r \in listed => sender[r] # "idle" /\ channel[r] \in {"open", "nil"}
  /\ r \in asked \cup answers =>
       r \in listed /\ sender[r] \in {"waiting", "done"}
  /\ r \notin asked \cap answers
  /\ r \in hand => /\ r \notin listed /\ sender[r] = "waiting"
                   /\ channel[r] \in {"open", "full"}
  /\ channel[r] = "full" => r \in hand
  /\ channel[r] = "nil" =>
       sender[r] \in {"failed", "refused"} \/ reader = "gone"
AllPlaced == \A r \in Request : Placed(r)

PIInv == PTypeOK /\ OneInHand /\ LostBefore /\ AllPlaced /\ ChannelsKept

=============================================================================
