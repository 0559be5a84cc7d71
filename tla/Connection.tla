----------------------------- MODULE Connection -----------------------------
(***************************************************************************)
(* One connection to a broker: goroutines that call a Conn, and the path   *)
(* of their requests through the server (handleRequest, requestCh,         *)
(* Broker.Run, responseCh, the response loop) and back.                    *)
(*                                                                         *)
(* A handler that runs under withTimeout may go on in a goroutine of its   *)
(* own after Run has answered: at once when the request gives no timeout,  *)
(* or when the timer was faster.  What a handler does to the broker, the   *)
(* append to a log or the creation of a topic, is one step.                *)
(*                                                                         *)
(* A request and its response are the correlation ID they carry.  The      *)
(* section of doRequest under wlock is one step: only correlationID can be *)
(* seen from outside, and it is read there without the lock.  A caller     *)
(* that peeks at another one's response, or at a broken connection, tries  *)
(* again, which changes nothing.  Deadlines are not set, as in the broker. *)
(* A response that is cut off in its body is gone, while readResponse      *)
(* leaves the part it has in rbuf, on a connection that is then closed.    *)
(***************************************************************************)
EXTENDS Naturals, Sequences, Functions, FiniteSets

CONSTANTS
  Callers,     \* goroutines that share the Conn
  None,
  ChanCap,     \* capacity of requestCh and of responseCh
  MaxCalls,    \* bound: how many requests are made
  MaxUnwaited, \* bound: how many of them are answered before they are handled
  MayBreak     \* whether the connection can be lost

ASSUME NoneAssumption == None \notin Callers
ASSUME ChanCapAssumption == ChanCap \in Nat \ {0}
ASSUME MaxCallsAssumption == MaxCalls \in Nat /\ MaxUnwaited \in Nat
ASSUME MayBreakAssumption == MayBreak \in BOOLEAN

VARIABLES
  correlationID,  \* Conn.correlationID
  pc,             \* each caller: "idle", "sent", "wait", "read"
  sent,           \* the ID of the request each caller wrote
  id,             \* the ID each caller waits for
  rlock,          \* the holder of Conn.rlock once its response is at the head
  up,             \* the connection is not closed
  requests,       \* on the way to the server
  requestCh, running, responseCh,  \* the server; running: what Broker.Run handles
  responses,      \* on the way back, or in rbuf
  late,           \* handlers still at work whose timer has fired
  behind,         \* handlers still at work that nobody waits for
  unwaited,       \* the requests answered without waiting for their handler
  effects,        \* the requests in the order they took effect
  cut,            \* the server has the beginning of a request and no more
  alive           \* the broker's process

callers == <<correlationID, pc, sent, id, rlock>>
queues == <<requestCh, running, responseCh>>
handlers == <<late, behind, unwaited, effects>>
server == <<queues, handlers, alive>>
network == <<up, requests, responses, cut>>
vars == <<callers, server, network>>

IDs == 0 .. MaxCalls

TypeOK ==
  /\ correlationID \in IDs
  /\ pc \in [Callers -> {"idle", "sent", "wait", "read"}]
  /\ sent \in [Callers -> IDs]
  /\ id \in [Callers -> IDs]
  /\ rlock \in Callers \cup {None}
  /\ up \in BOOLEAN
  /\ requests \in Seq(IDs) /\ responses \in Seq(IDs)
  /\ requestCh \in Seq(IDs) /\ Len(requestCh) <= ChanCap
  /\ running \in Seq(IDs) /\ Len(running) <= 1
  /\ responseCh \in Seq(IDs) /\ Len(responseCh) <= ChanCap
  /\ late \subseteq IDs /\ behind \subseteq IDs /\ unwaited \subseteq IDs
  /\ effects \in Seq(IDs)
  /\ cut \in BOOLEAN /\ alive \in BOOLEAN

Init ==
  /\ correlationID = 0
  /\ pc = [c \in Callers |-> "idle"]
  /\ sent = [c \in Callers |-> 0]
  /\ id = [c \in Callers |-> 0]
  /\ rlock = None
  /\ up = TRUE
  /\ requests = <<>> /\ responses = <<>>
  /\ requestCh = <<>> /\ running = <<>> /\ responseCh = <<>>
  /\ late = {} /\ behind = {} /\ unwaited = {} /\ effects = <<>>
  /\ cut = FALSE /\ alive = TRUE

-----------------------------------------------------------------------------
\* The client

\* doRequest up to wlock.Unlock: a write error closes the connection and is dropped.
DoRequest(c) ==
  /\ pc[c] = "idle"
  /\ correlationID < MaxCalls
  /\ correlationID' = correlationID + 1
  /\ sent' = [sent EXCEPT ![c] = correlationID + 1]
  /\ requests' = IF up THEN Append(requests, correlationID + 1) ELSE requests
  /\ pc' = [pc EXCEPT ![c] = "sent"]
  /\ UNCHANGED <<id, rlock, server, up, responses, cut>>

\* "return c.correlationID, nil", after wlock.Unlock.
ReturnID(c) ==
  /\ pc[c] = "sent"
  /\ id' = [id EXCEPT ![c] = correlationID]
  /\ pc' = [pc EXCEPT ![c] = "wait"]
  /\ UNCHANGED <<correlationID, sent, rlock, server, network>>

\* Mutant: any response will do.
WaitAnyResponse(c) ==
  /\ pc[c] = "wait"
  /\ rlock = None
  /\ responses # <<>>
  /\ responses' = Tail(responses)
  /\ rlock' = c
  /\ id' = [id EXCEPT ![c] = Head(responses)]
  /\ pc' = [pc EXCEPT ![c] = "read"]
  /\ UNCHANGED <<correlationID, sent, server, up, requests, cut>>

\* waitResponse: the response at the head is the one waited for.
WaitResponse(c) ==
  /\ pc[c] = "wait"
  /\ rlock = None
  /\ responses # <<>> /\ Head(responses) = id[c]
  /\ responses' = Tail(responses)
  /\ rlock' = c
  /\ pc' = [pc EXCEPT ![c] = "read"]
  /\ UNCHANGED <<correlationID, sent, id, server, up, requests, cut>>

\* The connection is lost, and with it the end of what was on the way; the
\* server may be left with a part of the next request.
Lose ==
  /\ MayBreak
  /\ up' = FALSE
  /\ \E n \in 0 .. Len(requests) :
       /\ requests' = SubSeq(requests, 1, n)
       /\ cut' \in {cut, cut \/ n < Len(requests)}
  /\ \E n \in 0 .. Len(responses) : responses' = SubSeq(responses, 1, n)

\* Mutant: rlock is not released.
ReadResponseLocked(c) ==
  /\ pc[c] = "read"
  /\ pc' = [pc EXCEPT ![c] = "idle"]
  /\ Lose \/ UNCHANGED network
  /\ UNCHANGED <<correlationID, sent, id, rlock, server>>

\* readResponse and the end of do; an error in reading closes the connection.
ReadResponse(c) ==
  /\ pc[c] = "read"
  /\ pc' = [pc EXCEPT ![c] = "idle"]
  /\ rlock' = None
  /\ Lose \/ UNCHANGED network
  /\ UNCHANGED <<correlationID, sent, id, server>>

-----------------------------------------------------------------------------
\* The server

\* A goroutine panics: the process ends and what it had queued is gone.
Panic ==
  /\ alive' = FALSE
  /\ requestCh' = <<>> /\ running' = <<>> /\ responseCh' = <<>>
  /\ late' = {} /\ behind' = {}
  /\ up' = FALSE /\ requests' = <<>> /\ cut' = FALSE
  /\ \E n \in 0 .. Len(responses) : responses' = SubSeq(responses, 1, n)

\* handleRequest reads a request and queues it, blocked while requestCh is full.
HandleRequest ==
  /\ alive
  /\ requests # <<>>
  /\ Len(requestCh) < ChanCap
  /\ requestCh' = Append(requestCh, Head(requests))
  /\ requests' = Tail(requests)
  /\ UNCHANGED <<callers, running, responseCh, handlers, alive, up, responses, cut>>

\* handleRequest panics when the connection ends within a request.
HandleCut ==
  /\ alive
  /\ requests = <<>> /\ cut
  /\ Panic
  /\ UNCHANGED <<callers, unwaited, effects>>

\* Broker.Run takes the next request ...
RunTake ==
  /\ running = <<>> /\ requestCh # <<>>
  /\ running' = <<Head(requestCh)>>
  /\ requestCh' = Tail(requestCh)
  /\ UNCHANGED <<callers, responseCh, handlers, alive, network>>

\* The request Run has in hand, the handler not through with it.
Handling(i) == running = <<i>> /\ i \notin unwaited \cup Range(effects)

\* ... its handler returns, without withTimeout or before the timer ...
RunHandle ==
  /\ \E i \in IDs : Handling(i) /\ effects' = Append(effects, i)
  /\ UNCHANGED <<callers, queues, late, behind, unwaited, alive, network>>

\* ... or withTimeout returns ErrRequestTimedOut, the channel its handler will
\* send to closed ...
RunTimeout ==
  /\ Cardinality(unwaited) < MaxUnwaited
  /\ \E i \in IDs : Handling(i) /\ late' = late \cup {i} /\ unwaited' = unwaited \cup {i}
  /\ UNCHANGED <<callers, queues, behind, effects, alive, network>>

\* ... or, with no timeout, ErrNone at once ...
RunNoWait ==
  /\ Cardinality(unwaited) < MaxUnwaited
  /\ \E i \in IDs : Handling(i) /\ behind' = behind \cup {i} /\ unwaited' = unwaited \cup {i}
  /\ UNCHANGED <<callers, queues, late, effects, alive, network>>

\* A handler that was not waited for gets done; sending its result panics when
\* the timer has closed the channel.
LateReturns(i) ==
  /\ i \in late
  /\ effects' = Append(effects, i)
  /\ Panic
  /\ UNCHANGED <<callers, unwaited>>

BehindReturns(i) ==
  /\ i \in behind
  /\ effects' = Append(effects, i)
  /\ behind' = behind \ {i}
  /\ UNCHANGED <<callers, queues, late, unwaited, alive, network>>

\* Mutants: a full responseCh drops the response; when it is full the response is
\* written to the connection; the response does not wait for the handler.
RunReplyOrDrop ==
  /\ running # <<>> /\ ~Handling(running[1])
  /\ responseCh' = IF Len(responseCh) < ChanCap THEN responseCh \o running ELSE responseCh
  /\ running' = <<>>
  /\ UNCHANGED <<callers, requestCh, handlers, alive, network>>

RunReplyDirect ==
  /\ running # <<>> /\ ~Handling(running[1])
  /\ IF Len(responseCh) < ChanCap
     THEN responseCh' = responseCh \o running /\ UNCHANGED network
     ELSE responses' = responses \o running /\ UNCHANGED <<responseCh, up, requests, cut>>
  /\ running' = <<>>
  /\ UNCHANGED <<callers, requestCh, handlers, alive>>

RunReplyAtOnce ==
  /\ running # <<>>
  /\ Len(responseCh) < ChanCap
  /\ responseCh' = responseCh \o running
  /\ running' = <<>>
  /\ UNCHANGED <<callers, requestCh, handlers, alive, network>>

\* ... and queues its response, blocked while responseCh is full.
RunReply ==
  /\ running # <<>> /\ ~Handling(running[1])
  /\ Len(responseCh) < ChanCap
  /\ responseCh' = responseCh \o running
  /\ running' = <<>>
  /\ UNCHANGED <<callers, requestCh, handlers, alive, network>>

\* The response loop of Start and handleResponse: an error is only logged.
HandleResponse ==
  /\ responseCh # <<>>
  /\ responseCh' = Tail(responseCh)
  /\ responses' = IF up THEN Append(responses, Head(responseCh)) ELSE responses
  /\ UNCHANGED <<callers, requestCh, running, handlers, alive, up, requests, cut>>

\* The network fails, or the other side goes away.
Break ==
  /\ up
  /\ Lose
  /\ UNCHANGED <<callers, server>>

Next ==
  \/ \E c \in Callers : DoRequest(c) \/ ReturnID(c) \/ WaitResponse(c) \/ ReadResponse(c)
  \/ HandleRequest \/ HandleCut
  \/ RunTake \/ RunHandle \/ RunTimeout \/ RunNoWait \/ RunReply
  \/ \E i \in IDs : LateReturns(i) \/ BehindReturns(i)
  \/ HandleResponse \/ Break

Spec == Init /\ [][Next]_vars

\* Every goroutine that can go on does; nobody has to call and nothing has to break.
\* Handlers return, if nobody waits for them perhaps never: a fetch at the end of the
\* log spins.
FairSpec ==
  /\ Spec
  /\ \A c \in Callers : WF_vars(ReturnID(c)) /\ WF_vars(WaitResponse(c)) /\ WF_vars(ReadResponse(c))
  /\ WF_vars(HandleRequest) /\ WF_vars(RunTake)
  /\ WF_vars(RunHandle \/ RunTimeout \/ RunNoWait) /\ WF_vars(RunReply) /\ WF_vars(HandleResponse)

-----------------------------------------------------------------------------
\* Properties

\* What has been sent and not been taken by a caller, the oldest first.
Path == responses \o responseCh \o running \o requestCh \o requests

\* The server answers in the order it was asked: requestCh, Broker.Run, responseCh and
\* the response loop keep the requests of a connection in the order doRequest numbered
\* them, also when the connection is lost half way.
AnsweredInOrder == \A i, j \in DOMAIN Path : i < j => Path[i] < Path[j]

\* A caller that finds a response at the head reads the one to its own request,
\* although doRequest returns a correlation ID that another caller may have changed
\* since.  What is left of a response that was cut off is no response.
OwnResponse == \A c \in Callers : pc[c] = "read" => id[c] = sent[c]

\* While the connection is up, the request of a caller that still waits, or its
\* response, is on the path: nobody drops it or takes it away.
NothingLost == \A c \in Callers : up /\ pc[c] \in {"sent", "wait"} => \E i \in DOMAIN Path : Path[i] = sent[c]

\* The response to a request, unless it was one nobody waited to be handled, is sent
\* after the request took effect, and the effect of a later request never comes
\* before it: a timeout is the only way in which the requests of a connection overtake
\* one another.
EffectBeforeAnswer ==
  /\ \A r \in Range(responses \o responseCh) \ unwaited : r \in Range(effects)
  /\ \A i, j \in DOMAIN effects : i < j /\ effects[i] > effects[j] => effects[j] \in unwaited

\* Every call returns, with the response or an error, as long as the connection is up
\* and no call gets the correlation ID of a later one from doRequest.
EveryCallReturns ==
  [](up /\ \A c \in Callers : pc[c] = "wait" => id[c] = sent[c]) =>
    \A c \in Callers : pc[c] # "idle" ~> pc[c] = "idle"
=============================================================================
