---------------------------- MODULE NatPmpClient ----------------------------
(***************************************************************************)
(* NatPmpClient and NatPmpClientImpl: a client finds out whether the       *)
(* gateway speaks NAT-PMP by asking it for the public address, repeating   *)
(* the question a few times, and then sends the mapping requests that were *)
(* queued, one after the answer to the other.  Every receive writes into   *)
(* data_, so a handler sees what came last.  The gateway answers what it   *)
(* was asked; if it is not orderly it answers late, repeatedly or never.   *)
(***************************************************************************)
EXTENDS Integers, Sequences

CONSTANTS
  PmpPorts,      \* ports that the application maps, each once
  Tries,         \* the number of address requests sent, 9 in the code
  MaxResponses   \* bound: datagrams received from a gateway that is not orderly

ASSUME NatPmpAssumption ==
  PmpPorts \subseteq Nat \ {0} /\ Tries \in Nat \ {0} /\ MaxResponses \in Nat

VARIABLES
  orderly,   \* the gateway answers each request once, in time, without error,
             \* and the application does not stop the client
  impl,      \* NatPmpClient::impl_: none, set, or destroyed.  A second Start would
             \* make another one; the first is followed.
  socket,    \* socket_: none, allocated, or open
  connect,   \* async_connect: none, pending
  known,     \* m_public_ip_address_ was received
  retry_count,
  timer,     \* the wait on retry_timer_: none, waiting, expired or aborted
  unsent,    \* ports not yet passed to MapPort
  posted,    \* DoSendMappingRequests posted
  queue,     \* request_queue_
  mappings,  \* mappings_, as ports
  sends,     \* HandleSends to run
  receives,  \* receives started
  received,  \* HandleReceiveFroms to run
  data,      \* data_ and endpoint_: what the latest response is about
  questions,     \* how often the gateway was asked for what
  responses, \* datagrams received
  undefined  \* the program did something undefined: front() of an empty queue,
             \* a call through the null socket_, a handler of a destroyed object

socketVars == <<impl, socket, connect>>
retryVars == <<known, retry_count, timer>>
queueVars == <<unsent, posted, queue, mappings>>
netVars == <<sends, receives, received, data, questions, responses>>
pmpState == <<socketVars, retryVars, queueVars, netVars, undefined>>
pmpVars == <<orderly, pmpState>>

\* A mapping request: a lifetime of 0 removes the mapping.
Request(port, lifetime) == [port |-> port, lifetime |-> lifetime]
MapRequests == {Request(p, l) : p \in PmpPorts, l \in {0, 1}}

\* What is not a mapping: the address request and its answer, and a response
\* from elsewhere or with another result code than 0.
Address == [port |-> 0, lifetime |-> 0]
Failure == [port |-> 0, lifetime |-> 1]
Questions == MapRequests \cup {Address}

IsOpen == socket = "open"

In(x, s) == \E i \in DOMAIN s : s[i] = x

-----------------------------------------------------------------------------
(* The application.                                                        *)

\* ok: the default route was found.  Connecting opens the socket.
Start(ok) ==
  /\ impl = "none"
  /\ impl' = "set"
  /\ socket' = IF ok THEN "open" ELSE "allocated"
  /\ connect' = IF ok THEN "pending" ELSE connect
  /\ UNCHANGED <<retryVars, queueVars, netVars, undefined>>

\* What the handlers call: the removals are posted before the socket is closed.
StopImpl ==
  /\ socket' = IF IsOpen THEN "none" ELSE socket
  /\ posted' = IF IsOpen THEN posted \o [i \in DOMAIN mappings |-> Request(mappings[i], 0)] ELSE posted
  /\ connect' = IF IsOpen THEN "none" ELSE connect
  /\ receives' = IF IsOpen THEN 0 ELSE receives

\* NatPmpClient::Stop destroys the implementation too, and with it its timer.
\* Handlers of aborted operations touch nothing.
Stop ==
  /\ impl = "set"
  /\ ~orderly
  /\ impl' = "destroyed"
  /\ StopImpl
  /\ timer' = IF timer = "waiting" THEN "aborted" ELSE timer
  /\ UNCHANGED <<known, retry_count, unsent, queue, mappings, sends, received, data, questions,
                 responses, undefined>>

MapPort(p) ==
  /\ impl = "set"
  /\ p \in unsent
  /\ unsent' = unsent \ {p}
  /\ posted' = Append(posted, Request(p, 1))
  /\ UNCHANGED <<socketVars, retryVars, queue, mappings, netVars, undefined>>

-----------------------------------------------------------------------------
(* Sending.                                                                *)

DoSendMappingRequest ==
  /\ posted # <<>>
  /\ posted' = Tail(posted)
  /\ queue' = IF IsOpen THEN Append(queue, Head(posted)) ELSE queue
  /\ undefined' = (impl = "destroyed")
  /\ UNCHANGED <<socketVars, retryVars, unsent, mappings, netVars>>

AskGateway(question) == questions' = [questions EXCEPT ![question] = @ + 1]

\* SendRequest, on a socket that the callers know to be there or test for.
SendRequest(question) ==
  IF IsOpen THEN AskGateway(question) /\ sends' = sends + 1 ELSE UNCHANGED <<questions, sends>>

SendQueuedRequests(q) ==
  IF IsOpen /\ q # <<>> THEN SendRequest(Head(q)) ELSE UNCHANGED <<questions, sends>>

SendPublicAddressRequest ==
  /\ SendRequest(Address)
  /\ retry_count' = 1
  /\ timer' = "waiting"

HandleConnect(ok) ==
  /\ connect = "pending"
  /\ orderly => ok
  /\ IF ok
       THEN /\ SendPublicAddressRequest
            /\ connect' = "none"
            /\ UNCHANGED <<socket, posted, receives>>
       ELSE /\ StopImpl
            /\ UNCHANGED <<questions, sends, retry_count, timer>>
  /\ UNCHANGED <<impl, known, unsent, queue, mappings, received, data, responses, undefined>>

\* Faulty variant of RetransmitPublicAdddressRequest: the last try is not waited for.
SilentRetransmitPublicAdddressRequest ==
  /\ timer \in {"expired", "aborted"}
  /\ IF timer = "expired" /\ ~known /\ retry_count < Tries
       THEN /\ retry_count' = retry_count + 1
            /\ SendRequest(Address)
            /\ timer' = IF retry_count' = Tries THEN "none" ELSE "waiting"
       ELSE timer' = "none" /\ UNCHANGED <<retry_count, questions, sends>>
  /\ UNCHANGED <<socketVars, known, queueVars, receives, received, data, responses, undefined>>

RetransmitPublicAdddressRequest ==
  /\ timer \in {"expired", "aborted"}
  /\ IF timer = "expired" /\ retry_count >= Tries
       THEN /\ StopImpl
            /\ timer' = "none"
            /\ UNCHANGED <<retry_count, questions, sends>>
     ELSE /\ UNCHANGED <<socket, posted, connect, receives>>
          /\ IF timer = "expired" /\ ~known
               THEN /\ retry_count' = retry_count + 1
                    /\ SendRequest(Address)
                    /\ timer' = "waiting"
               ELSE timer' = "none" /\ UNCHANGED <<retry_count, questions, sends>>
  /\ undefined' = (impl = "destroyed" /\ timer = "expired")
  /\ UNCHANGED <<impl, known, unsent, queue, mappings, received, data, responses>>

\* Each send that succeeds starts a receive of its own.
HandleSend(ok) ==
  /\ sends > 0
  /\ orderly => ok
  /\ sends' = sends - 1
  /\ undefined' = (ok /\ socket = "none")
  /\ receives' = IF ok /\ IsOpen THEN receives + 1 ELSE receives
  /\ UNCHANGED <<socketVars, retryVars, queueVars, received, data, questions, responses>>

-----------------------------------------------------------------------------
(* Receiving.                                                              *)

\* The answer to the address request.
AddressReceived ==
  /\ known' = TRUE
  /\ timer' = IF timer = "waiting" THEN "aborted" ELSE timer
  /\ SendQueuedRequests(queue)
  /\ UNCHANGED <<queue, mappings>>

\* The mapping is noted, if it is new.
Noted(p) == IF In(p, mappings) THEN mappings ELSE Append(mappings, p)

\* Faulty variant of MappingReceived: it sends before it takes the request off.
EarlyMappingReceived ==
  /\ mappings' = Noted(Head(queue).port)
  /\ queue' = Tail(queue)
  /\ SendQueuedRequests(queue)
  /\ UNCHANGED <<known, timer>>

\* The answer to a mapping request, taken for the answer to the first in the queue.
MappingReceived ==
  /\ mappings' = Noted(Head(queue).port)
  /\ queue' = Tail(queue)
  /\ SendQueuedRequests(Tail(queue))
  /\ UNCHANGED <<known, timer>>

\* A response from elsewhere, or one that reports a failure, changes nothing.
HandleResponse ==
  \/ data = Address /\ AddressReceived /\ UNCHANGED undefined
  \/ data \in MapRequests /\ queue # <<>> /\ MappingReceived /\ UNCHANGED undefined
  \/ /\ data \in MapRequests /\ queue = <<>> /\ undefined' = TRUE
     /\ UNCHANGED <<known, timer, mappings, queue, questions, sends>>
  \/ data \notin Questions /\ UNCHANGED <<known, timer, mappings, queue, questions, sends, undefined>>

HandleReceiveFrom ==
  /\ received > 0
  /\ received' = received - 1
  /\ IF IsOpen
       THEN HandleResponse /\ receives' = receives + 1
       ELSE \* the response is handled, and the next receive is started on null
            /\ undefined' = TRUE
            /\ UNCHANGED <<known, timer, mappings, queue, questions, sends, receives>>
  /\ UNCHANGED <<socketVars, retry_count, unsent, posted, data, responses>>

\* HandleReceiveFrom with an error: the gateway refuses.
ReceiveError ==
  /\ receives > 0
  /\ ~orderly
  /\ StopImpl
  /\ UNCHANGED <<impl, retryVars, unsent, queue, mappings, sends, received, data, questions,
                 responses, undefined>>

-----------------------------------------------------------------------------
(* The gateway and the clock.                                              *)

GatewayResponds(question) ==
  /\ receives > 0
  /\ ~orderly => responses < MaxResponses
  /\ questions[question] > 0
  /\ data' \in IF orderly THEN {question} ELSE {question, Failure}
  /\ orderly => received = 0
  /\ questions' = IF orderly THEN [questions EXCEPT ![question] = @ - 1] ELSE questions
  /\ responses' = responses + 1
  /\ receives' = receives - 1
  /\ received' = received + 1
  /\ UNCHANGED <<socketVars, retryVars, queueVars, sends, undefined>>

Expire ==
  /\ timer = "waiting"
  /\ ~orderly
  /\ timer' = "expired"
  /\ UNCHANGED <<socketVars, known, retry_count, queueVars, netVars, undefined>>

PmpInit ==
  /\ orderly \in BOOLEAN
  /\ impl = "none" /\ socket = "none" /\ connect = "none"
  /\ known = FALSE /\ retry_count = 0 /\ timer = "none"
  /\ unsent = PmpPorts /\ posted = <<>> /\ queue = <<>> /\ mappings = <<>>
  /\ sends = 0 /\ receives = 0 /\ received = 0 /\ data = Failure
  /\ questions = [q \in Questions |-> 0] /\ responses = 0
  /\ undefined = FALSE

Posted ==
  \/ DoSendMappingRequest
  \/ \E ok \in BOOLEAN : HandleConnect(ok) \/ HandleSend(ok)
  \/ HandleReceiveFrom
  \/ RetransmitPublicAdddressRequest

PmpNext ==
  /\ ~undefined /\ UNCHANGED orderly
  /\ \/ \E ok \in BOOLEAN : Start(ok)
     \/ Stop
     \/ \E p \in PmpPorts : MapPort(p)
     \/ Posted
     \/ ReceiveError
     \/ \E q \in Questions : GatewayResponds(q)
     \/ Expire

PmpSpec == PmpInit /\ [][PmpNext]_pmpVars

-----------------------------------------------------------------------------
(* Properties.                                                             *)

\* Type invariant.
PmpTypeOK ==
  /\ impl \in {"none", "set", "destroyed"} /\ known \in BOOLEAN /\ undefined \in BOOLEAN
  /\ socket \in {"none", "allocated", "open"}
  /\ connect \in {"none", "pending"}
  /\ timer \in {"none", "waiting", "expired", "aborted"}
  /\ retry_count \in 0 .. Tries
  /\ queue \in Seq(MapRequests) /\ posted \in Seq(MapRequests)
  /\ mappings \in Seq(PmpPorts)
  /\ sends \in Nat /\ receives \in Nat /\ received \in Nat

\* RetransmitPublicAdddressRequest asks for the address only while it is unknown,
\* although its timer may have expired before the answer was handled.
NoQuestionOnceKnown ==
  [][known => questions'[Address] <= questions[Address]]_pmpVars

\* The first request in the queue is the one that an answer on its way belongs to, and
\* no other mapping request is on its way.
HeadIsMeant ==
  \A q \in MapRequests :
    /\ questions[q] > 0 \/ (received > 0 /\ data = q) => queue # <<>> /\ Head(queue) = q
    /\ questions[q] <= 1

\* A port is mapped once its request has left the queue: none is passed over.
Conserved ==
  \A p \in PmpPorts :
    IsOpen => p \in unsent \/ In(Request(p, 1), posted) \/ In(Request(p, 1), queue) \/ In(p, mappings)

\* With an orderly gateway HandleResponse finds the request of an answer in
\* request_queue_: it is the first, no other mapping request is on its way, and the
\* client does nothing undefined.  Whatever the gateway does, a port is mapped once its
\* request has left the queue.
AnswerMeetsItsRequest ==
  PmpTypeOK /\ Conserved /\ (orderly => HeadIsMeant /\ ~undefined)
=============================================================================
