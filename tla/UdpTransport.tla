---------------------------- MODULE UdpTransport ----------------------------
(***************************************************************************)
(* UdpTransport and UdpRequest.  StartListening, StopListening and Send    *)
(* run on the thread of the application; everything else runs on the       *)
(* strand, where each posted handler is a step.  The replies that come     *)
(* from the network may be lost, late, repeated or made up.  What has the  *)
(* name of something in TcpTransport has the prefix Udp.                   *)
(***************************************************************************)
EXTENDS Integers, FiniteSets

CONSTANTS
  Requests,     \* UdpRequest objects
  MaxId,        \* the largest request id; the next one is 0 again
  MaxSockets,   \* bound: sockets made
  MaxDatagrams  \* bound: datagrams received

\* Ids have 64 bits: a transport does not live to use one twice.
UdpAssumption ==
  /\ MaxId \in Nat /\ MaxSockets \in Nat /\ MaxDatagrams \in Nat
  /\ IsFiniteSet(Requests) /\ Cardinality(Requests) <= MaxId
  /\ "none" \notin Requests

VARIABLES
  socket,       \* socket_, 0 if null
  sockets,      \* open, reading (reads started), read (HandleReads posted),
                \* failed (HandleReads posted with an error), closing
                \* (CloseSocket posted), buffer (read_buffer_ of the socket)
  udp_listening,    \* no, resetting (StartListening has made its socket but not
                \* opened it), or yes: listening_port_ # 0
  next_request_id,
  outstanding,  \* outstanding_requests_: the request of an id, or None
  request,      \* state (unused, posted to DoSend, sent, dropped), immediate,
                \* elapsed (its time has run out), wait (progress of
                \* WaitForTimeout), outcomes (what the sender was told)
  dispatches,   \* DispatchMessages posted
  datagrams,    \* datagrams received so far
  late          \* a late or unexpected reply was ignored

udpVars == <<socket, sockets, udp_listening, next_request_id, outstanding, request,
          dispatches, datagrams, late>>

Ids == 0 .. MaxId
Sockets == 1 .. MaxSockets
None == "none"

\* What a datagram holds: an id that it replies to, 0 if it is not a reply, or
\* fewer or other bytes than its size field says.
Malformed == MaxId + 1
Contents == Ids \cup {Malformed}

NoSocket == [open |-> FALSE, reading |-> 0, read |-> 0, failed |-> 0,
             closing |-> FALSE, buffer |-> Malformed]

-----------------------------------------------------------------------------
(* A read on a socket that is not open fails at once.                      *)

StartRead(ss, s) ==
  IF ss[s].open THEN [ss EXCEPT ![s].reading = @ + 1]
                ELSE [ss EXCEPT ![s].failed = @ + 1]

NextId(id) == IF id = MaxId THEN 1 ELSE id + 1

UdpFresh(s) == s \in Sockets /\ sockets[s] = NoSocket /\ s # socket
              /\ \A t \in 1 .. s - 1 : sockets[t] # NoSocket

PostClose(ss) == IF socket = 0 THEN ss ELSE [ss EXCEPT ![socket].closing = TRUE]

-----------------------------------------------------------------------------
(* The calls of the application.                                           *)

UdpStopListening ==
  /\ udp_listening # "resetting"
  /\ sockets' = PostClose(sockets)
  /\ udp_listening' = "no"
  /\ UNCHANGED <<socket, next_request_id, outstanding, request, dispatches, datagrams, late>>

\* Up to the point where socket_ is the new socket, which is not open yet.
UdpStartListening(s) ==
  /\ udp_listening = "no"
  /\ UdpFresh(s)
  /\ sockets' = PostClose(sockets)
  /\ socket' = s
  /\ udp_listening' = "resetting"
  /\ UNCHANGED <<next_request_id, outstanding, request, dispatches, datagrams, late>>

\* The rest: opening fails, or binding fails and leaves an open socket, or the
\* transport listens.
OpenAndBind(opened, bound) ==
  /\ udp_listening = "resetting"
  /\ bound => opened
  /\ \E ss \in {[sockets EXCEPT ![socket].open = opened]} :
       sockets' = IF bound THEN StartRead(ss, socket) ELSE ss
  /\ udp_listening' = IF bound THEN "yes" ELSE "no"
  /\ UNCHANGED <<socket, next_request_id, outstanding, request, dispatches, datagrams, late>>

NewRequest(immediate) ==
  [state |-> "posted", immediate |-> immediate, elapsed |-> FALSE,
   wait |-> None, outcomes |-> {}]

UdpSend(r, immediate) ==
  /\ udp_listening # "resetting"
  /\ request[r].state = "unused"
  /\ request' = [request EXCEPT ![r] = NewRequest(immediate)]
  /\ UNCHANGED <<socket, sockets, udp_listening, next_request_id, outstanding, dispatches,
                 datagrams, late>>

-----------------------------------------------------------------------------
(* Handlers on the strand.                                                 *)

UdpCloseSocket(s) ==
  /\ sockets[s].closing
  /\ sockets' = [sockets EXCEPT ![s].open = FALSE, ![s].closing = FALSE, ![s].reading = 0,
                                ![s].failed = @ + sockets[s].reading]
  /\ UNCHANGED <<socket, udp_listening, next_request_id, outstanding, request, dispatches,
                 datagrams, late>>

\* Faulty variant of Dropped: the failure is not signalled.
SilentDropped(r) == [request EXCEPT ![r].state = "dropped"]

Dropped(r) == [request EXCEPT ![r].state = "dropped", ![r].outcomes = @ \cup {"error"}]

\* Opening or binding a socket for the request fails.
DoSendFails(r) ==
  /\ request[r].state = "posted"
  /\ socket = 0
  /\ request' = Dropped(r)
  /\ UNCHANGED <<socket, sockets, udp_listening, next_request_id, outstanding, dispatches,
                 datagrams, late>>

\* s: the socket used, a new one if there is none.  sent: send_to succeeds.
DoSend(r, s, sent) ==
  /\ request[r].state = "posted"
  /\ IF socket = 0 THEN UdpFresh(s) ELSE s = socket
  /\ socket' = s
  /\ sockets' = IF socket = 0 THEN StartRead([sockets EXCEPT ![s].open = TRUE], s) ELSE sockets
  /\ next_request_id' = NextId(next_request_id)
  /\ sent => sockets'[s].open
  /\ IF ~sent THEN request' = Dropped(r) /\ UNCHANGED outstanding
     ELSE IF request[r].immediate
       THEN request' = [request EXCEPT ![r].state = "sent"] /\ UNCHANGED outstanding
       ELSE /\ outstanding' = [outstanding EXCEPT ![next_request_id] = r]
            /\ request' = [request EXCEPT
                 ![r].state = "sent",
                 ![r].wait = IF request[r].elapsed THEN "posted" ELSE "pending"]
  /\ UNCHANGED <<udp_listening, dispatches, datagrams, late>>

\* Erasing a request destroys its timer, which aborts the wait.
Erase(id, outcome) ==
  /\ outstanding' = [outstanding EXCEPT ![id] = None]
  /\ request' = [request EXCEPT
       ![outstanding[id]].outcomes = @ \cup {outcome},
       ![outstanding[id]].wait = IF @ = "pending" THEN "aborted" ELSE @]

\* Faulty variant of Answer: the request waits on although it was answered.
WrongAnswer(id) ==
  /\ UNCHANGED outstanding
  /\ request' = [request EXCEPT ![outstanding[id]].outcomes = @ \cup {"reply"}]

\* A reply removes the request that it answers.
Answer(id) == Erase(id, "reply")

\* The reads of a socket share its buffer, and the next read is started on the
\* socket that is socket_ now.
HandleRead(s) ==
  LET taken   == [sockets EXCEPT ![s].read = @ - 1]
      content == sockets[s].buffer
      reply   == content \in Ids \ {0}
      isLate  == sockets[s].open /\ reply /\ outstanding[content] = None
  IN  /\ sockets[s].read > 0
      /\ sockets' = IF sockets[s].open /\ ~isLate THEN StartRead(taken, socket) ELSE taken
      /\ late' = (late \/ isLate)
      /\ IF sockets[s].open /\ content \in Ids /\ ~isLate
           THEN /\ dispatches' = dispatches + 1
                /\ IF reply THEN Answer(content) ELSE UNCHANGED <<outstanding, request>>
           ELSE UNCHANGED <<dispatches, outstanding, request>>
      /\ UNCHANGED <<socket, udp_listening, next_request_id, datagrams>>

\* HandleRead with an error.
HandleReadError(s) ==
  LET taken == [sockets EXCEPT ![s].failed = @ - 1]
  IN  /\ sockets[s].failed > 0
      /\ sockets' = IF sockets[s].open THEN StartRead(taken, socket) ELSE taken
      /\ UNCHANGED <<socket, udp_listening, next_request_id, outstanding, request, dispatches,
                     datagrams, late>>

\* Outside the strand.  r: the request that carries the response, or None.
UdpDispatchMessage(r, immediate) ==
  /\ dispatches > 0
  /\ dispatches' = dispatches - 1
  /\ IF r = None THEN UNCHANGED request
     ELSE /\ request[r].state = "unused"
          /\ request' = [request EXCEPT ![r] = NewRequest(immediate)]
  /\ UNCHANGED <<socket, sockets, udp_listening, next_request_id, outstanding, datagrams, late>>

IdOf(r) == {id \in Ids : outstanding[id] = r}

HandleTimeout(r) ==
  /\ request[r].wait \in {"posted", "aborted"}
  /\ IF request[r].wait = "posted" /\ IdOf(r) # {}
       THEN /\ outstanding' = [id \in Ids |-> IF id \in IdOf(r) THEN None ELSE outstanding[id]]
            /\ request' = [request EXCEPT ![r].wait = None,
                                          ![r].outcomes = @ \cup {"timeout"}]
       ELSE request' = [request EXCEPT ![r].wait = None] /\ UNCHANGED outstanding
  /\ UNCHANGED <<socket, sockets, udp_listening, next_request_id, dispatches, datagrams, late>>

-----------------------------------------------------------------------------
(* Time and the network.                                                   *)

UdpElapse(r) ==
  /\ request[r].state \in {"posted", "sent"}
  /\ ~request[r].immediate
  /\ ~request[r].elapsed
  /\ request' = [request EXCEPT ![r].elapsed = TRUE,
                                ![r].wait = IF @ = "pending" THEN "posted" ELSE @]
  /\ UNCHANGED <<socket, sockets, udp_listening, next_request_id, outstanding, dispatches,
                 datagrams, late>>

Receive(s, content) ==
  /\ sockets[s].reading > 0
  /\ datagrams < MaxDatagrams
  /\ datagrams' = datagrams + 1
  /\ sockets' = [sockets EXCEPT ![s].reading = @ - 1, ![s].read = @ + 1,
                                ![s].buffer = content]
  /\ UNCHANGED <<socket, udp_listening, next_request_id, outstanding, request, dispatches, late>>

-----------------------------------------------------------------------------
\* The first id is taken from the clock, so it is any but 0.
UdpInit ==
  /\ socket = 0
  /\ sockets = [s \in Sockets |-> NoSocket]
  /\ udp_listening = "no"
  /\ next_request_id \in Ids \ {0}
  /\ outstanding = [id \in Ids |-> None]
  /\ request = [r \in Requests |->
       [state |-> "unused", immediate |-> FALSE, elapsed |-> FALSE,
        wait |-> None, outcomes |-> {}]]
  /\ dispatches = 0
  /\ datagrams = 0
  /\ late = FALSE

UdpPosted ==
  \/ \E s \in Sockets : UdpCloseSocket(s) \/ HandleRead(s) \/ HandleReadError(s)
  \/ \E r \in Requests \cup {None}, immediate \in BOOLEAN : UdpDispatchMessage(r, immediate)

Sending(r) ==
  \/ DoSendFails(r)
  \/ \E s \in Sockets, sent \in BOOLEAN : DoSend(r, s, sent)

UdpNext ==
  \/ UdpStopListening
  \/ \E s \in Sockets : UdpStartListening(s)
  \/ \E opened, bound \in BOOLEAN : OpenAndBind(opened, bound)
  \/ \E r \in Requests, immediate \in BOOLEAN : UdpSend(r, immediate)
  \/ UdpPosted
  \/ \E r \in Requests : Sending(r) \/ HandleTimeout(r) \/ UdpElapse(r)
  \/ \E s \in Sockets, content \in Contents : Receive(s, content)

UdpSpec == UdpInit /\ [][UdpNext]_udpVars

-----------------------------------------------------------------------------
(* Properties.                                                             *)

\* Type invariant.
UdpTypeOK ==
  /\ socket \in 0 .. MaxSockets
  /\ sockets \in [Sockets -> [open : BOOLEAN, reading : Nat, read : Nat, failed : Nat,
                              closing : BOOLEAN, buffer : Contents]]
  /\ udp_listening \in {"no", "resetting", "yes"}
  /\ next_request_id \in Ids
  /\ outstanding \in [Ids -> Requests \cup {None}]
  /\ request \in [Requests -> [state : {"unused", "posted", "sent", "dropped"},
                               immediate : BOOLEAN, elapsed : BOOLEAN,
                               wait : {None, "pending", "posted", "aborted"},
                               outcomes : SUBSET {"error", "reply", "timeout"}]]
  /\ dispatches \in Nat
  /\ datagrams \in 0 .. MaxDatagrams
  /\ late \in BOOLEAN

\* "Removal of the request will cancel the WaitForTimeout operation": whichever
\* of a reply and the timeout comes first, the sender is told of one of them only.
OneOutcome == \A r \in Requests : Cardinality(request[r].outcomes) <= 1

\* A request is outstanding exactly as long as HandleTimeout will find it, and
\* no two ids stand for the same request.
OutstandingIsTimed ==
  \A r \in Requests :
    /\ Cardinality(IdOf(r)) <= 1
    /\ IdOf(r) # {} => request[r].wait \in {"pending", "posted"} /\ request[r].outcomes = {}
    /\ request[r].wait = "pending" => IdOf(r) # {} /\ ~request[r].elapsed

\* No request waits under id 0, which in a datagram means that it is no reply:
\* the reply to such a request would pass for a new message.
IdIsNotZero == next_request_id # 0 /\ outstanding[0] = None

\* While the transport listens, a read is started or its handler is posted, as
\* long as no late reply came.
ReadsUntilLate ==
  udp_listening = "yes" /\ ~late =>
    sockets[socket].reading + sockets[socket].read + sockets[socket].failed > 0

\* Whichever of a reply and the timeout comes first, the sender of a UDP request
\* is told of one of them only (HandleTimeout, DispatchMessage); a request is
\* outstanding under one id, not 0, exactly as long as HandleTimeout will find it;
\* and as long as no late reply came, a transport that listens has a read started
\* or its handler posted.
UdpIsKept == UdpTypeOK /\ OneOutcome /\ OutstandingIsTimed /\ IdIsNotZero /\ ReadsUntilLate

\* Every request that wants a reply ends with the reply or an error.
Settles(r) ==
  request[r].state = "posted" /\ ~request[r].immediate ~> request[r].outcomes # {}

\* "Late or unexpected reply is ignored": it does not keep the transport from
\* reading on.
LateReplyIsIgnored ==
  udp_listening = "yes" => sockets[socket].reading + sockets[socket].read + sockets[socket].failed > 0
=============================================================================
