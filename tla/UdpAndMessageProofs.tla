------------------------ MODULE UdpAndMessageProofs -------------------------
(***************************************************************************)
(* Proofs about UdpTransport, for every number of requests, ids, sockets   *)
(* and datagrams, and about MessageHandlers, for any two nodes.            *)
(***************************************************************************)
EXTENDS UdpTransport, MessageHandlers, FiniteSetTheorems, TLAPS

\* Requests that DoSend has taken from the strand.
Used == {r \in Requests : request[r].state \in {"sent", "dropped"}}

\* How many ids ago id was given out, counting round the ids from 1 to MaxId.
Behind(id, next) == IF id < next THEN next - id ELSE next + MaxId - id

\* A request has one outcome, and none before it was sent; one whose timer runs
\* is outstanding.
RequestInv ==
  \A r \in Requests :
    /\ \A x, y \in request[r].outcomes : x = y
    /\ request[r].state \in {"unused", "posted"} =>
         request[r].wait = None /\ request[r].outcomes = {}
    /\ request[r].wait = "pending" =>
         ~request[r].elapsed /\ \E id \in Ids : outstanding[id] = r

\* An outstanding request was sent, has no outcome yet, its timeout will come, it
\* has one id, and that was given out as many ids ago as requests have been used
\* since, at most: so the next id is not outstanding.
IdInv ==
  /\ next_request_id # 0
  /\ \A id \in Ids : outstanding[id] # None =>
       /\ id # 0
       /\ request[outstanding[id]].state = "sent"
       /\ request[outstanding[id]].wait \in {"pending", "posted"}
       /\ request[outstanding[id]].outcomes = {}
       /\ \A other \in Ids : outstanding[other] = outstanding[id] => other = id
       /\ Behind(id, next_request_id) <= Cardinality(Used)

\* The socket of a transport that listens is open, nobody is about to close it,
\* and it has a read started or a handler posted until a late reply comes.
SocketInv ==
  /\ socket = 0 => \A s \in Sockets : sockets[s] = NoSocket
  /\ udp_listening # "no" => socket # 0 /\ ~sockets[socket].closing
  /\ udp_listening = "yes" => sockets[socket].open
  /\ ReadsUntilLate

\* The inductive invariant.
IInv == UdpTypeOK /\ RequestInv /\ IdInv /\ SocketInv

\* What is kept of one socket.
SocketStates == [open : BOOLEAN, reading : Nat, read : Nat, failed : Nat,
                 closing : BOOLEAN, buffer : Contents]

\* A read is started or its handler posted.
InUse(c) == c.reading + c.read + c.failed > 0

\* StartRead keeps the types, opens and closes nothing, and leaves the socket with
\* something to wait for.
LEMMA StartReadKeeps ==
  ASSUME NEW ss \in [Sockets -> SocketStates], NEW s \in Sockets
  PROVE  /\ StartRead(ss, s) \in [Sockets -> SocketStates]
         /\ StartRead(ss, s)[s].open = ss[s].open
         /\ StartRead(ss, s)[s].closing = ss[s].closing
         /\ InUse(StartRead(ss, s)[s])
<1> USE DEF InUse
<1>1. CASE ss[s].open
  <2>1. StartRead(ss, s) = [ss EXCEPT ![s] = [ss[s] EXCEPT !.reading = ss[s].reading + 1]]
    BY <1>1 DEF StartRead
  <2>. QED BY <2>1 DEF SocketStates
<1>2. CASE ~ss[s].open
  <2>1. StartRead(ss, s) = [ss EXCEPT ![s] = [ss[s] EXCEPT !.failed = ss[s].failed + 1]]
    BY <1>2 DEF StartRead
  <2>. QED BY <2>1 DEF SocketStates
<1>. QED BY <1>1, <1>2

\* A step that leaves the requests and their ids alone keeps what is said of them.
LEMMA RequestsAlone ==
  ASSUME RequestInv, IdInv, UNCHANGED <<request, outstanding, next_request_id>>
  PROVE  RequestInv' /\ IdInv'
BY DEF RequestInv, IdInv, Used

\* A step that leaves the sockets alone keeps what is said of them.
LEMMA SocketsAlone ==
  ASSUME SocketInv, UNCHANGED <<socket, sockets, udp_listening, late>>
  PROVE  SocketInv'
BY DEF SocketInv, ReadsUntilLate

-----------------------------------------------------------------------------
(* Sockets.                                                                *)

\* Posting the close of the current socket touches no other.
LEMMA PostCloseType ==
  ASSUME UdpTypeOK
  PROVE  /\ PostClose(sockets) \in [Sockets -> SocketStates]
         /\ \A s \in Sockets : s # socket => PostClose(sockets)[s] = sockets[s]
<1>1. sockets \in [Sockets -> SocketStates] /\ socket \in 0 .. MaxSockets
  BY DEF UdpTypeOK, SocketStates
<1>2. CASE socket = 0
  BY <1>1, <1>2 DEF PostClose
<1>3. CASE socket # 0
  <2> DEFINE d == [sockets[socket] EXCEPT !.closing = TRUE]
  <2>1. socket \in Sockets /\ PostClose(sockets) = [sockets EXCEPT ![socket] = d]
    BY <1>1, <1>3 DEF PostClose, Sockets
  <2>2. d \in SocketStates
    BY ZenonT(60), <1>1, <2>1 DEF SocketStates
  <2> HIDE DEF d
  <2>. QED BY <1>1, <2>1, <2>2
<1>. QED BY <1>2, <1>3

\* StopListening keeps the invariant.
LEMMA StopListeningInv ==
  ASSUME UdpAssumption, IInv, UdpStopListening
  PROVE  IInv'
<1>1. sockets' = PostClose(sockets) /\ udp_listening' = "no" /\ socket' = socket
  BY DEF UdpStopListening
<1>2. UdpTypeOK'
  BY <1>1, PostCloseType DEF IInv, UdpTypeOK, UdpStopListening, SocketStates
<1>3. SocketInv'
  BY <1>1 DEF IInv, SocketInv, ReadsUntilLate, PostClose
<1>. QED BY <1>2, <1>3, RequestsAlone DEF IInv, UdpStopListening

\* StartListening, which replaces the socket, keeps the invariant: the old
\* socket is closed, the new one is not.
LEMMA StartListeningInv ==
  ASSUME UdpAssumption, IInv, NEW s \in Sockets, UdpStartListening(s)
  PROVE  IInv'
<1>1. /\ sockets' = PostClose(sockets) /\ udp_listening' = "resetting" /\ socket' = s
      /\ s # socket /\ sockets[s] = NoSocket
  BY DEF UdpStartListening, UdpFresh
<1>2. UdpTypeOK'
  BY <1>1, PostCloseType DEF IInv, UdpTypeOK, UdpStartListening, SocketStates, Sockets
<1>3. ~sockets'[s].closing /\ s # 0
  BY <1>1, PostCloseType DEF IInv, NoSocket, Sockets
<1>4. SocketInv'
  BY <1>1, <1>3 DEF SocketInv, ReadsUntilLate
<1>. QED BY <1>2, <1>4, RequestsAlone DEF IInv, UdpStartListening

\* The rest of StartListening keeps the invariant, on success and on failure to
\* open or to bind.
LEMMA OpenAndBindInv ==
  ASSUME UdpAssumption, IInv, NEW isOpen \in BOOLEAN, NEW bound \in BOOLEAN,
         OpenAndBind(isOpen, bound)
  PROVE  IInv'
<1> DEFINE ss == [sockets EXCEPT ![socket].open = isOpen]
<1>1. /\ udp_listening = "resetting" /\ (bound => isOpen) /\ socket' = socket /\ late' = late
      /\ sockets' = (IF bound THEN StartRead(ss, socket) ELSE ss)
      /\ udp_listening' = IF bound THEN "yes" ELSE "no"
  BY Zenon DEF OpenAndBind
<1>2. socket \in Sockets /\ ~sockets[socket].closing
  BY <1>1 DEF IInv, UdpTypeOK, SocketInv, Sockets
<1>3. /\ ss \in [Sockets -> SocketStates] /\ ss[socket].open = isOpen
      /\ ss[socket].closing = sockets[socket].closing
  BY <1>2 DEF IInv, UdpTypeOK, SocketStates
<1> HIDE DEF ss
<1>4. sockets' \in [Sockets -> SocketStates]
  BY Zenon, <1>1, <1>2, <1>3, StartReadKeeps
<1>5. UdpTypeOK'
  BY Zenon, <1>1, <1>4 DEF IInv, UdpTypeOK, OpenAndBind, SocketStates
<1>6. SocketInv'
  <2>1. socket # 0
    BY <1>2 DEF Sockets
  <2>2. /\ StartRead(ss, socket)[socket].open = isOpen
        /\ StartRead(ss, socket)[socket].closing = ss[socket].closing
        /\ InUse(StartRead(ss, socket)[socket])
    BY <1>2, <1>3, StartReadKeeps, Zenon
  <2>. QED BY <1>1, <1>2, <1>3, <2>1, <2>2 DEF SocketInv, ReadsUntilLate, InUse
<1>. QED BY <1>5, <1>6, RequestsAlone DEF IInv, OpenAndBind

\* The posted close aborts the reads; the socket in use is not the one closed
\* while the transport listens.
LEMMA CloseSocketInv ==
  ASSUME UdpAssumption, IInv, NEW s \in Sockets, UdpCloseSocket(s)
  PROVE  IInv'
<1> DEFINE c == sockets[s]
           d == [c EXCEPT !.open = FALSE, !.closing = FALSE, !.reading = 0,
                          !.failed = c.failed + c.reading]
<1>1. sockets \in [Sockets -> SocketStates] /\ c \in SocketStates
  BY DEF IInv, UdpTypeOK, SocketStates
<1>2. /\ sockets[s].closing /\ UNCHANGED <<socket, udp_listening, late>>
      /\ sockets' = [sockets EXCEPT ![s].open = FALSE, ![s].closing = FALSE, ![s].reading = 0,
                                    ![s].failed = @ + sockets[s].reading]
  BY DEF UdpCloseSocket
<1>3. sockets' = [sockets EXCEPT ![s] = d]
  BY <1>1, <1>2 DEF SocketStates
<1>4. d \in SocketStates
  <2>1. c.failed + c.reading \in Nat
    BY <1>1 DEF SocketStates
  <2> HIDE DEF c
  <2>. QED BY Zenon, <1>1, <2>1 DEF SocketStates
<1> HIDE DEF d
<1>5. UdpTypeOK'
  BY <1>1, <1>2, <1>3, <1>4 DEF IInv, UdpTypeOK, UdpCloseSocket, SocketStates
<1>6. SocketInv'
  <2>1. socket # 0 /\ (udp_listening # "no" => s # socket)
    BY <1>2 DEF IInv, SocketInv, NoSocket
  <2>2. \A t \in Sockets : t # s => sockets'[t] = sockets[t]
    BY <1>1, <1>3
  <2>3. socket \in Sockets
    BY <2>1 DEF IInv, UdpTypeOK, Sockets
  <2>. QED BY Zenon, <1>2, <2>1, <2>2, <2>3 DEF IInv, SocketInv, ReadsUntilLate
<1>. QED BY <1>5, <1>6, RequestsAlone DEF IInv, UdpCloseSocket

\* A datagram that arrives turns a read into a handler.
LEMMA ReceiveInv ==
  ASSUME UdpAssumption, IInv, NEW s \in Sockets, NEW content \in Contents, Receive(s, content)
  PROVE  IInv'
<1> DEFINE c == sockets[s]
           d == [c EXCEPT !.reading = c.reading - 1, !.read = c.read + 1, !.buffer = content]
<1>1. sockets \in [Sockets -> SocketStates] /\ c \in SocketStates
  BY DEF IInv, UdpTypeOK, SocketStates
<1>2. /\ sockets[s].reading > 0 /\ UNCHANGED <<socket, udp_listening, late>>
      /\ datagrams < MaxDatagrams /\ datagrams' = datagrams + 1
      /\ sockets' = [sockets EXCEPT ![s].reading = @ - 1, ![s].read = @ + 1,
                                    ![s].buffer = content]
  BY DEF Receive
<1>3. sockets' = [sockets EXCEPT ![s] = d]
  BY Zenon, <1>1, <1>2 DEF SocketStates
<1>4. /\ d \in SocketStates /\ d.open = c.open /\ d.closing = c.closing
      /\ d.reading = c.reading - 1 /\ d.read = c.read + 1 /\ d.failed = c.failed
  <2>1. c.reading - 1 \in Nat /\ c.read + 1 \in Nat
    BY <1>1, <1>2 DEF SocketStates
  <2> HIDE DEF c
  <2>. QED BY Zenon, <1>1, <2>1 DEF SocketStates
<1> HIDE DEF d
<1>5. UdpTypeOK'
  BY <1>1, <1>2, <1>3, <1>4 DEF IInv, UdpTypeOK, Receive, SocketStates, UdpAssumption
<1>6. SocketInv'
  <2>1. socket # 0
    BY <1>2 DEF IInv, SocketInv, NoSocket
  <2>2. \A t \in Sockets : t # s => sockets'[t] = sockets[t]
    BY <1>1, <1>3
  <2>3. socket \in Sockets
    BY <2>1 DEF IInv, UdpTypeOK, Sockets
  <2>4. /\ sockets'[s].open = sockets[s].open /\ sockets'[s].closing = sockets[s].closing
        /\ InUse(sockets'[s])
    BY <1>1, <1>2, <1>3, <1>4 DEF InUse, SocketStates
  <2>. QED BY Zenon, <1>2, <2>1, <2>2, <2>3, <2>4 DEF IInv, SocketInv, ReadsUntilLate, InUse
<1>. QED BY <1>5, <1>6, RequestsAlone DEF IInv, Receive

\* HandleRead with an error reads again as long as the socket is open.
LEMMA HandleReadErrorInv ==
  ASSUME UdpAssumption, IInv, NEW s \in Sockets, HandleReadError(s)
  PROVE  IInv'
<1> DEFINE c == sockets[s]
           taken == [sockets EXCEPT ![s].failed = @ - 1]
<1>1. sockets \in [Sockets -> SocketStates] /\ c \in SocketStates
  BY DEF IInv, UdpTypeOK, SocketStates
<1>2. /\ sockets[s].failed > 0 /\ UNCHANGED <<socket, udp_listening, late>>
      /\ sockets' = IF sockets[s].open THEN StartRead(taken, socket) ELSE taken
  BY DEF HandleReadError
<1>3. socket # 0 /\ socket \in Sockets
  BY <1>2 DEF IInv, SocketInv, UdpTypeOK, NoSocket, Sockets
<1>4. taken \in [Sockets -> SocketStates]
  <2>1. c.failed - 1 \in Nat
    BY <1>1, <1>2 DEF SocketStates
  <2>. QED BY <1>1, <2>1 DEF SocketStates
<1>5. \A t \in Sockets : /\ taken[t].open = sockets[t].open /\ taken[t].closing = sockets[t].closing
                         /\ t # s => taken[t] = sockets[t]
  BY <1>1 DEF SocketStates
<1> HIDE DEF taken
<1>6. UdpTypeOK'
  <2>1. sockets' \in [Sockets -> SocketStates]
    BY Zenon, <1>2, <1>3, <1>4, StartReadKeeps
  <2>. QED BY Zenon, <2>1 DEF IInv, UdpTypeOK, HandleReadError, SocketStates
<1>7. SocketInv'
  <2>1. CASE sockets[s].open
    <3>1. /\ StartRead(taken, socket)[socket].open = taken[socket].open
          /\ StartRead(taken, socket)[socket].closing = taken[socket].closing
          /\ InUse(StartRead(taken, socket)[socket])
      BY Zenon, <1>3, <1>4, StartReadKeeps
    <3>. QED BY Zenon, <1>2, <1>3, <1>5, <2>1, <3>1 DEF IInv, SocketInv, ReadsUntilLate, InUse
  <2>2. CASE ~sockets[s].open
    <3>1. udp_listening = "yes" => taken[socket] = sockets[socket]
      BY Zenon, <1>3, <1>5, <2>2 DEF IInv, SocketInv
    <3>. QED BY Zenon, <1>2, <1>3, <1>5, <2>2, <3>1 DEF IInv, SocketInv, ReadsUntilLate
  <2>. QED BY Zenon, <2>1, <2>2
<1>. QED BY Zenon, <1>6, <1>7, RequestsAlone DEF IInv, HandleReadError

-----------------------------------------------------------------------------
(* Requests.                                                               *)

\* What is kept of one request.
RequestStates == [state : {"unused", "posted", "sent", "dropped"},
                  immediate : BOOLEAN, elapsed : BOOLEAN,
                  wait : {None, "pending", "posted", "aborted"},
                  outcomes : SUBSET {"error", "reply", "timeout"}]

\* Requests that were used stay so.
LEMMA UsedGrows ==
  ASSUME UdpAssumption, UdpTypeOK, NEW r \in Requests, NEW d \in RequestStates,
         request' = [request EXCEPT ![r] = d],
         request[r].state \in {"sent", "dropped"} => d.state \in {"sent", "dropped"}
  PROVE  /\ Cardinality(Used) \in Nat /\ Cardinality(Used') \in Nat
         /\ Cardinality(Used) <= Cardinality(Used')
<1>1. Used \subseteq Used' /\ Used' \subseteq Requests
  BY DEF UdpTypeOK, Used
<1>2. IsFiniteSet(Requests)
  BY DEF UdpAssumption
<1>3. IsFiniteSet(Used')
  BY <1>1, <1>2, FS_Subset
<1>4. IsFiniteSet(Used) /\ Cardinality(Used) <= Cardinality(Used')
  BY Zenon, <1>1, <1>3, FS_Subset
<1>. QED BY Zenon, <1>3, <1>4, FS_CardinalityType

\* The request r becomes d, which is as RequestInv and IdInv want it; r may be
\* removed from outstanding_requests_.
Becomes(r, d) ==
  /\ request' = [request EXCEPT ![r] = d]
  /\ outstanding' \in [Ids -> Requests \cup {None}]
  /\ \A id \in Ids : \/ outstanding'[id] = outstanding[id]
                     \/ outstanding[id] = r /\ outstanding'[id] = None
  /\ \A x, y \in d.outcomes : x = y
  /\ d.state \in {"unused", "posted"} => d.wait = None /\ d.outcomes = {}
  /\ d.wait = "pending" => ~d.elapsed /\ \E id \in Ids : outstanding'[id] = r
  /\ request[r].state \in {"sent", "dropped"} => d.state \in {"sent", "dropped"}
  /\ \A id \in Ids : outstanding'[id] = r =>
       d.state = "sent" /\ d.wait \in {"pending", "posted"} /\ d.outcomes = {}

\* A step that changes one request, and removes no other from
\* outstanding_requests_, keeps what is said of requests and ids.
LEMMA OneRequestChanges ==
  ASSUME UdpAssumption, IInv, NEW r \in Requests, NEW d \in RequestStates,
         Becomes(r, d), next_request_id' = next_request_id
  PROVE  RequestInv' /\ IdInv' /\ request' \in [Requests -> RequestStates]
<1> USE DEF Becomes
<1>1. request \in [Requests -> RequestStates] /\ None \notin Requests
      /\ outstanding \in [Ids -> Requests \cup {None}]
  BY DEF IInv, UdpTypeOK, RequestStates, UdpAssumption, None
<1>2. /\ request' \in [Requests -> RequestStates] /\ request'[r] = d
      /\ \A q \in Requests : q # r => request'[q] = request[q]
  BY Zenon, <1>1
<1>3. RequestInv'
  <2> SUFFICES ASSUME NEW q \in Requests
               PROVE  /\ \A x, y \in request'[q].outcomes : x = y
                      /\ request'[q].state \in {"unused", "posted"} =>
                           request'[q].wait = None /\ request'[q].outcomes = {}
                      /\ request'[q].wait = "pending" =>
                           ~request'[q].elapsed /\ \E id \in Ids : outstanding'[id] = q
    BY DEF RequestInv
  <2>1. CASE q = r
    BY Zenon, <1>2, <2>1
  <2>2. CASE q # r
    BY <1>2, <2>2 DEF IInv, RequestInv
  <2>. QED BY Zenon, <2>1, <2>2
<1>4. IdInv'
  <2>1. next_request_id' # 0
    BY Zenon DEF IInv, IdInv
  <2>2. ASSUME NEW id \in Ids, outstanding'[id] # None
        PROVE  /\ id # 0
               /\ request'[outstanding'[id]].state = "sent"
               /\ request'[outstanding'[id]].wait \in {"pending", "posted"}
               /\ request'[outstanding'[id]].outcomes = {}
               /\ \A other \in Ids : outstanding'[other] = outstanding'[id] => other = id
               /\ Behind(id, next_request_id') <= Cardinality(Used')
    <3>1. outstanding'[id] = outstanding[id] /\ outstanding[id] \in Requests
      BY Zenon, <1>1, <2>2
    <3>2. /\ id # 0 /\ request[outstanding[id]].state = "sent"
          /\ request[outstanding[id]].wait \in {"pending", "posted"}
          /\ request[outstanding[id]].outcomes = {}
          /\ \A other \in Ids : outstanding[other] = outstanding[id] => other = id
          /\ Behind(id, next_request_id) <= Cardinality(Used)
      BY Zenon, <2>2, <3>1 DEF IInv, IdInv
    <3>3. /\ request'[outstanding'[id]].state = "sent"
          /\ request'[outstanding'[id]].wait \in {"pending", "posted"}
          /\ request'[outstanding'[id]].outcomes = {}
      BY Zenon, <1>2, <3>1, <3>2
    <3>4. \A other \in Ids : outstanding'[other] = outstanding'[id] => other = id
      BY Zenon, <2>2, <3>1, <3>2
    <3>5. Behind(id, next_request_id) <= Cardinality(Used')
      <4>1. Behind(id, next_request_id) \in Int
        BY DEF Behind, IInv, UdpTypeOK, Ids, UdpAssumption
      <4>2. /\ Cardinality(Used) \in Nat /\ Cardinality(Used') \in Nat
            /\ Cardinality(Used) <= Cardinality(Used')
        <5>1. UdpTypeOK
          BY DEF IInv
        <5>. QED BY Zenon, <5>1, UsedGrows
      <4>. QED BY <3>2, <4>1, <4>2
    <3>. QED BY Zenon, <3>2, <3>3, <3>4, <3>5
  <2>. QED BY Zenon, <2>1, <2>2 DEF IdInv
<1>. QED BY Zenon, <1>2, <1>3, <1>4

\* A request that was just made has no id, no timer and no outcome.
LEMMA NewRequestInv ==
  ASSUME UdpAssumption, IInv, NEW r \in Requests, NEW immediate \in BOOLEAN,
         request[r].state = "unused", request' = [request EXCEPT ![r] = NewRequest(immediate)],
         UNCHANGED <<outstanding, next_request_id>>
  PROVE  RequestInv' /\ IdInv' /\ request' \in [Requests -> RequestStates]
<1> DEFINE d == NewRequest(immediate)
<1>1. /\ d \in RequestStates /\ d.state = "posted" /\ d.wait = None /\ d.outcomes = {}
  BY DEF RequestStates, NewRequest, None
<1>2. d.wait # "pending"
  BY <1>1 DEF None
<1>3. outstanding \in [Ids -> Requests \cup {None}] /\ None \notin Requests
  BY DEF IInv, UdpTypeOK, UdpAssumption, None
<1>4. \A id \in Ids : outstanding[id] # r
  BY Zenon, <1>3 DEF IInv, IdInv
<1> HIDE DEF d
<1>5. Becomes(r, d)
  BY Zenon, <1>1, <1>2, <1>3, <1>4 DEF Becomes, d
<1>. QED BY Zenon, <1>1, <1>5, OneRequestChanges

\* Send keeps the invariant.
LEMMA SendInv ==
  ASSUME UdpAssumption, IInv, NEW r \in Requests, NEW immediate \in BOOLEAN, UdpSend(r, immediate)
  PROVE  IInv'
<1>1. RequestInv' /\ IdInv' /\ request' \in [Requests -> RequestStates]
  BY Zenon, NewRequestInv DEF UdpSend
<1>2. UdpTypeOK'
  BY <1>1 DEF IInv, UdpTypeOK, UdpSend, RequestStates
<1>. QED BY <1>1, <1>2, SocketsAlone DEF IInv, UdpSend

\* DispatchMessage keeps the invariant, with a response to send and without.
LEMMA DispatchMessageInv ==
  ASSUME UdpAssumption, IInv, NEW r \in Requests \cup {None}, NEW immediate \in BOOLEAN,
         UdpDispatchMessage(r, immediate)
  PROVE  IInv'
<1>1. RequestInv' /\ IdInv' /\ request' \in [Requests -> RequestStates]
  <2>1. CASE r = None
    BY <2>1, RequestsAlone DEF UdpDispatchMessage, IInv, UdpTypeOK, RequestStates
  <2>2. CASE r # None
    BY Zenon, <2>2, NewRequestInv DEF UdpDispatchMessage
  <2>. QED BY Zenon, <2>1, <2>2
<1>2. UdpTypeOK'
  BY <1>1 DEF IInv, UdpTypeOK, UdpDispatchMessage, RequestStates
<1>. QED BY Zenon, <1>1, <1>2, SocketsAlone DEF IInv, UdpDispatchMessage

\* A request that DoSend drops has an error for its only outcome.
LEMMA DroppedType ==
  ASSUME UdpAssumption, IInv, NEW r \in Requests, request[r].state = "posted"
  PROVE  \E d \in RequestStates : /\ Dropped(r) = [request EXCEPT ![r] = d]
                                  /\ d.state = "dropped" /\ d.wait = None
                                  /\ d.outcomes = {"error"}
<1> DEFINE c == request[r]
           d == [c EXCEPT !.state = "dropped", !.outcomes = {"error"}]
<1>1. c \in RequestStates /\ c.wait = None /\ c.outcomes = {}
  BY DEF IInv, UdpTypeOK, RequestStates, RequestInv
<1>2. request \in [Requests -> RequestStates]
  BY DEF IInv, UdpTypeOK, RequestStates
<1>3. c.outcomes \cup {"error"} = {"error"}
  BY <1>1
<1>4. Dropped(r) = [request EXCEPT ![r] = d]
  BY Zenon, <1>2, <1>3 DEF Dropped, RequestStates
<1>5. d \in RequestStates /\ d.state = "dropped" /\ d.wait = None /\ d.outcomes = {"error"}
  <2> HIDE DEF c
  <2>. QED BY Zenon, <1>1 DEF RequestStates
<1>. QED BY Zenon, <1>4, <1>5

\* DoSend of a message that is refused before an id is used keeps the
\* invariant.
LEMMA DoSendFailsInv ==
  ASSUME UdpAssumption, IInv, NEW r \in Requests, DoSendFails(r)
  PROVE  IInv'
<1>1. PICK d \in RequestStates : /\ Dropped(r) = [request EXCEPT ![r] = d]
                                 /\ d.state = "dropped" /\ d.wait = None
                                 /\ d.outcomes = {"error"}
  BY Zenon, DroppedType DEF DoSendFails
<1>2. /\ request' = [request EXCEPT ![r] = d] /\ request[r].state = "posted"
      /\ outstanding' = outstanding /\ next_request_id' = next_request_id
  BY <1>1 DEF DoSendFails
<1>3. outstanding \in [Ids -> Requests \cup {None}] /\ None \notin Requests /\ None # "pending"
  BY DEF IInv, UdpTypeOK, UdpAssumption, None
<1>4. \A id \in Ids : outstanding[id] # r
  BY Zenon, <1>2, <1>3 DEF IInv, IdInv
<1>5. \A x, y \in d.outcomes : x = y
  BY Zenon, <1>1
<1>6. RequestInv' /\ IdInv' /\ request' \in [Requests -> RequestStates]
  <2>1. Becomes(r, d)
    BY Zenon, <1>1, <1>2, <1>3, <1>4, <1>5 DEF Becomes
  <2>. QED BY Zenon, <1>2, <2>1, OneRequestChanges
<1>7. UdpTypeOK'
  BY <1>6 DEF IInv, UdpTypeOK, DoSendFails, RequestStates
<1>. QED BY Zenon, <1>6, <1>7, SocketsAlone DEF IInv, DoSendFails

\* The timer of a request that runs out makes its handler run.
LEMMA ElapseInv ==
  ASSUME UdpAssumption, IInv, NEW r \in Requests, UdpElapse(r)
  PROVE  IInv'
<1> DEFINE c == request[r]
           d == [c EXCEPT !.elapsed = TRUE, !.wait = IF c.wait = "pending" THEN "posted" ELSE c.wait]
<1>1. request \in [Requests -> RequestStates] /\ c \in RequestStates
  BY DEF IInv, UdpTypeOK, RequestStates
<1>2. /\ outstanding' = outstanding /\ next_request_id' = next_request_id
      /\ request' = [request EXCEPT ![r].elapsed = TRUE,
                                    ![r].wait = IF @ = "pending" THEN "posted" ELSE @]
  BY DEF UdpElapse
<1>3. request' = [request EXCEPT ![r] = d]
  BY Zenon, <1>1, <1>2 DEF RequestStates
<1>4. /\ d \in RequestStates /\ d.state = c.state /\ d.outcomes = c.outcomes
      /\ d.wait = IF c.wait = "pending" THEN "posted" ELSE c.wait
  <2> HIDE DEF c
  <2>. QED BY Zenon, <1>1 DEF RequestStates
<1>5. outstanding \in [Ids -> Requests \cup {None}] /\ None \notin Requests /\ None # "pending"
  BY Zenon DEF IInv, UdpTypeOK, UdpAssumption, None
<1>6. \A id \in Ids : outstanding[id] = r =>
        c.state = "sent" /\ c.wait \in {"pending", "posted"} /\ c.outcomes = {}
  BY Zenon, <1>5 DEF IInv, IdInv
<1>7. /\ \A x, y \in c.outcomes : x = y
      /\ c.state \in {"unused", "posted"} => c.wait = None /\ c.outcomes = {}
  BY DEF IInv, RequestInv
<1> HIDE DEF d
<1>8. RequestInv' /\ IdInv' /\ request' \in [Requests -> RequestStates]
  <2>1. Becomes(r, d)
    BY Zenon, <1>2, <1>3, <1>4, <1>5, <1>6, <1>7 DEF Becomes
  <2>. QED BY Zenon, <1>2, <1>4, <2>1, OneRequestChanges
<1>9. UdpTypeOK'
  BY Zenon, <1>8 DEF IInv, UdpTypeOK, UdpElapse, RequestStates
<1>. QED BY Zenon, <1>8, <1>9, SocketsAlone DEF IInv, UdpElapse

\* Erasing an entry of outstanding_requests_ gives its request the one outcome.
LEMMA EraseInv ==
  ASSUME UdpAssumption, IInv, NEW id \in Ids, outstanding[id] # None,
         NEW outcome \in {"reply", "timeout"}, Erase(id, outcome),
         next_request_id' = next_request_id
  PROVE  /\ RequestInv' /\ IdInv' /\ request' \in [Requests -> RequestStates]
         /\ outstanding' \in [Ids -> Requests \cup {None}]
<1> DEFINE r == outstanding[id]
           c == request[r]
           d == [c EXCEPT !.outcomes = {outcome},
                          !.wait = IF c.wait = "pending" THEN "aborted" ELSE c.wait]
<1>1. /\ request \in [Requests -> RequestStates] /\ outstanding \in [Ids -> Requests \cup {None}]
      /\ r \in Requests /\ None \notin Requests
  BY DEF IInv, UdpTypeOK, RequestStates, UdpAssumption, None
<1>2. /\ outstanding' = [outstanding EXCEPT ![id] = None]
      /\ request' = [request EXCEPT ![r].outcomes = @ \cup {outcome},
                                    ![r].wait = IF @ = "pending" THEN "aborted" ELSE @]
  BY Zenon DEF Erase
<1>3. /\ c \in RequestStates /\ c.state = "sent" /\ c.outcomes = {}
      /\ \A other \in Ids : outstanding[other] = r => other = id
  BY <1>1 DEF IInv, IdInv
<1> HIDE DEF r
<1>4. request' = [request EXCEPT ![r] = d]
  <2>1. c.outcomes \cup {outcome} = {outcome}
    BY <1>3
  <2>. QED BY Zenon, <1>1, <1>2, <2>1 DEF RequestStates
<1>5. /\ d \in RequestStates /\ d.state = "sent" /\ d.outcomes = {outcome} /\ d.wait # "pending"
  <2> HIDE DEF c
  <2>. QED BY Zenon, <1>3 DEF RequestStates
<1>6. \A x, y \in d.outcomes : x = y
  BY <1>5
<1>7. /\ outstanding' \in [Ids -> Requests \cup {None}]
      /\ \A other \in Ids : /\ outstanding'[other] # r
                           /\ \/ outstanding'[other] = outstanding[other]
                              \/ outstanding[other] = r /\ outstanding'[other] = None
  BY Zenon, <1>1, <1>2, <1>3 DEF r
<1> HIDE DEF d
<1>8. Becomes(r, d)
  BY Zenon, <1>4, <1>5, <1>6, <1>7 DEF Becomes
<1>. QED BY Zenon, <1>1, <1>5, <1>7, <1>8, OneRequestChanges

\* HandleTimeout keeps the invariant: a request that is still outstanding times
\* out, one that was answered does not.
LEMMA HandleTimeoutInv ==
  ASSUME UdpAssumption, IInv, NEW r \in Requests, HandleTimeout(r)
  PROVE  IInv'
<1> DEFINE c == request[r]
           found == c.wait = "posted" /\ IdOf(r) # {}
           d == IF found THEN [c EXCEPT !.wait = None, !.outcomes = {"timeout"}]
                         ELSE [c EXCEPT !.wait = None]
<1>1. /\ request \in [Requests -> RequestStates] /\ outstanding \in [Ids -> Requests \cup {None}]
      /\ None \notin Requests /\ None # "pending" /\ c \in RequestStates
  BY DEF IInv, UdpTypeOK, RequestStates, UdpAssumption, None
<1>2. /\ c.wait \in {"posted", "aborted"} /\ next_request_id' = next_request_id
      /\ IF found
           THEN /\ outstanding' = [id \in Ids |-> IF id \in IdOf(r) THEN None ELSE outstanding[id]]
                /\ request' = [request EXCEPT ![r].wait = None,
                                              ![r].outcomes = @ \cup {"timeout"}]
           ELSE request' = [request EXCEPT ![r].wait = None] /\ UNCHANGED outstanding
  BY DEF HandleTimeout
<1>3. /\ \A x, y \in c.outcomes : x = y
      /\ c.state \in {"unused", "posted"} => c.wait = None /\ c.outcomes = {}
  BY DEF IInv, RequestInv
<1>4. c.state \in {"sent", "dropped"}
  BY Zenon, <1>1, <1>2, <1>3 DEF RequestStates, None
<1>5. \A id \in Ids : outstanding[id] = r =>
        c.state = "sent" /\ c.wait \in {"pending", "posted"} /\ c.outcomes = {}
  BY Zenon, <1>1 DEF IInv, IdInv
<1>6. found => c.outcomes = {}
  BY <1>5 DEF IdOf
<1>7. request' = [request EXCEPT ![r] = d]
  <2>1. CASE found
    <3>1. c.outcomes \cup {"timeout"} = {"timeout"}
      BY Zenon, <1>6, <2>1
    <3>. QED BY Zenon, <1>1, <1>2, <2>1, <3>1 DEF RequestStates
  <2>2. CASE ~found
    BY <1>1, <1>2, <2>2 DEF RequestStates
  <2>. QED BY <2>1, <2>2
<1>8. /\ d \in RequestStates /\ d.state = c.state /\ d.wait = None
      /\ d.outcomes = IF found THEN {"timeout"} ELSE c.outcomes
  <2> HIDE DEF c, found
  <2>. QED BY Zenon, <1>1 DEF RequestStates
<1>9. \A x, y \in d.outcomes : x = y
  BY <1>3, <1>8
<1>10. /\ outstanding' \in [Ids -> Requests \cup {None}]
       /\ \A id \in Ids : /\ outstanding'[id] # r
                         /\ \/ outstanding'[id] = outstanding[id]
                            \/ outstanding[id] = r /\ outstanding'[id] = None
  <2>1. CASE found
    BY <1>1, <1>2, <2>1 DEF IdOf
  <2>2. CASE ~found
    <3>1. IdOf(r) = {}
      BY Zenon, <1>2, <1>5, <2>2 DEF IdOf
    <3>. QED BY Zenon, <1>1, <1>2, <2>2, <3>1 DEF IdOf
  <2>. QED BY <2>1, <2>2
<1> HIDE DEF d
<1>11. RequestInv' /\ IdInv' /\ request' \in [Requests -> RequestStates]
  <2>1. Becomes(r, d)
    BY Zenon, <1>1, <1>4, <1>7, <1>8, <1>9, <1>10 DEF Becomes
  <2>. QED BY Zenon, <1>2, <1>8, <2>1, OneRequestChanges
<1>12. UdpTypeOK'
  BY Zenon, <1>10, <1>11 DEF IInv, UdpTypeOK, HandleTimeout, RequestStates
<1>. QED BY Zenon, <1>11, <1>12, SocketsAlone DEF IInv, HandleTimeout

\* HandleRead of a datagram keeps the invariant, whatever it contains: a reply
\* to an outstanding request, a late reply, a request or nothing that parses.
LEMMA HandleReadInv ==
  ASSUME UdpAssumption, IInv, NEW s \in Sockets, HandleRead(s)
  PROVE  IInv'
<1> DEFINE c == sockets[s]
           content == sockets[s].buffer
           reply == content \in Ids \ {0}
           isLate == sockets[s].open /\ reply /\ outstanding[content] = None
           taken == [sockets EXCEPT ![s].read = @ - 1]
<1>1. sockets \in [Sockets -> SocketStates] /\ c \in SocketStates
  BY DEF IInv, UdpTypeOK, SocketStates
<1>2. /\ sockets[s].read > 0 /\ UNCHANGED <<socket, udp_listening, next_request_id, datagrams>>
      /\ sockets' = (IF sockets[s].open /\ ~isLate THEN StartRead(taken, socket) ELSE taken)
      /\ late' = (late \/ isLate)
  BY Zenon DEF HandleRead
<1>3. \/ dispatches' = dispatches + 1 /\ reply /\ ~isLate /\ sockets[s].open /\ Erase(content, "reply")
      \/ /\ dispatches' \in {dispatches, dispatches + 1}
         /\ UNCHANGED <<outstanding, request>>
  BY DEF HandleRead, Answer
<1>4. socket # 0 /\ socket \in Sockets
  BY <1>2 DEF IInv, SocketInv, UdpTypeOK, NoSocket, Sockets
<1>5. taken \in [Sockets -> SocketStates]
  <2>1. c.read - 1 \in Nat
    BY <1>1, <1>2 DEF SocketStates
  <2>. QED BY Zenon, <1>1, <2>1 DEF SocketStates
<1>6. \A t \in Sockets : /\ taken[t].open = sockets[t].open /\ taken[t].closing = sockets[t].closing
                         /\ t # s => taken[t] = sockets[t]
  BY Zenon, <1>1 DEF SocketStates
<1> HIDE DEF taken
<1>7. /\ RequestInv' /\ IdInv' /\ request' \in [Requests -> RequestStates]
      /\ outstanding' \in [Ids -> Requests \cup {None}]
  <2>1. CASE reply /\ ~isLate /\ sockets[s].open /\ Erase(content, "reply")
    BY Zenon, <1>2, <2>1, EraseInv
  <2>2. CASE UNCHANGED <<outstanding, request>>
    BY Zenon, <1>2, <2>2, RequestsAlone DEF IInv, UdpTypeOK, RequestStates
  <2>. QED BY Zenon, <1>3, <2>1, <2>2
<1>8. UdpTypeOK'
  <2>1. sockets' \in [Sockets -> SocketStates]
    BY Zenon, <1>2, <1>4, <1>5, StartReadKeeps
  <2>2. late' \in BOOLEAN /\ dispatches' \in Nat
    BY <1>2, <1>3 DEF IInv, UdpTypeOK
  <2>. QED BY Zenon, <1>2, <1>7, <2>1, <2>2 DEF IInv, UdpTypeOK, SocketStates, RequestStates
<1>9. SocketInv'
  <2>1. CASE sockets[s].open /\ ~isLate
    <3>1. /\ StartRead(taken, socket)[socket].open = taken[socket].open
          /\ StartRead(taken, socket)[socket].closing = taken[socket].closing
          /\ InUse(StartRead(taken, socket)[socket])
      BY <1>4, <1>5, StartReadKeeps
    <3>. QED BY Zenon, <1>2, <1>4, <1>6, <2>1, <3>1 DEF IInv, SocketInv, ReadsUntilLate, InUse
  <2>2. CASE isLate
    BY Zenon, <1>2, <1>4, <1>6, <2>2 DEF IInv, SocketInv, ReadsUntilLate
  <2>3. CASE ~sockets[s].open
    <3>1. udp_listening = "yes" => taken[socket] = sockets[socket]
      BY <1>4, <1>6, <2>3 DEF IInv, SocketInv
    <3>. QED BY Zenon, <1>2, <1>4, <1>6, <2>3, <3>1 DEF IInv, SocketInv, ReadsUntilLate
  <2>. QED BY Zenon, <2>1, <2>2, <2>3
<1>. QED BY Zenon, <1>7, <1>8, <1>9 DEF IInv

-----------------------------------------------------------------------------
(* DoSend gives out the next id, which no other request waits under.       *)

\* The id that DoSend takes next is not 0 and not outstanding: coming round to
\* it takes more requests than there are.
LEMMA NextIdIsFree ==
  ASSUME UdpAssumption, IInv, NEW r \in Requests, request[r].state = "posted"
  PROVE  /\ next_request_id \in Ids \ {0} /\ outstanding[next_request_id] = None
         /\ NextId(next_request_id) \in Ids \ {0}
         /\ Behind(next_request_id, NextId(next_request_id)) = 1
         /\ \A id \in Ids : outstanding[id] # None =>
              Behind(id, NextId(next_request_id)) <= Cardinality(Used) + 1
<1>1. MaxId \in Nat /\ next_request_id \in Ids \ {0}
  BY DEF UdpAssumption, IInv, UdpTypeOK, IdInv
<1>2. Cardinality(Used) \in Nat /\ Cardinality(Used) < MaxId
  <2>1. IsFiniteSet(Requests) /\ Used \in SUBSET Requests /\ Cardinality(Requests) <= MaxId
    BY DEF UdpAssumption, Used
  <2>2. r \notin Used
    BY DEF Used
  <2>3. Cardinality(Used) <= Cardinality(Requests) /\ Cardinality(Used) # Cardinality(Requests)
        /\ IsFiniteSet(Used)
    BY Zenon, <2>1, <2>2, FS_Subset
  <2>4. Cardinality(Used) \in Nat /\ Cardinality(Requests) \in Nat
    BY Zenon, <2>1, <2>3, FS_CardinalityType
  <2>. QED BY <1>1, <2>1, <2>3, <2>4
<1>3. \A id \in Ids : outstanding[id] # None =>
        id # 0 /\ Behind(id, next_request_id) <= Cardinality(Used)
  BY DEF IInv, IdInv
<1>4. Behind(next_request_id, next_request_id) = MaxId
  BY <1>1 DEF Behind, Ids
<1>5. outstanding[next_request_id] = None
  BY <1>1, <1>2, <1>3, <1>4
<1>6. /\ NextId(next_request_id) \in Ids \ {0}
      /\ Behind(next_request_id, NextId(next_request_id)) = 1
  BY <1>1 DEF Behind, NextId, Ids
<1>7. \A id \in Ids \ {0, next_request_id} :
        Behind(id, NextId(next_request_id)) = Behind(id, next_request_id) + 1
  BY <1>1 DEF Behind, NextId, Ids
<1>8. \A id \in Ids : Behind(id, next_request_id) \in Int
  BY <1>1 DEF Behind, Ids
<1>. QED BY <1>1, <1>2, <1>3, <1>5, <1>6, <1>7, <1>8

\* A request that leaves the strand adds one to those used.
LEMMA UsedAdds ==
  ASSUME UdpAssumption, IInv, NEW r \in Requests, NEW d \in RequestStates,
         request[r].state = "posted", d.state \in {"sent", "dropped"},
         request' = [request EXCEPT ![r] = d]
  PROVE  Cardinality(Used') = Cardinality(Used) + 1 /\ Cardinality(Used) \in Nat
<1>1. IsFiniteSet(Requests) /\ Used \in SUBSET Requests
  BY DEF UdpAssumption, Used
<1>2. IsFiniteSet(Used)
  BY Zenon, <1>1, FS_Subset
<1>3. Used' = Used \cup {r} /\ r \notin Used
  BY DEF IInv, UdpTypeOK, Used
<1>. QED BY Zenon, <1>2, <1>3, FS_AddElement, FS_CardinalityType

\* DoSend takes the request r, which becomes d, with the next id.
Taken(r, d) ==
  /\ request[r].state = "posted" /\ d.state \in {"sent", "dropped"}
  /\ request' = [request EXCEPT ![r] = d]
  /\ next_request_id' = NextId(next_request_id)
  /\ \A x, y \in d.outcomes : x = y
  /\ \/ outstanding' = outstanding /\ d.wait # "pending"
     \/ /\ outstanding' = [outstanding EXCEPT ![next_request_id] = r]
        /\ d.state = "sent" /\ d.wait \in {"pending", "posted"} /\ d.outcomes = {}
        /\ d.wait = "pending" => ~d.elapsed

\* Giving the next id to a request, or using it up for one that fails, keeps
\* what is said of requests and ids.
LEMMA TakenInv ==
  ASSUME UdpAssumption, IInv, NEW r \in Requests, NEW d \in RequestStates, Taken(r, d)
  PROVE  /\ RequestInv' /\ IdInv' /\ request' \in [Requests -> RequestStates]
         /\ outstanding' \in [Ids -> Requests \cup {None}] /\ next_request_id' \in Ids
<1> USE DEF Taken
<1> DEFINE n == next_request_id
<1>1. /\ request \in [Requests -> RequestStates] /\ outstanding \in [Ids -> Requests \cup {None}]
      /\ None \notin Requests
  BY Zenon DEF IInv, UdpTypeOK, RequestStates, UdpAssumption, None
<1>2. /\ n \in Ids \ {0} /\ outstanding[n] = None /\ next_request_id' \in Ids \ {0}
      /\ Behind(n, next_request_id') = 1
      /\ \A id \in Ids : outstanding[id] # None =>
           Behind(id, next_request_id') <= Cardinality(Used) + 1
  BY NextIdIsFree
<1>3. Cardinality(Used') = Cardinality(Used) + 1 /\ Cardinality(Used) \in Nat
  BY Zenon, UsedAdds
<1>4. /\ request' \in [Requests -> RequestStates] /\ request'[r] = d
      /\ \A q \in Requests : q # r => request'[q] = request[q]
  BY Zenon, <1>1
<1>5. \A id \in Ids : outstanding[id] # r
  BY Zenon, <1>1 DEF IInv, IdInv
<1>6. /\ outstanding' \in [Ids -> Requests \cup {None}]
      /\ \A id \in Ids : id # n => outstanding'[id] = outstanding[id]
      /\ outstanding'[n] \in {None, r}
      /\ outstanding'[n] = r => d.state = "sent" /\ d.wait \in {"pending", "posted"}
                                /\ d.outcomes = {} /\ (d.wait = "pending" => ~d.elapsed)
      /\ d.wait = "pending" => outstanding'[n] = r /\ ~d.elapsed
  BY Zenon, <1>1, <1>2
<1>7. RequestInv'
  <2> SUFFICES ASSUME NEW q \in Requests
               PROVE  /\ \A x, y \in request'[q].outcomes : x = y
                      /\ request'[q].state \in {"unused", "posted"} =>
                           request'[q].wait = None /\ request'[q].outcomes = {}
                      /\ request'[q].wait = "pending" =>
                           ~request'[q].elapsed /\ \E id \in Ids : outstanding'[id] = q
    BY Zenon DEF RequestInv
  <2>1. CASE q = r
    BY Zenon, <1>2, <1>4, <1>6, <2>1
  <2>2. CASE q # r
    <3>1. /\ \A x, y \in request[q].outcomes : x = y
          /\ request[q].state \in {"unused", "posted"} =>
               request[q].wait = None /\ request[q].outcomes = {}
          /\ request[q].wait = "pending" =>
               ~request[q].elapsed /\ \E id \in Ids : outstanding[id] = q
      BY Zenon DEF IInv, RequestInv
    <3>. QED BY Zenon, <1>1, <1>2, <1>4, <1>6, <2>2, <3>1
  <2>. QED BY Zenon, <2>1, <2>2
<1>8. IdInv'
  <2>1. ASSUME NEW id \in Ids, outstanding'[id] # None
        PROVE  /\ id # 0
               /\ request'[outstanding'[id]].state = "sent"
               /\ request'[outstanding'[id]].wait \in {"pending", "posted"}
               /\ request'[outstanding'[id]].outcomes = {}
               /\ \A other \in Ids : outstanding'[other] = outstanding'[id] => other = id
               /\ Behind(id, next_request_id') <= Cardinality(Used')
    <3>1. CASE id = n
      <4>1. outstanding'[id] = r
        BY Zenon, <1>6, <2>1, <3>1
      <4>2. \A other \in Ids : outstanding'[other] = outstanding'[id] => other = id
        BY Zenon, <1>5, <1>6, <3>1, <4>1
      <4>3. Behind(id, next_request_id') <= Cardinality(Used')
        BY <1>2, <1>3, <3>1
      <4>. QED BY Zenon, <1>2, <1>4, <1>6, <3>1, <4>1, <4>2, <4>3
    <3>2. CASE id # n
      <4>1. outstanding'[id] = outstanding[id] /\ outstanding[id] \in Requests /\ outstanding[id] # r
        BY Zenon, <1>1, <1>5, <1>6, <2>1, <3>2
      <4>2. /\ id # 0 /\ request[outstanding[id]].state = "sent"
            /\ request[outstanding[id]].wait \in {"pending", "posted"}
            /\ request[outstanding[id]].outcomes = {}
            /\ \A other \in Ids : outstanding[other] = outstanding[id] => other = id
        BY Zenon, <2>1, <4>1 DEF IInv, IdInv
      <4>3. Behind(id, next_request_id') <= Cardinality(Used')
        BY Zenon, <1>2, <1>3, <2>1, <4>1
      <4>4. \A other \in Ids : outstanding'[other] = outstanding'[id] => other = id
        BY Zenon, <1>1, <1>6, <4>1, <4>2
      <4>. QED BY Zenon, <1>4, <4>1, <4>2, <4>3, <4>4
    <3>. QED BY Zenon, <3>1, <3>2
  <2>. QED BY Zenon, <1>2, <2>1 DEF IdInv
<1>. QED BY Zenon, <1>2, <1>4, <1>6, <1>7, <1>8

\* DoSend keeps the invariant, whether the datagram could be sent or not.
LEMMA DoSendInv ==
  ASSUME UdpAssumption, IInv, NEW r \in Requests, NEW s \in Sockets, NEW isSent \in BOOLEAN,
         DoSend(r, s, isSent)
  PROVE  IInv'
<1> DEFINE c == request[r]
           waits == IF c.elapsed THEN "posted" ELSE "pending"
<1>1. /\ c.state = "posted" /\ next_request_id' = NextId(next_request_id)
      /\ UNCHANGED <<udp_listening, dispatches, datagrams, late>>
  BY Zenon DEF DoSend
<1>2. /\ request \in [Requests -> RequestStates] /\ c \in RequestStates
      /\ c.wait = None /\ c.outcomes = {} /\ None # "pending"
  BY Zenon, <1>1 DEF IInv, UdpTypeOK, RequestStates, RequestInv, None
<1>3. \E d \in RequestStates : Taken(r, d)
  <2>1. CASE ~isSent
    <3>1. request' = Dropped(r) /\ outstanding' = outstanding
      BY Zenon, <2>1 DEF DoSend
    <3>2. PICK d \in RequestStates : /\ Dropped(r) = [request EXCEPT ![r] = d]
                                     /\ d.state = "dropped" /\ d.wait = None
                                     /\ d.outcomes = {"error"}
      BY Zenon, <1>1, DroppedType
    <3>. QED BY Zenon, <1>1, <1>2, <3>1, <3>2 DEF Taken
  <2>2. CASE isSent /\ c.immediate
    <3> DEFINE d == [c EXCEPT !.state = "sent"]
    <3>1. request' = [request EXCEPT ![r] = d] /\ outstanding' = outstanding
      BY <2>2 DEF DoSend
    <3>2. d \in RequestStates /\ d.state = "sent" /\ d.wait = c.wait /\ d.outcomes = c.outcomes
      <4> HIDE DEF c
      <4>. QED BY <1>2 DEF RequestStates
    <3> HIDE DEF d
    <3>. QED BY Zenon, <1>1, <1>2, <3>1, <3>2 DEF Taken
  <2>3. CASE isSent /\ ~c.immediate
    <3> DEFINE d == [c EXCEPT !.state = "sent", !.wait = waits]
    <3>1. /\ outstanding' = [outstanding EXCEPT ![next_request_id] = r]
          /\ request' = [request EXCEPT ![r].state = "sent", ![r].wait = waits]
      BY <2>3 DEF DoSend
    <3>2. request' = [request EXCEPT ![r] = d]
      BY Zenon, <1>2, <3>1 DEF RequestStates
    <3>3. /\ d \in RequestStates /\ d.state = "sent" /\ d.wait = waits
          /\ d.outcomes = c.outcomes /\ d.elapsed = c.elapsed
      <4>1. waits \in {"posted", "pending"}
        BY Zenon
      <4> HIDE DEF c, waits
      <4>. QED BY Zenon, <1>2, <4>1 DEF RequestStates
    <3> HIDE DEF d
    <3>. QED BY Zenon, <1>1, <1>2, <3>1, <3>2, <3>3 DEF Taken
  <2>. QED BY Zenon, <2>1, <2>2, <2>3
<1>4. /\ RequestInv' /\ IdInv' /\ request' \in [Requests -> RequestStates]
      /\ outstanding' \in [Ids -> Requests \cup {None}] /\ next_request_id' \in Ids
  BY Zenon, <1>3, TakenInv
<1>5. CASE socket # 0
  <2>1. socket' = socket /\ sockets' = sockets
    BY Zenon, <1>5 DEF DoSend
  <2>2. SocketInv'
    BY Zenon, <1>1, <2>1, SocketsAlone DEF IInv
  <2>3. UdpTypeOK'
    BY Zenon, <1>1, <1>4, <2>1 DEF IInv, UdpTypeOK, RequestStates
  <2>. QED BY Zenon, <1>4, <2>2, <2>3 DEF IInv
<1>6. CASE socket = 0
  <2> DEFINE ss == [sockets EXCEPT ![s].open = TRUE]
  <2>1. socket' = s /\ sockets' = StartRead(ss, s) /\ s # 0 /\ s \in 0 .. MaxSockets
    BY <1>6 DEF DoSend, UdpFresh, Sockets
  <2>2. ss \in [Sockets -> SocketStates]
    <3>1. sockets \in [Sockets -> SocketStates]
      BY DEF IInv, UdpTypeOK, SocketStates
    <3>2. [sockets[s] EXCEPT !.open = TRUE] \in SocketStates
      BY Zenon, <3>1 DEF SocketStates
    <3>. QED BY Zenon, <3>1, <3>2
  <2>3. sockets' \in [Sockets -> SocketStates]
    <3> HIDE DEF ss
    <3>. QED BY Zenon, <2>1, <2>2, StartReadKeeps
  <2>4. udp_listening = "no"
    BY <1>6 DEF IInv, SocketInv
  <2>5. SocketInv'
    BY Zenon, <1>1, <2>1, <2>4 DEF SocketInv, ReadsUntilLate
  <2>6. UdpTypeOK'
    BY Zenon, <1>1, <1>4, <2>1, <2>3 DEF IInv, UdpTypeOK, RequestStates, SocketStates
  <2>. QED BY <1>4, <2>5, <2>6 DEF IInv
<1>. QED BY <1>5, <1>6

-----------------------------------------------------------------------------
(* The theorems.                                                           *)

\* A transport that was just made satisfies the invariant.
LEMMA InitIInv ==
  ASSUME UdpAssumption, UdpInit
  PROVE  IInv
<1>1. UdpTypeOK
  <2>1. NoSocket \in [open : BOOLEAN, reading : Nat, read : Nat, failed : Nat,
                      closing : BOOLEAN, buffer : Contents]
    BY DEF NoSocket, Contents
  <2>2. 0 \in 0 .. MaxSockets /\ 0 \in 0 .. MaxDatagrams
    BY DEF UdpAssumption
  <2>. QED BY Zenon, <2>1, <2>2 DEF UdpInit, UdpTypeOK
<1>2. RequestInv
  BY Zenon DEF UdpInit, RequestInv, None
<1>3. IdInv
  BY Zenon DEF UdpInit, IdInv
<1>4. SocketInv
  BY DEF UdpInit, SocketInv, ReadsUntilLate
<1>. QED BY Zenon, <1>1, <1>2, <1>3, <1>4 DEF IInv

\* Every step of the application, the strand, the network and the clock keeps the
\* invariant.
LEMMA StepIInv ==
  ASSUME UdpAssumption, IInv, [UdpNext]_udpVars
  PROVE  IInv'
<1>1. CASE UdpNext
  <2>1. CASE UdpStopListening \/ (\E s \in Sockets : UdpStartListening(s))
               \/ (\E isOpen, bound \in BOOLEAN : OpenAndBind(isOpen, bound))
    BY Zenon, <2>1, StopListeningInv, StartListeningInv, OpenAndBindInv
  <2>2. CASE \E r \in Requests, immediate \in BOOLEAN : UdpSend(r, immediate)
    BY Zenon, <2>2, SendInv
  <2>3. CASE UdpPosted
    BY Zenon, <2>3, CloseSocketInv, HandleReadInv, HandleReadErrorInv, DispatchMessageInv
       DEF UdpPosted
  <2>4. CASE \E r \in Requests : Sending(r) \/ HandleTimeout(r) \/ UdpElapse(r)
    BY Zenon, <2>4, DoSendFailsInv, DoSendInv, HandleTimeoutInv, ElapseInv DEF Sending
  <2>5. CASE \E s \in Sockets, content \in Contents : Receive(s, content)
    BY Zenon, <2>5, ReceiveInv
  <2>. QED BY Zenon, <1>1, <2>1, <2>2, <2>3, <2>4, <2>5 DEF UdpNext
<1>2. CASE UNCHANGED udpVars
  BY Zenon, <1>2, RequestsAlone, SocketsAlone DEF udpVars, IInv, UdpTypeOK
<1>. QED BY Zenon, <1>1, <1>2

\* A set whose elements are all equal has one at most.
LEMMA AtMostOne ==
  ASSUME NEW S, \A x, y \in S : x = y
  PROVE  Cardinality(S) <= 1
<1>1. CASE S = {}
  BY <1>1, FS_EmptySet
<1>2. CASE S # {}
  <2>1. PICK x : S = {x}
    BY <1>2
  <2>. QED BY <2>1, FS_Singleton
<1>. QED BY Zenon, <1>1, <1>2

\* The invariant holds throughout, for every number of requests up to the
\* number of ids, and of sockets and datagrams.
THEOREM Invariance ==
  ASSUME UdpAssumption
  PROVE  UdpSpec => []IInv
<1>1. UdpInit => IInv
  BY Zenon, InitIInv
<1>2. IInv /\ [UdpNext]_udpVars => IInv'
  BY StepIInv
<1>. QED BY <1>1, <1>2, PTL DEF UdpSpec

\* UdpIsKept for all constants: a request has one outcome at most, one that is
\* outstanding has its timeout to come, the id 0, which marks a message that is
\* no reply, is never given to a request, and a transport that listens keeps
\* reading until the late reply that stops it.
THEOREM IsKept ==
  ASSUME UdpAssumption
  PROVE  UdpSpec => []UdpIsKept
<1>1. IInv => UdpIsKept
  <2> SUFFICES ASSUME IInv PROVE UdpIsKept
    OBVIOUS
  <2>1. UdpTypeOK /\ ReadsUntilLate
    BY Zenon DEF IInv, SocketInv
  <2>2. OneOutcome
    BY Zenon, AtMostOne DEF IInv, RequestInv, OneOutcome
  <2>3. OutstandingIsTimed
    <3> SUFFICES ASSUME NEW r \in Requests
                 PROVE  /\ Cardinality(IdOf(r)) <= 1
                        /\ IdOf(r) # {} => request[r].wait \in {"pending", "posted"}
                                           /\ request[r].outcomes = {}
                        /\ request[r].wait = "pending" => IdOf(r) # {} /\ ~request[r].elapsed
      BY Zenon DEF OutstandingIsTimed
    <3>1. r # None
      BY Zenon DEF UdpAssumption, None
    <3>2. \A x, y \in IdOf(r) : x = y
      BY <3>1 DEF IInv, IdInv, IdOf
    <3>3. Cardinality(IdOf(r)) <= 1
      BY Zenon, <3>2, AtMostOne
    <3>. QED BY <3>1, <3>3 DEF IInv, IdInv, RequestInv, IdOf
  <2>4. IdIsNotZero
    BY DEF IInv, IdInv, IdIsNotZero, UdpTypeOK, Ids, UdpAssumption
  <2>. QED BY Zenon, <2>1, <2>2, <2>3, <2>4 DEF UdpIsKept
<1>. QED BY <1>1, Invariance, PTL

-----------------------------------------------------------------------------
(* MessageHandlers.                                                        *)

\* The bytes m are of the type that was asked for with o.
IsMeant(m, o) == m.type = o.type

\* What is under way is what its sender asked for, and only answers follow the first message:
\* only one of type ManagedEndpointMessage is answered with a message that is answered again.
MessageInv ==
  /\ MessageTypeOK
  /\ wire # <<>> => IsMeant(wire[1], order)
  /\ sent > 1 => order.type \in {Reply[t] : t \in DOMAIN Reply}
  /\ ShortExchange
  /\ sent = 0 => open = {}

-----------------------------------------------------------------------------
\* MakeSerialisedWrapperMessage: nothing, or the message as it was asked for.
LEMMA WrapperIsMeant ==
  ASSUME NEW n, NEW o \in Orders, NEW result \in MakeSerialisedWrapperMessage(n, o), result # <<>>
  PROVE  result = <<Wrapper(o)>> /\ Wrapper(o) \in Bytes /\ IsMeant(Wrapper(o), o)
<1>1. result = <<Wrapper(o)>> /\ CanSecure(n, o)
  BY DEF MakeSerialisedWrapperMessage
<1>2. "encrypt" \in o.security => o.key \in Nodes
  BY <1>1 DEF CanSecure, Orders, Keys
<1>3. /\ o.type \in Types /\ o.ok \in BOOLEAN /\ o.security \in SUBSET Bits
  BY DEF Orders
<1>4. Wrapper(o) \in Bytes
  BY Zenon, <1>2, <1>3 DEF Wrapper, Bytes
<1>5. IsMeant(Wrapper(o), o)
  BY Zenon DEF Wrapper, IsMeant
<1>. QED BY Zenon, <1>1, <1>4, <1>5

\* ProcessSerialisedMessage answers a request with a plain message of the answer's type.
LEMMA AnswerIsPlain ==
  ASSUME NEW n, NEW m \in Bytes, NEW answer \in Answers(n, m), answer # <<>>
  PROVE  /\ m.type \in DOMAIN Reply
         /\ Plain(Reply[m.type], TRUE) \in Orders
         /\ answer = <<Wrapper(Plain(Reply[m.type], TRUE))>>
         /\ Wrapper(Plain(Reply[m.type], TRUE)) \in Bytes
         /\ answer[1].type = Reply[m.type]
<1>1. m.type \in DOMAIN Reply /\ \E f \in Filled(m.type) : answer \in WrapMessage(n, Reply[m.type], f)
  BY DEF Answers
<1>2. answer \in MakeSerialisedWrapperMessage(n, Plain(Reply[m.type], TRUE))
  BY Zenon, <1>1 DEF WrapMessage, Filled
<1> DEFINE type == Reply[m.type]
<1>3. type \in Types
  BY <1>1 DEF Types, Signals
<1> HIDE DEF type
<1>4. Plain(type, TRUE) \in Orders
  BY <1>3 DEF Plain, Orders, Keys
<1>5. answer = <<Wrapper(Plain(type, TRUE))>> /\ Wrapper(Plain(type, TRUE)) \in Bytes
  BY Zenon, <1>2, <1>4, WrapperIsMeant DEF type
<1>6. Wrapper(Plain(type, TRUE)).type = type
  BY DEF Wrapper, Plain
<1>. QED BY Zenon, <1>1, <1>4, <1>5, <1>6 DEF type

\* An answer that is a request is a ManagedEndpointMessage.
LEMMA OneTypeGoesOn ==
  ASSUME NEW t \in DOMAIN Reply, t \in {Reply[u] : u \in DOMAIN Reply}
  PROVE  Reply[t] = "ManagedEndpointMessage"
BY DEF Reply

-----------------------------------------------------------------------------
LEMMA SendKeeps == ASSUME MessageInv, NEW waits \in BOOLEAN, SendMessage(waits) PROVE MessageInv'
<1>1. /\ order \in Orders /\ order' = order /\ sent' = 1
      /\ UNCHANGED <<keyed, to, heard>> /\ open' \in {open, {Callee} \cup {n \in {Caller} : waits}}
      /\ wire' \in MakeSerialisedWrapperMessage(Caller, order)
  BY DEF MessageInv, MessageTypeOK, SendMessage
<1>2. CASE wire' = <<>>
  BY <1>1, <1>2 DEF MessageInv, MessageTypeOK, ShortExchange, Nodes
<1>3. CASE wire' # <<>>
  <2>1. wire' = <<Wrapper(order)>> /\ Wrapper(order) \in Bytes /\ IsMeant(Wrapper(order), order)
    BY Zenon, <1>1, <1>3, WrapperIsMeant
  <2>2. wire' \in Seq(Bytes) /\ Len(wire') <= 1 /\ wire'[1] = Wrapper(order)
    BY <2>1
  <2>3. MessageTypeOK'
    BY <1>1, <2>2 DEF MessageInv, MessageTypeOK, Nodes
  <2>. QED BY <1>1, <2>1, <2>2, <2>3 DEF MessageInv, ShortExchange
<1>. QED BY <1>2, <1>3

\* DispatchMessage: an answer is the message that its own order asks for.
LEMMA DispatchKeeps ==
  ASSUME MessageInv, NEW waits \in BOOLEAN, DispatchToHandler(waits)
  PROVE  MessageInv'
<1> DEFINE m == wire[1]
<1>1. /\ m \in Bytes /\ wire # <<>> /\ m.type = order.type
      /\ to \in Nodes /\ to \in open /\ open \subseteq Nodes /\ sent \in 0..3
  BY DEF MessageInv, MessageTypeOK, DispatchToHandler, IsMeant
<1>2. /\ heard' = [heard EXCEPT ![to] = Told(to, m)]
      /\ wire' \in IF Opens(to, m) THEN Answers(to, m) ELSE {<<>>}
      /\ open' = IF waits THEN open ELSE open \ {to}
      /\ keyed' = keyed
      /\ wire' = <<>> => UNCHANGED <<order, to, sent>>
      /\ wire' # <<>> => /\ order' = Plain(wire'[1].type, TRUE) /\ to' = Peer(to)
                         /\ sent' = IF sent < 3 THEN sent + 1 ELSE 3
  BY Zenon DEF DispatchToHandler
<1> HIDE DEF m
<1>4. heard' \in [Nodes -> {"nothing", "slot", "error", "dropped"}]
  BY Zenon, <1>1, <1>2 DEF MessageInv, MessageTypeOK, Told
<1>5. open' \subseteq Nodes /\ keyed' \subseteq Nodes
  BY Zenon, <1>1, <1>2 DEF MessageInv, MessageTypeOK
<1>6. CASE wire' = <<>>
  BY <1>2, <1>4, <1>5, <1>6 DEF MessageInv, MessageTypeOK, ShortExchange
<1>7. CASE wire' # <<>>
  <2> DEFINE type == Reply[m.type]
             o == Plain(type, TRUE)
  <2>1. /\ m.type \in DOMAIN Reply /\ o \in Orders /\ wire' = <<Wrapper(o)>>
        /\ Wrapper(o) \in Bytes /\ wire'[1].type = type
    BY Zenon, <1>1, <1>2, <1>7, AnswerIsPlain
  <2>2. order' = o /\ order'.type = type
    BY <1>2, <1>7, <2>1 DEF Plain
  <2>3. to' \in Nodes
    BY Zenon, <1>1, <1>2, <1>7, MessageAssumption DEF Peer, Nodes
  <2>4. sent' \in 1..3
    BY <1>1, <1>2, <1>7
  <2>5. type \in {Reply[t] : t \in DOMAIN Reply}
    BY Zenon, <2>1
  <2>6. sent' = 3 => type = "ManagedEndpointMessage"
    BY <1>1, <1>2, <1>7, <2>1, OneTypeGoesOn DEF MessageInv
  <2> HIDE DEF type
  <2>7. IsMeant(Wrapper(o), o)
    BY Zenon DEF Wrapper, IsMeant
  <2> HIDE DEF o
  <2>8. wire' \in Seq(Bytes) /\ Len(wire') <= 1 /\ wire'[1] = Wrapper(o)
    BY <2>1
  <2>9. MessageTypeOK'
    BY <1>4, <1>5, <2>1, <2>2, <2>3, <2>4, <2>8 DEF MessageTypeOK
  <2>. QED BY <2>2, <2>4, <2>5, <2>6, <2>7, <2>8, <2>9 DEF MessageInv, ShortExchange
<1>. QED BY <1>6, <1>7

LEMMA CutKeeps == ASSUME MessageInv, Cut PROVE MessageInv'
<1>1. PICK c \in {"seed", "wrapper"} : wire' = <<[wire[1] EXCEPT !.cut = c]>>
  BY DEF Cut
<1>2. wire[1] \in Bytes /\ wire # <<>> /\ UNCHANGED <<keyed, order, to, open, heard, sent>>
  BY DEF Cut, MessageInv, MessageTypeOK
<1> DEFINE m == [wire[1] EXCEPT !.cut = c]
<1>3. m \in Bytes /\ (IsMeant(wire[1], order) => IsMeant(m, order))
  BY <1>2 DEF Bytes, IsMeant
<1> HIDE DEF m
<1>4. wire' \in Seq(Bytes) /\ Len(wire') <= 1 /\ wire'[1] = m
  BY <1>1, <1>3 DEF m
<1>5. MessageTypeOK'
  BY Zenon, <1>2, <1>4 DEF MessageInv, MessageTypeOK
<1>. QED BY <1>2, <1>3, <1>4, <1>5 DEF MessageInv, ShortExchange

\* Lost with the connection, not read, or waited for in vain.
LEMMA EndKeeps ==
  ASSUME MessageInv, Unread \/ Lose \/ \E n \in Nodes : CloseEndOnError(n) PROVE MessageInv'
<1>1. /\ UNCHANGED <<keyed, order, to, sent>> /\ wire' \in {wire, <<>>}
      /\ open' \subseteq open /\ heard' \in [Nodes -> {"nothing", "slot", "error", "dropped"}]
  BY Zenon DEF MessageInv, MessageTypeOK, Unread, Lose, CloseEndOnError, OnError
<1>0. <<>> \in Seq(Bytes) /\ Len(<<>>) <= 1
  OBVIOUS
<1>2. wire' \in Seq(Bytes) /\ Len(wire') <= 1
  BY Zenon, <1>0, <1>1 DEF MessageInv, MessageTypeOK
<1>. QED BY Zenon, <1>1, <1>2 DEF MessageInv, MessageTypeOK, ShortExchange

LEMMA MessageInvariance == MessageSpec => []MessageInv
<1>1. MessageInit => MessageInv
  <2> SUFFICES ASSUME MessageInit PROVE MessageInv
    BY Zenon
  <2>1. wire \in Seq(Bytes) /\ Len(wire) = 0
    BY DEF MessageInit
  <2>2. MessageTypeOK
    BY <2>1 DEF MessageInit, MessageTypeOK, Nodes
  <2>. QED BY <2>2 DEF MessageInit, MessageInv, ShortExchange
<1>2. MessageInv /\ [MessageNext]_messageVars => MessageInv'
  <2>1. ASSUME MessageInv, UNCHANGED messageVars PROVE MessageInv'
    BY Zenon, <2>1 DEF MessageInv, MessageTypeOK, ShortExchange, messageVars
  <2>. QED BY Zenon, <2>1, SendKeeps, DispatchKeeps, CutKeeps, EndKeeps DEF MessageNext
<1>. QED BY <1>1, <1>2, PTL DEF MessageSpec

-----------------------------------------------------------------------------
\* The safety half of ExchangeEnds: only ManagedEndpointMessages make an exchange longer than a
\* message and its answer, and the end of a waiting caller closes only after it has handled a
\* message or has raised on_error.
THEOREM ExchangeIsShort == MessageSpec => []ShortExchange /\ CallerIsTold
<1>1. MessageInv /\ [MessageNext]_messageVars =>
        [(Caller \in open /\ Caller \notin open' => heard'[Caller] # "nothing")]_messageVars
  <2> SUFFICES ASSUME MessageInv, MessageNext, Caller \in open, Caller \notin open'
               PROVE  heard'[Caller] # "nothing"
    BY Zenon
  <2>1. Caller \in Nodes /\ heard \in [Nodes -> {"nothing", "slot", "error", "dropped"}]
    BY Zenon DEF MessageInv, MessageTypeOK, Nodes
  <2>2. ASSUME NEW waits \in BOOLEAN, DispatchToHandler(waits) PROVE heard'[Caller] # "nothing"
    BY Zenon, <2>1, <2>2 DEF DispatchToHandler, Told
  <2>3. ASSUME NEW n \in Nodes, CloseEndOnError(n) PROVE heard'[Caller] # "nothing"
    BY Zenon, <2>1, <2>3 DEF CloseEndOnError, OnError
  <2>4. ASSUME NEW waits \in BOOLEAN, SendMessage(waits) PROVE FALSE
    BY Zenon, <2>4 DEF MessageInv, SendMessage
  <2>. QED BY Zenon, <2>2, <2>3, <2>4 DEF MessageNext, Cut, Unread, Lose
<1>2. MessageInv => ShortExchange
  BY DEF MessageInv
<1>. QED BY <1>1, <1>2, MessageInvariance, PTL DEF MessageSpec, CallerIsTold
=============================================================================
