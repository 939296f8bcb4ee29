--------------------------- MODULE RudpHandshake ----------------------------
(***************************************************************************)
(* Setting up and closing RUDP connections: RudpSession at both ends, the  *)
(* RudpDispatcher and the RudpAcceptor of a listening RudpTransport, over  *)
(* a network that may lose, duplicate, delay and reorder packets.          *)
(*                                                                         *)
(* A socket's id and its random initial sequence number are represented by *)
(* the socket itself: numbers drawn by different sockets differ.  A client *)
(* socket connects once; the listening transport numbers its sockets in    *)
(* the order in which it creates them.                                     *)
(***************************************************************************)
EXTENDS Integers, Sequences

CONSTANTS
  Clients,      \* client sockets
  MaxServers,   \* bound: sockets the listening transport creates
  MaxPending,   \* bound: length of pending_requests_
  MaxLosses     \* bound: packets lost; duplication is not bounded

ASSUME HandshakeAssumption ==
  /\ Clients \cap Int = {}
  /\ MaxServers \in Nat \ {0}
  /\ MaxPending \in Nat
  /\ MaxLosses \in Nat

Servers == 1 .. MaxServers
Sockets == Clients \cup Servers
None == 0   \* socket id 0 is the acceptor's address and "no peer yet"

VARIABLES
  state,                  \* RudpSession::state_
  peer,                   \* RudpPeer::id_
  receiving,              \* RudpSession::receiving_sequence_number_
  opened,                 \* sockets whose RudpSession::id_ has been assigned
  sockets,                \* RudpDispatcher::sockets_
  created,                \* server sockets created so far
  waiting_accept_socket,  \* RudpAcceptor::waiting_accept_socket_
  pending_requests,       \* RudpAcceptor::pending_requests_
  accepted,               \* the socket whose HandleAccept is posted, or None
  listening,              \* how far RudpTransport::StopListening has come
  net,                    \* packets in flight
  losses                  \* packets lost so far

sessionVars == <<state, peer, receiving, opened, sockets>>
acceptorVars == <<created, waiting_accept_socket, pending_requests, accepted, listening>>
vars == <<sessionVars, acceptorVars, net, losses>>

\* "yes": the transport listens.  "stopping": StopListening has reset acceptor_ and
\* replaced multiplexer_ on its caller's thread, and CloseAcceptor and
\* CloseMultiplexer wait in the strand.  "closing": CloseAcceptor has run.
\* "no": so has CloseMultiplexer.  "crashed": a null acceptor_ was dereferenced.
Phases == {"yes", "stopping", "closing", "no", "crashed"}

\* RudpAcceptor::IsOpen and RudpMultiplexer::IsOpen of the listener: StopListening
\* does not close them, the handlers that it dispatches do.
AcceptorIsOpen == listening \in {"yes", "stopping"}
MultiplexerIsOpen == listening \in {"yes", "stopping", "closing"}

IsOpen(s) == state[s] # "closed"
IsConnected(s) == state[s] = "connected"

-----------------------------------------------------------------------------
(* Packets.  RudpPeer::Send fails once the multiplexer is closed.          *)

ConnectionRequest(c) == [type |-> "request", from |-> c, to |-> None]
CookieChallenge(s, to) == [type |-> "challenge", from |-> s, to |-> to]
CookieResponse(c, to) == [type |-> "response", from |-> c, to |-> to]
ConnectionAccepted(s, to) == [type |-> "accepted", from |-> s, to |-> to]
Shutdown(s, to) == [type |-> "shutdown", from |-> s, to |-> to]

\* The dispatch under way when the transport stops hands on all that has arrived
\* (RudpDispatchOp); only the read after it is of the new multiplexer.
Reachable(s) == s \in Clients \/ MultiplexerIsOpen

Sent(s, packet) == IF Reachable(s) THEN {packet} ELSE {}

\* p arrives, or one copy of it does, and the handler sends replies.
Arrive(p, replies) ==
  /\ net' \in {net \cup replies, (net \ {p}) \cup replies}
  /\ UNCHANGED losses

Lose(p) ==
  /\ losses < MaxLosses
  /\ net' = net \ {p}
  /\ losses' = losses + 1
  /\ UNCHANGED <<sessionVars, acceptorVars>>

-----------------------------------------------------------------------------
(* The client.                                                             *)

\* RudpSocket::StartConnect(remote) and RudpSession::Open.
Connect(c) ==
  /\ c \notin opened
  /\ opened' = opened \cup {c}
  /\ sockets' = sockets \cup {c}
  /\ state' = [state EXCEPT ![c] = "probing"]
  /\ net' = net \cup {ConnectionRequest(c)}
  /\ UNCHANGED <<peer, receiving, acceptorVars, losses>>

\* Faulty variant of ClientTick: the response is never sent again.
WrongClientTick(c) ==
  /\ state[c] = "probing"
  /\ net' = net \cup {ConnectionRequest(c)}
  /\ UNCHANGED <<sessionVars, acceptorVars, losses>>

\* RudpSession::HandleTick: the request or the response is sent again.
ClientTick(c) ==
  /\ state[c] \in {"probing", "handshaking"}
  /\ net' = net \cup {IF state[c] = "probing" THEN ConnectionRequest(c)
                                             ELSE CookieResponse(c, peer[c])}
  /\ UNCHANGED <<sessionVars, acceptorVars, losses>>

\* Faulty variant of ClientPeer: the latest answer decides the peer.
WrongClientPeer(c, p) == p.from

\* The first handshake packet decides which socket is the peer.
ClientPeer(c, p) == IF peer[c] = None THEN p.from ELSE peer[c]

\* RudpSocket::HandleHandshake and RudpSession::HandleHandshake, kClient.
ClientHandshake(p) ==
  /\ p.type \in {"challenge", "accepted"}
  /\ p.to \in sockets
  /\ LET c == p.to
         id == ClientPeer(c, p)
     IN  /\ peer' = [peer EXCEPT ![c] = id]
         /\ IF IsConnected(c)
              THEN Arrive(p, {}) /\ UNCHANGED <<state, receiving>>
              ELSE IF p.type = "accepted"
              THEN /\ state' = [state EXCEPT ![c] = "connected"]
                   /\ receiving' = [receiving EXCEPT ![c] = p.from]
                   /\ Arrive(p, {})
              ELSE /\ state' = [state EXCEPT ![c] = "handshaking"]
                   /\ Arrive(p, {CookieResponse(c, id)})
                   /\ UNCHANGED receiving
  /\ UNCHANGED <<opened, sockets, acceptorVars>>

-----------------------------------------------------------------------------
(* The listening side.                                                     *)

\* RudpTransport::StartAccept creates socket s and RudpAcceptor::StartAccept
\* gives it a queued request or lets it wait.  The last socket of the bound
\* is not followed by another.
StartAccept ==
  LET s == created + 1
  IN  IF created = MaxServers
        THEN /\ accepted' = None
             /\ UNCHANGED <<created, waiting_accept_socket, pending_requests>>
        ELSE /\ created' = s
             /\ IF pending_requests = <<>>
                  THEN /\ waiting_accept_socket' = s
                       /\ accepted' = None
                       /\ UNCHANGED pending_requests
                  ELSE /\ accepted' = s
                       /\ pending_requests' = Tail(pending_requests)
                       /\ UNCHANGED waiting_accept_socket

\* Faulty variant of AcceptRequest: the waiting socket stays registered.
WrongAcceptRequest(p) ==
  /\ p.type = "request"
  /\ AcceptorIsOpen
  /\ IF waiting_accept_socket # None
       THEN /\ peer' = [peer EXCEPT ![waiting_accept_socket] = p.from]
            /\ accepted' = waiting_accept_socket
            /\ UNCHANGED <<waiting_accept_socket, pending_requests>>
       ELSE /\ Len(pending_requests) < MaxPending
            /\ pending_requests' = Append(pending_requests, p.from)
            /\ UNCHANGED <<peer, waiting_accept_socket, accepted>>
  /\ Arrive(p, {})
  /\ UNCHANGED <<state, receiving, opened, sockets, created, listening>>

\* RudpAcceptor::HandleReceiveFrom.
AcceptRequest(p) ==
  /\ p.type = "request"
  /\ AcceptorIsOpen
  /\ IF waiting_accept_socket # None
       THEN /\ peer' = [peer EXCEPT ![waiting_accept_socket] = p.from]
            /\ accepted' = waiting_accept_socket
            /\ waiting_accept_socket' = None
            /\ UNCHANGED pending_requests
       ELSE /\ Len(pending_requests) < MaxPending
            /\ pending_requests' = Append(pending_requests, p.from)
            /\ UNCHANGED <<peer, waiting_accept_socket, accepted>>
  /\ Arrive(p, {})
  /\ UNCHANGED <<state, receiving, opened, sockets, created, listening>>

\* RudpTransport::HandleAccept: if the acceptor is still open the accepted socket
\* opens its session and sends the challenge; then the next accept starts, which
\* dereferences acceptor_.  StopListening may have reset that although the acceptor
\* is open: this ends the process.
HandleAccept ==
  /\ accepted # None
  /\ listening # "crashed"
  /\ LET s == accepted
     IN  IF AcceptorIsOpen
           THEN /\ opened' = opened \cup {s}
                /\ sockets' = sockets \cup {s}
                /\ state' = [state EXCEPT ![s] = "handshaking"]
                /\ net' = net \cup {CookieChallenge(s, peer[s])}
           ELSE UNCHANGED <<state, opened, sockets, net>>
  /\ IF listening = "yes"
       THEN /\ StartAccept
            \* A queued request names the peer of the next socket.
            /\ peer' = IF accepted' = None THEN peer
                         ELSE [peer EXCEPT ![accepted'] = Head(pending_requests)]
            /\ UNCHANGED listening
       ELSE /\ accepted' = None
            /\ listening' = IF AcceptorIsOpen THEN "crashed" ELSE listening
            /\ UNCHANGED <<peer, created, waiting_accept_socket, pending_requests>>
  /\ UNCHANGED <<receiving, losses>>

\* RudpSocket::HandleHandshake and RudpSession::HandleHandshake, kServer.  The
\* peer is known since the accept, and only responses, which carry the cookie,
\* are addressed to a server socket.
ServerHandshake(p) ==
  /\ p.type = "response"
  /\ p.to \in sockets
  /\ Reachable(p.to)
  /\ IF IsConnected(p.to)
       THEN UNCHANGED <<state, receiving>>
       ELSE /\ state' = [state EXCEPT ![p.to] = "connected"]
            /\ receiving' = [receiving EXCEPT ![p.to] = p.from]
  /\ Arrive(p, {ConnectionAccepted(p.to, peer[p.to])})
  /\ UNCHANGED <<peer, opened, sockets, acceptorVars>>

-----------------------------------------------------------------------------
(* Closing.                                                                *)

\* RudpSocket::Close on an open socket: session_.Close() leaves the id and the
\* receiving sequence number as they are.
CloseSession(s) ==
  /\ state' = [state EXCEPT ![s] = "closed"]
  /\ peer' = [peer EXCEPT ![s] = None]
  /\ sockets' = sockets \ {s}
  /\ UNCHANGED <<receiving, opened>>

\* The application, or a timeout of the RudpConnection, closes the socket.
Close(s) ==
  /\ IsOpen(s)
  /\ s \in Servers => listening # "crashed"
  /\ CloseSession(s)
  /\ net' = net \cup Sent(s, Shutdown(s, peer[s]))
  /\ UNCHANGED <<acceptorVars, losses>>

\* A shutdown packet arrives.  One sent before the peer was known is addressed
\* to the acceptor, which ignores it.
HandleShutdown(p) ==
  /\ p.type = "shutdown"
  /\ p.to \in sockets
  /\ Reachable(p.to)
  /\ CloseSession(p.to)
  /\ Arrive(p, Sent(p.to, Shutdown(p.to, peer[p.to])))
  /\ UNCHANGED acceptorVars

\* RudpTransport::StopListening, on the thread of its caller.
StopListening ==
  /\ listening = "yes"
  /\ listening' = "stopping"
  /\ UNCHANGED <<sessionVars, created, waiting_accept_socket, pending_requests, accepted,
                 net, losses>>

\* RudpTransport::CloseAcceptor and RudpAcceptor::Close, in the strand: the
\* cancelled accept, or one posted before, then finds the acceptor closed.
CloseAcceptor ==
  /\ listening = "stopping"
  /\ listening' = "closing"
  /\ pending_requests' = <<>>
  /\ accepted' = IF waiting_accept_socket # None THEN waiting_accept_socket ELSE accepted
  /\ UNCHANGED <<sessionVars, created, waiting_accept_socket, net, losses>>

\* RudpTransport::CloseMultiplexer, dispatched after CloseAcceptor.
CloseMultiplexer ==
  /\ listening = "closing"
  /\ listening' = "no"
  /\ UNCHANGED <<sessionVars, created, waiting_accept_socket, pending_requests, accepted,
                 net, losses>>

-----------------------------------------------------------------------------
\* The transport listens: RudpTransport::StartListening has created the first
\* socket.
Init ==
  /\ state = [s \in Sockets |-> "closed"]
  /\ peer = [s \in Sockets |-> None]
  /\ receiving = [s \in Sockets |-> None]
  /\ opened = {}
  /\ sockets = {}
  /\ created = 1
  /\ waiting_accept_socket = 1
  /\ pending_requests = <<>>
  /\ accepted = None
  /\ listening = "yes"
  /\ net = {}
  /\ losses = 0

\* A packet for a socket that is gone, or for the acceptor of a transport that
\* no longer listens, is dropped: the packet then just stays in net.
Deliver(p) ==
  \/ ClientHandshake(p)
  \/ AcceptRequest(p)
  \/ ServerHandshake(p)
  \/ HandleShutdown(p)

Next ==
  \/ \E c \in Clients : Connect(c)
  \/ \E c \in Clients : ClientTick(c)
  \/ HandleAccept
  \/ \E s \in Sockets : Close(s)
  \/ StopListening \/ CloseAcceptor \/ CloseMultiplexer
  \/ \E p \in net : Deliver(p)
  \/ \E p \in net : Lose(p)

Spec == Init /\ [][Next]_vars

-----------------------------------------------------------------------------
(* Properties.                                                             *)

\* Type invariant.  Every handshake packet after the request has an addressee.
Packets ==
  [type : {"request"}, from : Clients, to : {None}]
    \cup [type : {"challenge", "accepted"}, from : Servers, to : Clients]
    \cup [type : {"response"}, from : Clients, to : Servers]
    \cup [type : {"shutdown"}, from : Sockets, to : Sockets \cup {None}]

TypeOK ==
  /\ state \in [Sockets -> {"closed", "probing", "handshaking", "connected"}]
  /\ peer \in [Sockets -> Sockets \cup {None}]
  /\ receiving \in [Sockets -> Sockets \cup {None}]
  /\ opened \subseteq Sockets
  /\ sockets \subseteq Sockets
  /\ created \in Servers
  /\ waiting_accept_socket \in Servers \cup {None}
  /\ pending_requests \in Seq(Clients)
  /\ Len(pending_requests) <= MaxPending
  /\ accepted \in Servers \cup {None}
  /\ listening \in Phases
  /\ net \subseteq Packets
  /\ losses \in 0 .. MaxLosses

\* A connected client has a peer that agrees: the server socket expects the
\* client's sequence numbers and the client the server's, and the server did
\* connect before it (RudpSession::HandleHandshake on both sides).
Agreement ==
  \A c \in Clients : IsConnected(c) =>
    LET s == peer[c]
    IN  /\ s \in Servers
        /\ receiving[c] = s
        /\ receiving[s] = c
        /\ state[s] \in {"connected", "closed"}
        /\ IsConnected(s) => peer[s] = c

\* However many sockets duplicated requests create, at most one of them is ever
\* connected to a client.
OneServerPerClient ==
  \A s, t \in Servers : receiving[s] # None /\ receiving[s] = receiving[t] => s = t

\* The dispatcher routes packets to exactly the sockets whose session is open
\* (AddSocket, RemoveSocket and RudpSocket::Close).
RegisteredIsOpen == sockets = {s \in Sockets : IsOpen(s)}

\* The acceptor never holds a request while a socket waits for one, and the
\* socket that it hands out has a peer and has never been open: there is one
\* accept at a time (the assertion in RudpAcceptor::StartAccept).
AcceptorReady ==
  AcceptorIsOpen =>
  /\ waiting_accept_socket # None =>
       /\ pending_requests = <<>>
       /\ accepted = None
       /\ peer[waiting_accept_socket] = None
       /\ waiting_accept_socket \notin opened
  /\ accepted # None =>
       /\ peer[accepted] \in Clients
       /\ accepted \notin opened

\* A connected client has a peer that connected before it and expects its sequence
\* numbers, as it expects the peer's (RudpSession::HandleHandshake); and however
\* often a request is repeated, no two sockets of the listener are connected to
\* the same client.
EndsAgree == Agreement /\ OneServerPerClient

\* The dispatcher's table has exactly the open sockets, and the acceptor, until
\* CloseAcceptor has run, never holds a request while a socket waits for one,
\* whatever is closed and however far a StopListening has come when HandleAccept and
\* StartAccept run.  (That StartAccept then finds acceptor_ reset is listening =
\* "crashed"; the property says what the listener is like up to that step.)
ListenerConsistent == TypeOK /\ RegisteredIsOpen /\ AcceptorReady

\* Once connected, a session keeps its peer and its sequence number until it
\* closes, whatever old handshake packets arrive, and it never opens again.
ConnectedIsFinal ==
  [][\A s \in Sockets :
       /\ IsConnected(s) =>
            /\ state'[s] \in {"connected", "closed"}
            /\ receiving'[s] = receiving[s]
            /\ state'[s] = "connected" => peer'[s] = peer[s]
       /\ s \in opened /\ ~IsOpen(s) => state'[s] = "closed"]_vars

\* "If the socket is closed, it means the connection has been shut down": while
\* the server's end of a client's connection stands, only the client's own side
\* closes its end.
ClosedByItsEnds ==
  [][\A c \in Clients :
       IsConnected(c) /\ IsConnected(peer[c]) /\ state'[c] = "closed" => Close(c)]_vars
-----------------------------------------------------------------------------
(* The inductive invariant of the safety properties.                       *)

\* A client never answers but one server socket, whether the answer is still on
\* its way or has arrived.
HasAnswered(c, s) == CookieResponse(c, s) \in net \/ receiving[s] = c

\* A server socket is paired with the client whose request it was given.
PairedWith(s, c) == s \in opened /\ (IsOpen(s) => peer[s] = c)

\* What a socket's state says of its peer.
SessionInv ==
  /\ \A s \in Sockets : IsOpen(s) => s \in opened
  /\ \A s \in Sockets :
       receiving[s] # None => s \in opened /\ state[s] \in {"connected", "closed"}
  /\ \A s \in Sockets : IsConnected(s) => receiving[s] = peer[s]
  /\ \A c \in Clients :
       /\ peer[c] \in Servers \cup {None}
       /\ state[c] \in {"handshaking", "connected"} => peer[c] \in Servers
       /\ IsConnected(c) => receiving[peer[c]] = c
       /\ peer[c] # None => PairedWith(peer[c], c)
  /\ \A s \in Servers :
       /\ peer[s] \in Clients \cup {None}
       /\ receiving[s] \in Clients \cup {None}
       /\ IsOpen(s) => state[s] \in {"handshaking", "connected"} /\ peer[s] \in Clients

\* What a packet in flight says of the sockets that it is from and for.
PacketInv ==
  /\ \A s \in Servers, c \in Clients :
       /\ CookieChallenge(s, c) \in net => PairedWith(s, c)
       /\ ConnectionAccepted(s, c) \in net => receiving[s] = c
  /\ \A c \in Clients, s \in Servers : HasAnswered(c, s) =>
       /\ PairedWith(s, c)
       /\ c \in opened
       /\ IsOpen(c) => peer[c] = s
       /\ \A t \in Servers : HasAnswered(c, t) => t = s

\* While the acceptor is open, the last socket created is the one that waits or
\* the one whose HandleAccept is posted, and none beyond it is in use.
AcceptorInv ==
  /\ AcceptorIsOpen =>
       /\ waiting_accept_socket # None =>
            /\ waiting_accept_socket = created
            /\ accepted = None
            /\ pending_requests = <<>>
            /\ created \notin opened
            /\ peer[created] = None
       /\ accepted # None =>
            accepted = created /\ created \notin opened /\ peer[created] \in Clients
       /\ \A s \in Servers : s > created => s \notin opened /\ peer[s] = None

IInv == TypeOK /\ RegisteredIsOpen /\ SessionInv /\ PacketInv /\ AcceptorInv
=============================================================================
