-------------------------- MODULE RudpSocketProofs --------------------------
(***************************************************************************)
(* Proofs about RudpHandshake for any number of clients and sockets of the *)
(* listener, any queue of requests and any number of losses, and about     *)
(* RudpTicks for any delays, timeouts and windows.                         *)
(***************************************************************************)
EXTENDS RudpHandshake, RudpTicks, SequenceTheorems, TLAPS

\* Socket ids: a client, a socket of the listener and "no peer" are never the same.
LEMMA Ids ==
  /\ None \notin Sockets
  /\ Clients \cap Servers = {}
  /\ Servers \subseteq Nat
  /\ Sockets = Clients \cup Servers
BY HandshakeAssumption DEF Sockets, Servers, None

\* Packets have the types that their constructors give them.
LEMMA PacketTypes ==
  /\ \A c \in Clients : ConnectionRequest(c) \in Packets
  /\ \A s \in Servers, c \in Clients :
       CookieChallenge(s, c) \in Packets /\ ConnectionAccepted(s, c) \in Packets
  /\ \A c \in Clients, s \in Servers : CookieResponse(c, s) \in Packets
  /\ \A s \in Sockets, t \in Sockets \cup {None} : Shutdown(s, t) \in Packets
BY DEF Packets, ConnectionRequest, CookieChallenge, CookieResponse, ConnectionAccepted, Shutdown

\* A packet of a kind is what its constructor makes of its ends.
LEMMA PacketForms ==
  ASSUME NEW p \in Packets
  PROVE  /\ p.type = "request" => p.from \in Clients
         /\ p.type = "challenge" =>
              p.from \in Servers /\ p.to \in Clients /\ p = CookieChallenge(p.from, p.to)
         /\ p.type = "accepted" =>
              p.from \in Servers /\ p.to \in Clients /\ p = ConnectionAccepted(p.from, p.to)
         /\ p.type = "response" =>
              p.from \in Clients /\ p.to \in Servers /\ p = CookieResponse(p.from, p.to)
BY DEF Packets, CookieChallenge, CookieResponse, ConnectionAccepted

\* What IInv says of the ids in use.
LEMMA IInvTypes ==
  ASSUME IInv
  PROVE  /\ \A s \in Sockets : state[s] \in {"closed", "probing", "handshaking", "connected"}
         /\ \A s \in Sockets : s \in sockets <=> state[s] # "closed"
         /\ DOMAIN state = Sockets /\ DOMAIN peer = Sockets /\ DOMAIN receiving = Sockets
BY DEF IInv, TypeOK, RegisteredIsOpen, IsOpen

\* What a packet in flight tells of its two ends.
LEMMA PacketFacts ==
  ASSUME IInv, NEW p \in net
  PROVE  /\ p \in Packets
         /\ p.type = "request" => p.from \in Clients
         /\ p.type = "challenge" =>
              p.from \in Servers /\ p.to \in Clients /\ PairedWith(p.from, p.to)
         /\ p.type = "accepted" =>
              /\ p.from \in Servers /\ p.to \in Clients /\ PairedWith(p.from, p.to)
              /\ receiving[p.from] = p.to
              /\ IsOpen(p.to) => peer[p.to] = p.from
         /\ p.type = "response" =>
              p.from \in Clients /\ p.to \in Servers /\ HasAnswered(p.from, p.to)
              /\ PairedWith(p.to, p.from)
<1>1. p \in Packets
  BY DEF IInv, TypeOK
<1>2. ASSUME p.type = "challenge"
      PROVE  p.from \in Servers /\ p.to \in Clients /\ PairedWith(p.from, p.to)
  <2>1. p.from \in Servers /\ p.to \in Clients /\ CookieChallenge(p.from, p.to) \in net
    BY <1>1, <1>2, PacketForms
  <2>. QED BY <2>1 DEF IInv, PacketInv
<1>3. ASSUME NEW c \in Clients, NEW s \in Servers, HasAnswered(c, s)
      PROVE  PairedWith(s, c) /\ (IsOpen(c) => peer[c] = s)
  BY <1>3 DEF IInv, PacketInv
<1>4. ASSUME p.type = "accepted"
      PROVE  /\ p.from \in Servers /\ p.to \in Clients /\ PairedWith(p.from, p.to)
             /\ receiving[p.from] = p.to
             /\ IsOpen(p.to) => peer[p.to] = p.from
  <2>1. p.from \in Servers /\ p.to \in Clients /\ ConnectionAccepted(p.from, p.to) \in net
    BY <1>1, <1>4, PacketForms
  <2>2. receiving[p.from] = p.to
    BY <2>1 DEF IInv, PacketInv
  <2>. QED BY <1>3, <2>1, <2>2 DEF HasAnswered
<1>5. ASSUME p.type = "response"
      PROVE  p.from \in Clients /\ p.to \in Servers /\ HasAnswered(p.from, p.to)
             /\ PairedWith(p.to, p.from)
  <2>1. p.from \in Clients /\ p.to \in Servers /\ CookieResponse(p.from, p.to) \in net
    BY <1>1, <1>5, PacketForms
  <2>2. HasAnswered(p.from, p.to)
    BY <2>1 DEF HasAnswered
  <2>. QED BY <1>3, <2>1, <2>2
<1>. QED
  BY <1>1, <1>2, <1>4, <1>5, PacketForms

\* RudpSocket::StartConnect of a client keeps the invariant.
LEMMA ConnectInv ==
  ASSUME IInv, NEW c \in Clients, Connect(c) PROVE IInv'
<1> USE Ids
<1>1. net' = net \cup {ConnectionRequest(c)}
  BY DEF Connect
<1>2. \A a, b : /\ CookieChallenge(a, b) \in net' => CookieChallenge(a, b) \in net
                /\ CookieResponse(a, b) \in net' => CookieResponse(a, b) \in net
                /\ ConnectionAccepted(a, b) \in net' => ConnectionAccepted(a, b) \in net
  BY <1>1 DEF ConnectionRequest, CookieChallenge, CookieResponse, ConnectionAccepted
<1>3. c \notin opened /\ state[c] = "closed" /\ c \in Sockets
  BY DEF Connect, IInv, SessionInv, IsOpen
<1>4. TypeOK'
  <2>1. net' \subseteq Packets
    BY <1>1, PacketTypes DEF IInv, TypeOK
  <2>. QED
    BY <1>3, <2>1 DEF Connect, IInv, TypeOK, acceptorVars
<1>5. RegisteredIsOpen'
  BY <1>3, IInvTypes DEF Connect, IInv, RegisteredIsOpen, IsOpen
<1>6. SessionInv'
  BY <1>3, IInvTypes DEF Connect, IInv, SessionInv, IsOpen, IsConnected, PairedWith
<1>7. PacketInv'
  BY <1>2, <1>3, IInvTypes DEF Connect, IInv, PacketInv, SessionInv, IsOpen, IsConnected,
     PairedWith, HasAnswered
<1>8. AcceptorInv'
  BY <1>3 DEF Connect, IInv, AcceptorInv, AcceptorIsOpen, TypeOK, acceptorVars
<1>. QED
  BY <1>4, <1>5, <1>6, <1>7, <1>8 DEF IInv

\* RudpSession::HandleTick of a client keeps the invariant.
LEMMA ClientTickInv ==
  ASSUME IInv, NEW c \in Clients, ClientTick(c) PROVE IInv'
<1> USE Ids
<1>1. UNCHANGED <<state, peer, receiving, opened, sockets>>
      /\ UNCHANGED acceptorVars /\ losses' = losses
  BY DEF ClientTick, sessionVars
<1>2. net' = net \cup {ConnectionRequest(c)} \/
      (net' = net \cup {CookieResponse(c, peer[c])} /\ state[c] = "handshaking")
  BY DEF ClientTick
<1>3. \A a, b : /\ CookieChallenge(a, b) \in net' => CookieChallenge(a, b) \in net
                /\ ConnectionAccepted(a, b) \in net' => ConnectionAccepted(a, b) \in net
                /\ CookieResponse(a, b) \in net' =>
                     \/ CookieResponse(a, b) \in net
                     \/ a = c /\ b = peer[c] /\ state[c] = "handshaking"
  BY <1>2 DEF ConnectionRequest, CookieChallenge, CookieResponse, ConnectionAccepted
<1>4. TypeOK'
  <2>1. state[c] = "handshaking" => peer[c] \in Servers
    BY DEF IInv, SessionInv
  <2>2. net \subseteq Packets
    BY DEF IInv, TypeOK
  <2>3. ConnectionRequest(c) \in Packets
        /\ (state[c] = "handshaking" => CookieResponse(c, peer[c]) \in Packets)
    BY Zenon, <2>1, PacketTypes
  <2>4. net' \subseteq Packets
    BY Zenon, <1>2, <2>2, <2>3
  <2>. QED
    BY <1>1, <2>4 DEF IInv, TypeOK, acceptorVars
<1>5. RegisteredIsOpen' /\ SessionInv' /\ AcceptorInv'
  BY Zenon, <1>1 DEF IInv, RegisteredIsOpen, SessionInv, AcceptorInv, AcceptorIsOpen,
     PairedWith, IsOpen,
     IsConnected, acceptorVars
<1>6. PacketInv'
  BY <1>1, <1>3, IInvTypes DEF IInv, PacketInv, SessionInv, HasAnswered, PairedWith, IsOpen
<1>. QED
  BY <1>4, <1>5, <1>6 DEF IInv

\* Packets that are lost, or arrive and change nothing, keep the invariant.
LEMMA LessInv ==
  ASSUME IInv, net' \subseteq net, losses' \in 0 .. MaxLosses,
         UNCHANGED <<sessionVars, acceptorVars>>
  PROVE  IInv'
<1>1. TypeOK'
  BY Zenon DEF IInv, TypeOK, sessionVars, acceptorVars
<1>2. RegisteredIsOpen' /\ SessionInv' /\ AcceptorInv'
  BY DEF IInv, RegisteredIsOpen, SessionInv, AcceptorInv, AcceptorIsOpen, PairedWith, IsOpen,
     IsConnected,
         sessionVars, acceptorVars
<1>3. PacketInv'
  BY DEF IInv, PacketInv, HasAnswered, PairedWith, IsOpen, sessionVars, acceptorVars
<1>. QED
  BY <1>1, <1>2, <1>3 DEF IInv

\* A handshake packet for a client: RudpSession::HandleHandshake, kClient.  The packet
\* comes from the only socket that the client may have answered.
LEMMA ClientHandshakeInv ==
  ASSUME IInv, NEW p \in net, ClientHandshake(p) PROVE IInv'
<1> USE Ids
<1> DEFINE c == p.to
           s == p.from
           id == ClientPeer(c, p)
<1>1. p \in Packets /\ net \subseteq Packets
  BY DEF IInv, TypeOK
<1>2. c \in Clients /\ s \in Servers /\ c \in Sockets /\ s \in Sockets /\ PairedWith(s, c)
  BY Zenon, PacketFacts DEF ClientHandshake
<1>3. c \in sockets /\ IsOpen(c) /\ c \in opened
  BY <1>2, IInvTypes DEF ClientHandshake, IInv, SessionInv, IsOpen
<1>4. id \in Servers /\ PairedWith(id, c) /\ (peer[c] # None => id = peer[c])
  BY <1>2 DEF ClientPeer, IInv, SessionInv
<1>5. peer' = [peer EXCEPT ![c] = id] /\ UNCHANGED <<opened, sockets, losses>> /\ UNCHANGED acceptorVars
  BY DEF ClientHandshake, Arrive
<1>6. p.type = "accepted" => receiving[s] = c /\ (~IsConnected(c) => id = s)
  BY Zenon, <1>2, <1>3, PacketFacts DEF ClientPeer
<1>7. CASE IsConnected(c)
  <2>1. peer[c] # None
    BY <1>2, <1>7 DEF IInv, SessionInv, IsConnected
  <2>2. peer' = peer
    BY <1>2, <1>4, <1>5, <2>1 DEF IInv, TypeOK
  <2>3. net' \subseteq net /\ UNCHANGED <<state, receiving, losses>>
    BY <1>7 DEF ClientHandshake, Arrive
  <2>. QED
    BY <1>5, <2>2, <2>3, LessInv DEF IInv, TypeOK, sessionVars
<1>8. CASE ~IsConnected(c) /\ p.type = "accepted"
  <2>1. state' = [state EXCEPT ![c] = "connected"] /\ receiving' = [receiving EXCEPT ![c] = s]
        /\ net' \subseteq net
    BY Zenon, <1>8 DEF ClientHandshake, Arrive
  <2>2. TypeOK'
    BY Zenon, <1>2, <1>4, <1>5, <2>1 DEF IInv, TypeOK, acceptorVars
  <2>3. RegisteredIsOpen'
    BY Zenon, <1>2, <1>3, <1>5, <2>1, IInvTypes DEF IInv, RegisteredIsOpen, IsOpen
  <2>4. SessionInv'
    <3>1. /\ state'[c] = "connected" /\ receiving'[c] = s /\ peer'[c] = s
          /\ \A q \in Sockets \ {c} : /\ state'[q] = state[q] /\ receiving'[q] = receiving[q]
                                     /\ peer'[q] = peer[q]
          /\ opened' = opened /\ receiving[s] = c
      BY Zenon, <1>2, <1>5, <1>6, <1>8, <2>1, IInvTypes
    <3>2. SessionInv /\ c \notin Servers /\ s # c /\ s # None
      BY Zenon, <1>2 DEF IInv
    <3>3. \A q \in Sockets :
            /\ IsOpen(q)' => q \in opened'
            /\ receiving'[q] # None => q \in opened' /\ state'[q] \in {"connected", "closed"}
            /\ IsConnected(q)' => receiving'[q] = peer'[q]
      BY <1>2, <1>3, <3>1, <3>2 DEF SessionInv, IsOpen, IsConnected
    <3>4. \A q \in Clients :
            /\ peer'[q] \in Servers \cup {None}
            /\ state'[q] \in {"handshaking", "connected"} => peer'[q] \in Servers
            /\ IsConnected(q)' => receiving'[peer'[q]] = q
            /\ peer'[q] # None => PairedWith(peer[q], q)'
      BY <1>2, <3>1, <3>2 DEF SessionInv, IsOpen, IsConnected, PairedWith
    <3>5. \A q \in Servers :
            /\ peer'[q] \in Clients \cup {None}
            /\ receiving'[q] \in Clients \cup {None}
            /\ IsOpen(q)' => state'[q] \in {"handshaking", "connected"} /\ peer'[q] \in Clients
      BY <3>1, <3>2 DEF SessionInv, IsOpen
    <3>. QED BY Zenon, <3>3, <3>4, <3>5 DEF SessionInv
  <2>5. PacketInv'
    BY <1>2, <1>3, <1>4, <1>5, <2>1, IInvTypes
       DEF IInv, PacketInv, HasAnswered, IsOpen, PairedWith
  <2>6. AcceptorInv'
    BY Zenon, <1>2, <1>5 DEF IInv, AcceptorInv, AcceptorIsOpen, TypeOK, acceptorVars
  <2>. QED BY <2>2, <2>3, <2>4, <2>5, <2>6 DEF IInv
<1>9. CASE ~IsConnected(c) /\ p.type = "challenge"
  <2>1. state' = [state EXCEPT ![c] = "handshaking"] /\ receiving' = receiving
        /\ net' \subseteq net \cup {CookieResponse(c, id)}
    BY <1>9 DEF ClientHandshake, Arrive
  <2>2. \A a, b : /\ CookieChallenge(a, b) \in net' => CookieChallenge(a, b) \in net
                  /\ ConnectionAccepted(a, b) \in net' => ConnectionAccepted(a, b) \in net
                  /\ CookieResponse(a, b) \in net' =>
                       CookieResponse(a, b) \in net \/ (a = c /\ b = id)
    BY Zenon, <2>1 DEF CookieChallenge, CookieResponse, ConnectionAccepted
  <2>3. TypeOK'
    <3>1. CookieResponse(c, id) \in Packets
      BY Zenon, <1>2, <1>4, PacketTypes
    <3>2. net' \subseteq Packets
      BY <1>1, <2>1, <3>1
    <3>. QED
      BY <1>2, <1>4, <1>5, <2>1, <3>2 DEF IInv, TypeOK, acceptorVars
  <2>4. RegisteredIsOpen'
    BY Zenon, <1>2, <1>3, <1>5, <2>1, IInvTypes DEF IInv, RegisteredIsOpen, IsOpen
  <2>5. SessionInv'
    <3>1. SessionInv
      BY DEF IInv
    <3>2. /\ \A t \in Sockets : t # c => state'[t] = state[t] /\ peer'[t] = peer[t]
          /\ state'[c] = "handshaking" /\ peer'[c] = id /\ UNCHANGED <<receiving, opened>>
      BY Zenon, <1>2, <1>5, <2>1, IInvTypes
    <3>3. ASSUME NEW t \in Sockets
          PROVE  /\ (IsOpen(t) => t \in opened)'
                 /\ (receiving[t] # None => t \in opened /\ state[t] \in {"connected", "closed"})'
                 /\ (IsConnected(t) => receiving[t] = peer[t])'
      BY <1>3, <1>9, <3>1, <3>2 DEF SessionInv, IsOpen, IsConnected
    <3>4. \A a \in Servers : a \in Sockets /\ a # c
      BY <1>2 DEF Sockets
    <3>5. \A a \in Servers, b \in Clients : PairedWith(a, b) => PairedWith(a, b)'
      BY Zenon, <3>2, <3>4 DEF PairedWith, IsOpen
    <3>6. ASSUME NEW t \in Clients
          PROVE  /\ peer'[t] \in Servers \cup {None}
                 /\ state'[t] \in {"handshaking", "connected"} => peer'[t] \in Servers
                 /\ IsConnected(t)' => receiving'[peer'[t]] = t
                 /\ (peer[t] # None => PairedWith(peer[t], t))'
      <4>1. t \in Sockets
        BY Zenon DEF Sockets
      <4>2. CASE t = c
        BY Zenon, <1>4, <3>2, <3>5, <4>2 DEF IsConnected
      <4>3. CASE t # c
        <5>1. /\ state'[t] = state[t] /\ peer'[t] = peer[t] /\ receiving' = receiving
              /\ peer[t] \in Servers \cup {None}
              /\ state[t] \in {"handshaking", "connected"} => peer[t] \in Servers
              /\ IsConnected(t) => receiving[peer[t]] = t
              /\ peer[t] # None => PairedWith(peer[t], t)
          BY <3>1, <3>2, <4>1, <4>3 DEF SessionInv
        <5>2. (peer[t] # None => PairedWith(peer[t], t))'
          BY Zenon, <3>5, <5>1
        <5>. QED BY <5>1, <5>2 DEF IsConnected
      <4>. QED BY <4>2, <4>3
    <3>7. ASSUME NEW t \in Servers
          PROVE  /\ peer'[t] \in Clients \cup {None}
                 /\ receiving'[t] \in Clients \cup {None}
                 /\ IsOpen(t)' => state'[t] \in {"handshaking", "connected"} /\ peer'[t] \in Clients
      BY <3>1, <3>2, <3>4 DEF SessionInv, IsOpen
    <3>. QED BY <3>3, <3>6, <3>7 DEF SessionInv
  <2>6. PacketInv'
    <3>1. Servers \subseteq Sockets /\ Clients \subseteq Sockets /\ UNCHANGED <<receiving, opened>>
      BY Zenon, <1>5, <2>1 DEF Sockets
    <3>2. /\ \A t \in Sockets : IsOpen(t)' <=> IsOpen(t)
          /\ \A t \in Sockets : t # c => peer'[t] = peer[t]
          /\ peer'[c] = id
      BY <1>2, <1>3, <1>5, <2>1, IInvTypes DEF IsOpen
    <3>3. \A a \in Servers, b \in Clients : PairedWith(a, b) => PairedWith(a, b)'
      BY <1>2, <3>1, <3>2 DEF PairedWith
    <3>4. \A a \in Servers, b \in Clients :
            HasAnswered(b, a)' => HasAnswered(b, a) \/ (b = c /\ a = id)
      BY <2>2, <3>1 DEF HasAnswered
    <3>5. \A a \in Servers : HasAnswered(c, a) => a = id
      BY <1>2, <1>3, <1>4 DEF IInv, PacketInv
    <3>6. ASSUME NEW b \in Clients, NEW a \in Servers, HasAnswered(b, a)'
          PROVE  /\ PairedWith(a, b)' /\ b \in opened'
                 /\ IsOpen(b)' => peer'[b] = a
                 /\ \A t \in Servers : HasAnswered(b, t)' => t = a
      <4>1. CASE b = c
        <5>1. a = id /\ \A t \in Servers : HasAnswered(b, t)' => t = id
          BY Zenon, <3>4, <3>5, <3>6, <4>1
        <5>. QED BY <1>3, <1>4, <3>1, <3>2, <3>3, <4>1, <5>1
      <4>2. CASE b # c
        <5>1. HasAnswered(b, a) /\ \A t \in Servers : HasAnswered(b, t)' => HasAnswered(b, t)
          BY Zenon, <3>4, <3>6, <4>2
        <5>. QED BY <3>1, <3>2, <3>3, <4>2, <5>1 DEF IInv, PacketInv
      <4>. QED BY Zenon, <4>1, <4>2
    <3>7. ASSUME NEW a \in Servers, NEW b \in Clients
          PROVE  /\ (CookieChallenge(a, b) \in net => PairedWith(a, b))'
                 /\ (ConnectionAccepted(a, b) \in net => receiving[a] = b)'
      BY <2>2, <3>1, <3>3 DEF IInv, PacketInv
    <3>. QED BY <3>6, <3>7 DEF PacketInv
  <2>7. AcceptorInv'
    BY <1>2, <1>5 DEF IInv, AcceptorInv, AcceptorIsOpen, TypeOK, acceptorVars
  <2>. QED BY <2>3, <2>4, <2>5, <2>6, <2>7 DEF IInv
<1>. QED
  BY <1>7, <1>8, <1>9 DEF ClientHandshake

\* RudpAcceptor::HandleReceiveFrom: the request names the peer of the socket that
\* waits, which no packet mentions yet, or is queued.
LEMMA AcceptRequestInv ==
  ASSUME IInv, NEW p \in net, AcceptRequest(p) PROVE IInv'
<1> USE Ids
<1>1. p.from \in Clients
  BY PacketFacts DEF AcceptRequest
<1>2. /\ net' \subseteq net /\ AcceptorIsOpen /\ losses' = losses
      /\ UNCHANGED <<state, receiving, opened, sockets, created, listening>>
  BY Zenon DEF AcceptRequest, Arrive
<1>3. CASE waiting_accept_socket # None
  <2> DEFINE s == waiting_accept_socket
  <2>1. /\ peer' = [peer EXCEPT ![s] = p.from] /\ accepted' = s
        /\ waiting_accept_socket' = None /\ pending_requests' = pending_requests
    BY Zenon, <1>3 DEF AcceptRequest
  <2>2. /\ s \in Servers /\ s \in Sockets /\ s = created
        /\ s \notin opened /\ peer[s] = None /\ pending_requests = <<>>
    BY Zenon, <1>2, <1>3 DEF IInv, TypeOK, AcceptorInv, AcceptorIsOpen
  <2>3. TypeOK'
    BY <1>1, <1>2, <2>1, <2>2 DEF IInv, TypeOK
  <2>4. RegisteredIsOpen'
    BY Zenon, <1>2 DEF IInv, RegisteredIsOpen, IsOpen
  <2>5. SessionInv'
    BY <1>1, <1>2, <2>1, <2>2, IInvTypes
       DEF IInv, SessionInv, IsOpen, IsConnected, PairedWith
  <2>6. PacketInv'
    BY <1>1, <1>2, <2>1, <2>2, IInvTypes
       DEF IInv, PacketInv, SessionInv, HasAnswered, IsOpen, PairedWith
  <2>7. AcceptorInv'
    BY <1>1, <1>2, <2>1, <2>2, IInvTypes DEF IInv, AcceptorInv, AcceptorIsOpen, TypeOK
  <2>. QED BY <2>3, <2>4, <2>5, <2>6, <2>7 DEF IInv
<1>4. CASE waiting_accept_socket = None
  <2>1. /\ Len(pending_requests) < MaxPending
        /\ pending_requests' = Append(pending_requests, p.from)
        /\ UNCHANGED <<peer, waiting_accept_socket, accepted>>
    BY Zenon, <1>4 DEF AcceptRequest
  <2>2. TypeOK'
    BY <1>1, <1>2, <2>1, HandshakeAssumption DEF IInv, TypeOK
  <2>3. RegisteredIsOpen' /\ SessionInv'
    BY Zenon, <1>2, <2>1 DEF IInv, RegisteredIsOpen, SessionInv, PairedWith, IsOpen, IsConnected
  <2>4. PacketInv'
    BY <1>2, <2>1 DEF IInv, PacketInv, HasAnswered, PairedWith, IsOpen
  <2>5. AcceptorInv'
    BY Zenon, <1>2, <1>4, <2>1 DEF IInv, AcceptorInv, AcceptorIsOpen
  <2>. QED BY Zenon, <2>2, <2>3, <2>4, <2>5 DEF IInv
<1>. QED
  BY Zenon, <1>3, <1>4

\* What a step has to keep for PacketInv: packets already answered or sent stay as
\* they were, a new challenge or acceptance is backed by the state of its sender, and
\* no client opens again or changes its peer.
LEMMA PacketsKeep ==
  ASSUME PacketInv,
         \A s \in Servers, c \in Clients :
           /\ CookieChallenge(s, c) \in net' => CookieChallenge(s, c) \in net \/ PairedWith(s, c)'
           /\ ConnectionAccepted(s, c) \in net' =>
                ConnectionAccepted(s, c) \in net \/ receiving'[s] = c
           /\ HasAnswered(c, s)' => HasAnswered(c, s)
           /\ PairedWith(s, c) => PairedWith(s, c)'
           /\ receiving[s] = c => receiving'[s] = c,
         opened \subseteq opened',
         \A c \in Clients : c \in opened /\ IsOpen(c)' => IsOpen(c) /\ peer'[c] = peer[c]
  PROVE  PacketInv'
<1>1. ASSUME NEW s \in Servers, NEW c \in Clients
      PROVE  /\ (CookieChallenge(s, c) \in net => PairedWith(s, c))'
             /\ (ConnectionAccepted(s, c) \in net => receiving[s] = c)'
  BY DEF PacketInv
<1>2. ASSUME NEW c \in Clients, NEW s \in Servers, HasAnswered(c, s)'
      PROVE  /\ PairedWith(s, c)' /\ c \in opened'
             /\ IsOpen(c)' => peer'[c] = s
             /\ \A t \in Servers : HasAnswered(c, t)' => t = s
  <2>1. HasAnswered(c, s)
    BY <1>2
  <2>. QED BY <2>1 DEF PacketInv
<1>. QED BY <1>1, <1>2 DEF PacketInv

\* A response reaches a socket of the listener: RudpSession::HandleHandshake, kServer.
LEMMA ServerHandshakeInv ==
  ASSUME IInv, NEW p \in net, ServerHandshake(p) PROVE IInv'
<1> USE Ids
<1> DEFINE s == p.to
           c == p.from
<1>1. /\ c \in Clients /\ s \in Servers /\ c \in Sockets /\ s \in Sockets
      /\ HasAnswered(c, s) /\ PairedWith(s, c)
  BY Zenon, PacketFacts DEF ServerHandshake
<1>2. s \in sockets /\ IsOpen(s) /\ s \in opened /\ peer[s] = c
  BY Zenon, <1>1, IInvTypes DEF ServerHandshake, PairedWith, IsOpen
<1>3. /\ UNCHANGED <<peer, opened, sockets, losses>> /\ UNCHANGED acceptorVars
      /\ net' \subseteq net \cup {ConnectionAccepted(s, c)}
  BY Zenon, <1>2 DEF ServerHandshake, Arrive
<1>4. \A a, b : /\ CookieChallenge(a, b) \in net' => CookieChallenge(a, b) \in net
                /\ CookieResponse(a, b) \in net' => CookieResponse(a, b) \in net
                /\ ConnectionAccepted(a, b) \in net' =>
                     ConnectionAccepted(a, b) \in net \/ (a = s /\ b = c)
  BY Zenon, <1>3 DEF CookieChallenge, CookieResponse, ConnectionAccepted
<1>5. /\ state' = [state EXCEPT ![s] = "connected"]
      /\ receiving' = [receiving EXCEPT ![s] = c]
  <2>1. CASE IsConnected(s)
    <3>1. UNCHANGED <<state, receiving>>
      BY Zenon, <2>1 DEF ServerHandshake
    <3>2. receiving[s] = c
      BY Zenon, <1>1, <1>2, <2>1 DEF IInv, SessionInv
    <3>. QED BY Zenon, <1>1, <2>1, <3>1, <3>2 DEF IInv, TypeOK, IsConnected
  <2>. QED BY Zenon, <2>1 DEF ServerHandshake
<1>6. TypeOK'
  <2>1. ConnectionAccepted(s, c) \in Packets
    BY Zenon, <1>1, PacketTypes
  <2>2. net' \subseteq Packets
    BY Zenon, <1>3, <2>1 DEF IInv, TypeOK
  <2>. QED
    BY <1>1, <1>3, <1>5, <2>2 DEF IInv, TypeOK, acceptorVars
<1>7. RegisteredIsOpen'
  BY Zenon, <1>1, <1>2, <1>3, <1>5, IInvTypes DEF IInv, RegisteredIsOpen, IsOpen
<1>8. SessionInv'
  BY <1>1, <1>2, <1>3, <1>5, IInvTypes
     DEF IInv, SessionInv, IsOpen, IsConnected, PairedWith
<1>9. PacketInv'
  <2>1. ASSUME NEW a \in Servers, NEW b \in Clients, receiving[a] = b
        PROVE  receiving'[a] = b
    <3>1. a = s => b = c
      BY Zenon, <1>2, <2>1 DEF IInv, PacketInv, HasAnswered, PairedWith
    <3>. QED BY Zenon, <1>1, <1>5, <2>1, <3>1, IInvTypes
  <2>2. ASSUME NEW a \in Servers, NEW b \in Clients, HasAnswered(b, a)'
        PROVE  HasAnswered(b, a)
    <3>1. CookieResponse(b, a) \in net \/ receiving[a] = b \/ (a = s /\ b = c)
      BY <1>1, <1>4, <1>5, <2>2, IInvTypes DEF HasAnswered, CookieResponse
    <3>. QED BY <1>1, <3>1 DEF HasAnswered
  <2>3. \A t \in Sockets : IsOpen(t)' <=> IsOpen(t)
    BY <1>1, <1>2, <1>5, IInvTypes DEF IsOpen
  <2>4. Servers \subseteq Sockets /\ Clients \subseteq Sockets
    BY DEF Sockets
  <2>5. ASSUME NEW a \in Servers, NEW b \in Clients
        PROVE  /\ PairedWith(a, b) => PairedWith(a, b)'
               /\ ConnectionAccepted(a, b) \in net' =>
                    ConnectionAccepted(a, b) \in net \/ receiving'[a] = b
    BY <1>1, <1>3, <1>4, <1>5, <2>3, <2>4, IInvTypes DEF PairedWith
  <2>6. PacketInv
    BY DEF IInv
  <2>. QED
    BY Zenon, <1>3, <1>4, <2>1, <2>2, <2>3, <2>4, <2>5, <2>6, PacketsKeep
<1>10. AcceptorInv'
  BY <1>3 DEF IInv, AcceptorInv, AcceptorIsOpen, acceptorVars
<1>. QED
  BY <1>6, <1>7, <1>8, <1>9, <1>10 DEF IInv

\* RudpTransport::HandleAccept: the socket handed out opens, and the next one that
\* is created waits or is given a queued request.
LEMMA HandleAcceptInv ==
  ASSUME IInv, HandleAccept PROVE IInv'
<1> USE Ids
<1> DEFINE s == accepted
           c == peer[accepted]
<1>1. /\ s # None /\ UNCHANGED <<receiving, losses>> /\ listening' \in Phases
      /\ ~AcceptorIsOpen => ~AcceptorIsOpen'
  BY Zenon DEF HandleAccept, AcceptorIsOpen, Phases, IInv, TypeOK
<1>2. CASE ~AcceptorIsOpen
  <2>1. accepted' = None /\ UNCHANGED <<state, peer, opened, sockets, net, created,
                               waiting_accept_socket, pending_requests>>
    BY Zenon, <1>2 DEF HandleAccept, AcceptorIsOpen
  <2>2. TypeOK'
    BY Zenon, <1>1, <2>1 DEF IInv, TypeOK
  <2>3. RegisteredIsOpen' /\ SessionInv'
    BY Zenon, <1>1, <2>1 DEF IInv, RegisteredIsOpen, SessionInv, PairedWith, IsOpen, IsConnected
  <2>4. PacketInv'
    BY <1>1, <2>1 DEF IInv, PacketInv, HasAnswered, PairedWith, IsOpen
  <2>5. AcceptorInv'
    BY <1>1, <1>2 DEF AcceptorInv, AcceptorIsOpen
  <2>. QED BY Zenon, <2>2, <2>3, <2>4, <2>5 DEF IInv
<1>3. CASE AcceptorIsOpen
  <2>1. /\ opened' = opened \cup {s}
        /\ sockets' = sockets \cup {s}
        /\ state' = [state EXCEPT ![s] = "handshaking"]
        /\ net' = net \cup {CookieChallenge(s, c)}
    BY Zenon, <1>3 DEF HandleAccept
  <2>2. /\ s \in Servers /\ s \in Sockets /\ s = created /\ s \notin opened /\ c \in Clients
        /\ state[s] = "closed" /\ waiting_accept_socket = None
        /\ receiving[s] = None
        /\ \A t \in Servers : t > created => t \notin opened /\ peer[t] = None
    BY Zenon, <1>1, <1>3 DEF IInv, TypeOK, AcceptorInv, SessionInv, IsOpen
  <2>3. \A a, b : /\ CookieResponse(a, b) \in net' => CookieResponse(a, b) \in net
                  /\ ConnectionAccepted(a, b) \in net' => ConnectionAccepted(a, b) \in net
                  /\ CookieChallenge(a, b) \in net' =>
                       CookieChallenge(a, b) \in net \/ (a = s /\ b = c)
    BY Zenon, <2>1 DEF CookieChallenge, CookieResponse, ConnectionAccepted
  <2>4. net' \subseteq Packets
    <3>1. CookieChallenge(s, c) \in Packets
      BY Zenon, <2>2, PacketTypes
    <3>. QED BY <2>1, <3>1 DEF IInv, TypeOK
  <2>5. \/ /\ created' = created /\ accepted' = None /\ peer' = peer
           /\ UNCHANGED <<waiting_accept_socket, pending_requests>>
        \/ /\ created' = created + 1 /\ created' \in Servers /\ accepted' = None /\ peer' = peer
           /\ waiting_accept_socket' = created'
           /\ pending_requests = <<>> /\ pending_requests' = pending_requests
        \/ /\ created' = created + 1 /\ created' \in Servers /\ accepted' = created'
           /\ pending_requests # <<>> /\ pending_requests' = Tail(pending_requests)
           /\ Head(pending_requests) \in Clients
           /\ peer' = [peer EXCEPT ![created'] = Head(pending_requests)]
           /\ waiting_accept_socket' = waiting_accept_socket
    <3>1. created \in Servers /\ (created # MaxServers => created + 1 \in Servers)
      BY HandshakeAssumption DEF IInv, TypeOK, Servers
    <3>2. CASE listening # "yes"
      BY Zenon, <3>2 DEF HandleAccept
    <3>3. CASE listening = "yes"
      <4>1. /\ StartAccept
            /\ peer' = IF accepted' = None THEN peer
                         ELSE [peer EXCEPT ![accepted'] = Head(pending_requests)]
        BY Zenon, <3>3 DEF HandleAccept
      <4>2. CASE created = MaxServers
        BY Zenon, <4>1, <4>2 DEF StartAccept
      <4>3. CASE created # MaxServers /\ pending_requests = <<>>
        BY Zenon, <4>1, <3>1, <4>3 DEF StartAccept
      <4>4. CASE created # MaxServers /\ pending_requests # <<>>
        <5>1. accepted' = created + 1 /\ accepted' # None
          BY Zenon, <4>1, <3>1, <4>4 DEF StartAccept
        <5>2. Head(pending_requests) \in Clients
          BY <4>4 DEF IInv, TypeOK
        <5>. QED
          BY Zenon, <4>1, <3>1, <4>4, <5>1, <5>2 DEF StartAccept
      <4>. QED BY Zenon, <4>2, <4>3, <4>4
    <3>. QED BY Zenon, <3>2, <3>3
  <2>6. TypeOK'
    <3>1. pending_requests' \in Seq(Clients) /\ Len(pending_requests') <= MaxPending
      <4>1. pending_requests \in Seq(Clients) /\ Len(pending_requests) <= MaxPending
        BY DEF IInv, TypeOK
      <4>2. pending_requests # <<>> => /\ Tail(pending_requests) \in Seq(Clients)
                                      /\ Len(Tail(pending_requests)) <= MaxPending
        BY <4>1, HandshakeAssumption
      <4>. QED BY Zenon, <2>5, <4>1, <4>2
    <3>2. /\ created' \in Servers /\ waiting_accept_socket' \in Servers \cup {None}
          /\ accepted' \in Servers \cup {None}
      BY Zenon, <2>5 DEF IInv, TypeOK
    <3>3. peer' \in [Sockets -> Sockets \cup {None}]
      BY Zenon, <2>5 DEF IInv, TypeOK
    <3>. QED
      BY Zenon, <1>1, <2>1, <2>2, <2>4, <3>1, <3>2, <3>3 DEF IInv, TypeOK
  <2>7. /\ \A t \in Sockets : t # created' \/ t = created => peer'[t] = peer[t]
        /\ peer'[s] = c
        /\ \A t \in Clients : peer'[t] = peer[t]
        /\ \A t \in Servers : peer'[t] \in Clients \cup {None}
    BY <2>2, <2>5 DEF IInv, TypeOK, SessionInv
  <2>8. RegisteredIsOpen'
    BY <1>1, <2>1, <2>2, IInvTypes DEF IInv, RegisteredIsOpen, IsOpen
  <2>9. \A t \in Sockets : t \in opened => peer'[t] = peer[t]
    <3>1. created \in Nat /\ (created' # created => created' \in Servers /\ created' > created)
      BY <2>2, <2>5
    <3>. QED BY Zenon, <2>2, <2>7, <3>1
  <2>10. SessionInv'
    <3> DEFINE C(t) == /\ peer[t] \in Servers \cup {None}
                       /\ state[t] \in {"handshaking", "connected"} => peer[t] \in Servers
                       /\ IsConnected(t) => receiving[peer[t]] = t
                       /\ peer[t] # None => PairedWith(peer[t], t)
    <3>1. SessionInv /\ TypeOK
      BY Zenon DEF IInv
    <3>2. \A t \in Sockets :
            /\ IsOpen(t)' => t \in opened'
            /\ receiving'[t] # None => t \in opened' /\ state'[t] \in {"connected", "closed"}
            /\ IsConnected(t)' => receiving'[t] = peer'[t]
      BY <1>1, <2>1, <2>2, <2>9, <3>1, IInvTypes DEF SessionInv, IsOpen, IsConnected
    <3>3. ASSUME NEW t \in Clients PROVE C(t)'
      <4>1. t # s /\ state'[t] = state[t] /\ peer'[t] = peer[t] /\ C(t)
        BY <2>1, <2>2, <2>7, <3>1, IInvTypes DEF SessionInv
      <4>2. peer[t] # None => peer[t] \in opened /\ peer[t] # s /\ peer'[peer[t]] = peer[peer[t]]
                              /\ state'[peer[t]] = state[peer[t]]
        BY Zenon, <2>1, <2>2, <2>9, <4>1, IInvTypes DEF PairedWith
      <4>. QED BY <1>1, <2>1, <4>1, <4>2 DEF PairedWith, IsOpen, IsConnected
    <3>4. \A t \in Servers :
            /\ peer'[t] \in Clients \cup {None}
            /\ receiving'[t] \in Clients \cup {None}
            /\ IsOpen(t)' => state'[t] \in {"handshaking", "connected"} /\ peer'[t] \in Clients
      BY Zenon, <1>1, <2>1, <2>2, <2>7, <2>9, <3>1, IInvTypes DEF SessionInv, IsOpen
    <3>. QED BY <3>2, <3>3, <3>4 DEF SessionInv, IsOpen, IsConnected, PairedWith
  <2>11. PacketInv'
    <3>1. Servers \subseteq Sockets /\ Clients \subseteq Sockets /\ opened \subseteq opened'
      BY Zenon, <2>1 DEF Sockets
    <3>2. ASSUME NEW a \in Servers, NEW b \in Clients
          PROVE  /\ HasAnswered(b, a)' => HasAnswered(b, a)
                 /\ CookieChallenge(a, b) \in net' =>
                      CookieChallenge(a, b) \in net \/ (a = s /\ b = c)
                 /\ ConnectionAccepted(a, b) \in net' => ConnectionAccepted(a, b) \in net
      BY Zenon, <1>1, <2>3 DEF HasAnswered
    <3>3. \A t \in Sockets : t \in opened =>
            peer'[t] = peer[t] /\ (IsOpen(t)' <=> IsOpen(t))
      BY Zenon, <2>1, <2>2, <2>9, <3>1, IInvTypes DEF IsOpen
    <3>4. \A a \in Servers, b \in Clients : PairedWith(a, b) => PairedWith(a, b)'
      BY Zenon, <3>1, <3>3 DEF PairedWith
    <3>5. ASSUME NEW a \in Servers, NEW b \in Clients, a = s, b = c PROVE PairedWith(a, b)'
      BY <2>1, <2>2, <2>7, <3>5 DEF PairedWith
    <3>6. PacketInv
      BY Zenon DEF IInv
    <3>. QED
      BY Zenon, <1>1, <3>1, <3>2, <3>3, <3>4, <3>5, <3>6, PacketsKeep
  <2>12. AcceptorInv'
    <3>1. created' = created => waiting_accept_socket' = None /\ accepted' = None
      BY <2>2, <2>5
    <3>2. created' # created => created' \notin opened' /\ created' > created
      BY <2>1, <2>2, <2>5
    <3>3. \A t \in Servers : t > created' => t > created /\ t # created' /\ t # created
      BY <2>2, <2>5
    <3>4. \A t \in Servers : t > created' => t \notin opened' /\ peer'[t] = None
      BY Zenon, <2>1, <2>2, <2>7, <3>3
    <3>5. waiting_accept_socket' # None =>
            /\ waiting_accept_socket' = created' /\ accepted' = None
            /\ pending_requests' = <<>> /\ peer'[created'] = None
      BY <2>2, <2>5, <3>2
    <3>6. accepted' # None => accepted' = created' /\ peer'[created'] \in Clients
      BY <2>5 DEF IInv, TypeOK
    <3>. QED BY Zenon, <3>1, <3>2, <3>4, <3>5, <3>6 DEF AcceptorInv, AcceptorIsOpen
  <2>. QED BY Zenon, <2>6, <2>8, <2>10, <2>11, <2>12 DEF IInv
<1>. QED
  BY <1>2, <1>3

\* A socket that closes, RudpSocket::Close, takes its peer with it; what is still in
\* flight says nothing of a closed socket's peer.
LEMMA CloseInv ==
  ASSUME IInv, NEW s \in Sockets, s \in sockets, CloseSession(s),
         net' \subseteq net \cup {Shutdown(s, peer[s])}, UNCHANGED <<acceptorVars, losses>>
  PROVE  IInv'
<1> USE Ids
<1>1. s \in opened /\ state[s] # "closed"
  BY Zenon, IInvTypes DEF IInv, SessionInv, IsOpen
<1>2. \A a, b : /\ CookieChallenge(a, b) \in net' => CookieChallenge(a, b) \in net
                /\ CookieResponse(a, b) \in net' => CookieResponse(a, b) \in net
                /\ ConnectionAccepted(a, b) \in net' => ConnectionAccepted(a, b) \in net
  BY Zenon DEF Shutdown, CookieChallenge, CookieResponse, ConnectionAccepted
<1>3. TypeOK'
  <2>1. peer[s] \in Sockets \cup {None}
    BY Zenon DEF IInv, TypeOK
  <2>2. Shutdown(s, peer[s]) \in Packets
    BY Zenon, <2>1, PacketTypes
  <2>3. net' \subseteq Packets
    BY Zenon, <2>2 DEF IInv, TypeOK
  <2>. QED
    BY Zenon, <2>3 DEF CloseSession, IInv, TypeOK, acceptorVars
<1>4. RegisteredIsOpen'
  BY Zenon, IInvTypes DEF CloseSession, IInv, RegisteredIsOpen, IsOpen
<1>5. SessionInv'
  BY <1>1, IInvTypes DEF CloseSession, IInv, SessionInv, IsOpen, IsConnected, PairedWith
<1>6. PacketInv'
  <2>1. Servers \subseteq Sockets /\ Clients \subseteq Sockets /\ UNCHANGED <<receiving, opened>>
    BY Zenon DEF Sockets, CloseSession
  <2>2. \A t \in Sockets : IsOpen(t)' => IsOpen(t) /\ peer'[t] = peer[t]
    BY Zenon, IInvTypes DEF CloseSession, IsOpen
  <2>3. ASSUME NEW a \in Servers, NEW b \in Clients
        PROVE  /\ PairedWith(a, b) => PairedWith(a, b)'
               /\ HasAnswered(b, a)' => HasAnswered(b, a)
    BY Zenon, <1>2, <2>1, <2>2 DEF PairedWith, HasAnswered
  <2>4. PacketInv
    BY Zenon DEF IInv
  <2>. QED
    BY Zenon, <1>2, <2>1, <2>2, <2>3, <2>4, PacketsKeep
<1>7. AcceptorInv'
  BY <1>1, IInvTypes DEF CloseSession, IInv, AcceptorInv, AcceptorIsOpen, TypeOK, acceptorVars
<1>. QED
  BY Zenon, <1>3, <1>4, <1>5, <1>6, <1>7 DEF IInv

\* RudpTransport::StopListening and the closes that it dispatches touch no session.
LEMMA StopListeningInv ==
  ASSUME IInv, StopListening \/ CloseAcceptor \/ CloseMultiplexer PROVE IInv'
<1>1. UNCHANGED <<sessionVars, created, waiting_accept_socket, net, losses>>
  BY Zenon DEF StopListening, CloseAcceptor, CloseMultiplexer
<1>2. TypeOK'
  <2>1. <<>> \in Seq(Clients) /\ Len(<<>>) <= MaxPending
    BY HandshakeAssumption
  <2>2. accepted' \in Servers \cup {None} /\ listening' \in Phases
    BY Zenon DEF StopListening, CloseAcceptor, CloseMultiplexer, IInv, TypeOK, Phases
  <2>3. pending_requests' = <<>> \/ pending_requests' = pending_requests
    BY Zenon DEF StopListening, CloseAcceptor, CloseMultiplexer
  <2>4. pending_requests' \in Seq(Clients) /\ Len(pending_requests') <= MaxPending
    BY Zenon, <2>1, <2>3 DEF IInv, TypeOK
  <2>. QED
    BY Zenon, <1>1, <2>2, <2>4 DEF IInv, TypeOK, sessionVars
<1>3. RegisteredIsOpen' /\ SessionInv'
  BY Zenon, <1>1 DEF IInv, RegisteredIsOpen, SessionInv, PairedWith, IsOpen, IsConnected,
         sessionVars
<1>4. PacketInv'
  BY Zenon, <1>1 DEF IInv, PacketInv, HasAnswered, PairedWith, IsOpen, sessionVars
<1>5. AcceptorInv'
  <2>1. CASE StopListening
    BY Zenon, <2>1 DEF StopListening, IInv, AcceptorInv, AcceptorIsOpen, sessionVars
  <2>2. CASE CloseAcceptor \/ CloseMultiplexer
    BY <2>2 DEF CloseAcceptor, CloseMultiplexer, AcceptorInv, AcceptorIsOpen
  <2>. QED BY Zenon, <2>1, <2>2
<1>. QED
  BY Zenon, <1>2, <1>3, <1>4, <1>5 DEF IInv

\* IInv is an invariant of the handshake: every kind of step keeps it.
THEOREM Invariance == Spec => []IInv
<1>1. Init => IInv
  <2>. SUFFICES ASSUME Init PROVE IInv
    BY Zenon
  <2> USE Ids DEF Init
  <2>1. TypeOK
    BY HandshakeAssumption DEF TypeOK, Servers, None, Phases
  <2>2. RegisteredIsOpen
    BY Zenon DEF RegisteredIsOpen, IsOpen
  <2>3. SessionInv
    BY Zenon DEF SessionInv, IsOpen, IsConnected
  <2>4. PacketInv
    BY Zenon DEF PacketInv, HasAnswered
  <2>5. AcceptorInv
    BY HandshakeAssumption DEF AcceptorInv, AcceptorIsOpen, Servers, None
  <2>. QED BY <2>1, <2>2, <2>3, <2>4, <2>5 DEF IInv
<1>2. IInv /\ [Next]_vars => IInv'
  <2>. SUFFICES ASSUME IInv, [Next]_vars PROVE IInv'
    OBVIOUS
  <2>1. ASSUME NEW c \in Clients, Connect(c) PROVE IInv'
    BY <2>1, ConnectInv
  <2>2. ASSUME NEW c \in Clients, ClientTick(c) PROVE IInv'
    BY <2>2, ClientTickInv
  <2>3. CASE HandleAccept
    BY Zenon, <2>3, HandleAcceptInv
  <2>4. ASSUME NEW s \in Sockets, Close(s) PROVE IInv'
    <3>1. s \in sockets
      BY Zenon, <2>4, IInvTypes DEF Close, IsOpen
    <3>2. net' \subseteq net \cup {Shutdown(s, peer[s])}
      BY Zenon, <2>4 DEF Close, Sent
    <3>. QED BY Zenon, <2>4, <3>1, <3>2, CloseInv DEF Close
  <2>5. CASE StopListening \/ CloseAcceptor \/ CloseMultiplexer
    BY Zenon, <2>5, StopListeningInv
  <2>6. ASSUME NEW p \in net, HandleShutdown(p) PROVE IInv'
    <3>1. p.to \in sockets /\ p.to \in Sockets
      BY Zenon, <2>6 DEF HandleShutdown, IInv, TypeOK
    <3>2. net' \subseteq net \cup {Shutdown(p.to, peer[p.to])} /\ losses' = losses
      BY Zenon, <2>6 DEF HandleShutdown, Arrive, Sent
    <3>. QED BY Zenon, <2>6, <3>1, <3>2, CloseInv DEF HandleShutdown
  <2>7. ASSUME NEW p \in net, Deliver(p) PROVE IInv'
    BY Zenon, <2>6, <2>7, ClientHandshakeInv, AcceptRequestInv, ServerHandshakeInv DEF Deliver
  <2>8. ASSUME NEW p \in net, Lose(p) PROVE IInv'
    <3>1. net' \subseteq net /\ losses' \in 0 .. MaxLosses
      BY <2>8, HandshakeAssumption DEF Lose, IInv, TypeOK
    <3>. QED BY Zenon, <2>8, <3>1, LessInv DEF Lose
  <2>9. CASE UNCHANGED vars
    <3>1. net' \subseteq net /\ losses' \in 0 .. MaxLosses
      BY <2>9 DEF vars, IInv, TypeOK
    <3>. QED BY Zenon, <2>9, <3>1, LessInv DEF vars
  <2>. QED
    BY <2>1, <2>2, <2>3, <2>4, <2>5, <2>7, <2>8, <2>9 DEF Next
<1>. QED
  BY <1>1, <1>2, PTL DEF Spec

\* A connected client has a peer that connected before it and expects its sequence
\* numbers, and no two sockets of the listener are connected to the same client
\* (RudpSession::HandleHandshake), for any number of clients, sockets and losses.
THEOREM EndsDoAgree == Spec => []EndsAgree
<1>1. IInv => EndsAgree
  <2>. SUFFICES ASSUME IInv PROVE EndsAgree
    BY Zenon
  <2> USE Ids
  <2>1. Agreement
    <3>. SUFFICES ASSUME NEW c \in Clients, IsConnected(c)
                 PROVE /\ peer[c] \in Servers
                       /\ receiving[c] = peer[c]
                       /\ receiving[peer[c]] = c
                       /\ state[peer[c]] \in {"connected", "closed"}
                       /\ IsConnected(peer[c]) => peer[peer[c]] = c
      BY Zenon DEF Agreement
    <3>1. peer[c] \in Servers /\ receiving[c] = peer[c] /\ receiving[peer[c]] = c
      BY Zenon DEF IInv, SessionInv, IsConnected
    <3>. QED BY <3>1 DEF IInv, SessionInv, IsConnected
  <2>2. OneServerPerClient
    BY Zenon DEF OneServerPerClient, IInv, SessionInv, PacketInv, HasAnswered
  <2>. QED BY <2>1, <2>2 DEF EndsAgree
<1>. QED
  BY <1>1, Invariance, PTL

\* The dispatcher's table has exactly the open sockets, and the acceptor, until
\* CloseAcceptor has run, never holds a request while a socket waits for one, however
\* the resets of StopListening on its caller's thread and the closes in the strand
\* fall between HandleAccept and StartAccept (RudpDispatcher::AddSocket and
\* RemoveSocket, RudpAcceptor::StartAccept, RudpTransport::StopListening).
THEOREM ListenerStaysConsistent == Spec => []ListenerConsistent
<1>1. IInv => ListenerConsistent
  BY Zenon DEF IInv, AcceptorInv, AcceptorReady, ListenerConsistent
<1>. QED
  BY <1>1, Invariance, PTL

\* Once connected, a session keeps its peer and its sequence number until it closes,
\* whatever old handshake packets arrive, and a closed one never opens again
\* (RudpSession::HandleHandshake, RudpAcceptor::StartAccept).
THEOREM ConnectedStaysFinal == Spec => ConnectedIsFinal
<1> DEFINE Final(s) ==
      /\ IsConnected(s) =>
           /\ state'[s] \in {"connected", "closed"}
           /\ receiving'[s] = receiving[s]
           /\ state'[s] = "connected" => peer'[s] = peer[s]
      /\ s \in opened /\ ~IsOpen(s) => state'[s] = "closed"
<1>1. IInv /\ [Next]_vars => [\A s \in Sockets : Final(s)]_vars
  <2>. SUFFICES ASSUME IInv, Next, NEW s \in Sockets PROVE Final(s)
    BY Zenon
  <2> USE Ids
  <2>1. CASE UNCHANGED <<state, peer, receiving>>
    BY Zenon, <2>1 DEF IsConnected, IsOpen
  <2>2. ASSUME NEW c \in Clients, Connect(c) PROVE Final(s)
    BY Zenon, <2>2, IInvTypes DEF Connect, IInv, SessionInv, IsConnected, IsOpen
  <2>3. ASSUME NEW t \in Sockets, CloseSession(t) PROVE Final(s)
    BY Zenon, <2>3, IInvTypes DEF CloseSession, IsConnected, IsOpen
  <2>4. ASSUME HandleAccept PROVE Final(s)
    <3>1. CASE ~AcceptorIsOpen
      BY Zenon, <2>1, <2>4, <3>1 DEF HandleAccept, AcceptorIsOpen
    <3>2. CASE AcceptorIsOpen
      <4>1. accepted = created /\ accepted \in Servers /\ accepted \notin opened
            /\ \A t \in Servers : t > created => t \notin opened
        BY Zenon, <2>4, <3>2 DEF HandleAccept, IInv, TypeOK, AcceptorInv, AcceptorIsOpen
      <4>2. state' = [state EXCEPT ![accepted] = "handshaking"] /\ receiving' = receiving
        BY Zenon, <2>4, <3>2 DEF HandleAccept
      <4>3. s \in opened => peer'[s] = peer[s]
        <5>1. accepted' = None \/ accepted' = created + 1
          BY Zenon, <2>4, <3>2 DEF HandleAccept, StartAccept
        <5>2. peer' = peer \/ peer' = [peer EXCEPT ![created + 1] = Head(pending_requests)]
          BY Zenon, <2>4, <3>2, <5>1 DEF HandleAccept
        <5>3. created + 1 \in Servers => created + 1 \notin opened
          BY <4>1
        <5>4. created + 1 \notin Clients
          BY <4>1, HandshakeAssumption
        <5>. QED BY Zenon, <5>2, <5>3, <5>4, IInvTypes
      <4>. QED BY Zenon, <4>1, <4>2, <4>3, IInvTypes DEF IInv, SessionInv, IsConnected, IsOpen
    <3>. QED BY Zenon, <3>1, <3>2
  <2>5. ASSUME NEW p \in net, ClientHandshake(p) PROVE Final(s)
    <3>1. p.to \in Clients /\ p.to \in Sockets /\ IsOpen(p.to)
      BY Zenon, <2>5, PacketFacts, IInvTypes DEF ClientHandshake, IsOpen
    <3>2. IsConnected(p.to) => peer[p.to] # None
      BY <3>1 DEF IInv, SessionInv, IsConnected
    <3>. QED BY Zenon, <2>5, <3>1, <3>2, IInvTypes DEF ClientHandshake, ClientPeer, IsConnected,
                IsOpen
  <2>6. ASSUME NEW p \in net, ServerHandshake(p) PROVE Final(s)
    <3>1. p.to \in Servers /\ p.to \in Sockets /\ IsOpen(p.to)
      BY Zenon, <2>6, PacketFacts, IInvTypes DEF ServerHandshake, IsOpen
    <3>. QED BY Zenon, <2>6, <3>1, IInvTypes DEF ServerHandshake, IsConnected, IsOpen
  <2>7. ASSUME NEW p \in net, AcceptRequest(p) PROVE Final(s)
    <3>1. waiting_accept_socket # None => waiting_accept_socket \notin opened
      BY Zenon, <2>7 DEF AcceptRequest, IInv, AcceptorInv, AcceptorIsOpen
    <3>2. IsConnected(s) => s \in opened
      BY Zenon DEF IInv, SessionInv, IsConnected, IsOpen
    <3>3. UNCHANGED <<state, receiving>> /\ (s # waiting_accept_socket => peer'[s] = peer[s])
      BY Zenon, <2>7, IInvTypes DEF AcceptRequest
    <3>4. ~IsOpen(s) /\ s \in opened => state[s] = "closed"
      BY Zenon, IInvTypes DEF IsOpen, IInv, SessionInv, AcceptorInv, AcceptorIsOpen
    <3>. QED BY Zenon, <3>1, <3>2, <3>3, <3>4, IInvTypes DEF IsConnected
  <2>8. ASSUME NEW p \in net, HandleShutdown(p) PROVE Final(s)
    BY <2>3, <2>8 DEF HandleShutdown, IInv, TypeOK
  <2>9. ASSUME NEW p \in net, Deliver(p) PROVE Final(s)
    BY Zenon, <2>5, <2>6, <2>7, <2>8, <2>9 DEF Deliver
  <2>. QED
    BY Zenon, <2>1, <2>2, <2>3, <2>4, <2>9
       DEF Next, ClientTick, Close, StopListening, CloseAcceptor, CloseMultiplexer, Lose,
           sessionVars
<1>. QED
  BY <1>1, Invariance, PTL DEF Spec, ConnectedIsFinal

-----------------------------------------------------------------------------
(* The tick timer.                                                         *)

\* What the two windows hold.
SendSlots == Slots(SendTimeout)
ReceiveSlots == Slots(ReceiveTimeout)

Windows(S) == {w \in Seq(S) : Len(w) <= Window}

\* What a step of the sender leaves: of the right types, and with a tick to come while
\* a packet waits to be sent.
Ready(o) ==
  /\ o.w \in Windows(SendSlots)
  /\ o.timer \in -Late .. Infinity /\ o.timeout \in -1 .. Infinity
  /\ LostIn(o.w) # {} => o.timer # Infinity

\* The inductive invariant of the tick timer.
TicksInv ==
  /\ expires \in -Late .. Infinity /\ send_timeout \in -1 .. Infinity
  /\ unacked \in Windows(SendSlots) /\ unread \in Windows(ReceiveSlots)
  /\ waiting \in 0 .. MaxWrite
  /\ WorkIsArmed

\* The constants as numbers.
LEMMA TicksConstants ==
  ASSUME TicksAssumption
  PROVE  /\ Infinity \in Nat /\ SendDelay \in Nat /\ SendTimeout \in Nat /\ ReceiveDelay \in Nat
         /\ ReceiveTimeout \in Nat /\ Late \in Nat /\ Window \in Nat /\ MaxWrite \in Nat
         /\ 0 < ReceiveDelay /\ ReceiveDelay < Infinity /\ SendDelay < Infinity
         /\ SendTimeout < Infinity
BY DEF TicksAssumption, Infinity

\* Packets in a window that have been marked, sent or received, or have aged.
LEMMA SlotFacts ==
  ASSUME NEW t \in Nat
  PROVE  /\ Fresh \in Slots(t) /\ Done \in Slots(t)
         /\ \A x \in Slots(t) : x.lost \in BOOLEAN /\ x.age \in 0 .. t + 1
BY DEF Fresh, Done, Slots, Oldest

LEMMA MarkedSlot ==
  ASSUME NEW t \in Nat, NEW x \in Slots(t), NEW b \in BOOLEAN
  PROVE  [x EXCEPT !.lost = b] \in Slots(t)
BY DEF Slots

LEMMA AgedSlot ==
  ASSUME NEW t \in Nat, NEW x \in Slots(t)
  PROVE  /\ [x EXCEPT !.age = Minimum(@ + 1, Oldest(t))] \in Slots(t)
         /\ [x EXCEPT !.age = Minimum(@ + 1, Oldest(t))].lost = x.lost
BY DEF Slots, Oldest, Minimum

\* A sequence as a function of its places.
LEMMA Places ==
  ASSUME NEW S, NEW n \in Nat, NEW w \in [1 .. n -> S]
  PROVE  w \in Seq(S) /\ Len(w) = n
<1>1. w \in Seq(S)
  BY SeqDef
<1>. QED BY <1>1, LenProperties

\* A window as a sequence.
LEMMA WindowPlaces ==
  ASSUME NEW S, NEW w \in Windows(S)
  PROVE  /\ w \in Seq(S) /\ Len(w) \in Nat /\ Len(w) <= Window
         /\ DOMAIN w = 1 .. Len(w) /\ \A i \in DOMAIN w : w[i] \in S
         /\ w = <<>> <=> Len(w) = 0
BY Zenon, LenProperties, ElementOfSeq, EmptySeq DEF Windows

\* A window whose slots have been replaced.
LEMMA SameLength ==
  ASSUME NEW S, NEW T, NEW v \in Windows(T), NEW w \in [DOMAIN v -> S]
  PROVE  w \in Windows(S) /\ Len(w) = Len(v)
BY WindowPlaces, Places DEF Windows

\* What is left when the first packets are acknowledged or read.
LEMMA SuffixFits ==
  ASSUME TicksAssumption, NEW S, NEW w \in Windows(S), NEW k \in 0 .. Len(w)
  PROVE  SubSeq(w, k + 1, Len(w)) \in Windows(S) /\ (w = <<>> => SubSeq(w, k + 1, Len(w)) = <<>>)
<1>1. /\ Len(w) \in Nat /\ Len(w) <= Window /\ \A i \in 1 .. Len(w) : w[i] \in S
      /\ w = <<>> <=> Len(w) = 0
  BY Zenon, WindowPlaces
<1>2. Window \in Nat
  BY Zenon, TicksConstants
<1>3. /\ SubSeq(w, k + 1, Len(w)) \in Seq(S)
      /\ Len(SubSeq(w, k + 1, Len(w))) = IF k + 1 <= Len(w) THEN Len(w) - (k + 1) + 1 ELSE 0
  BY <1>1, SubSeqProperties
<1>4. Len(w) = 0 => SubSeq(w, k + 1, Len(w)) = <<>>
  BY <1>1, SubSeqEmpty
<1>. QED BY <1>1, <1>2, <1>3, <1>4 DEF Windows

-----------------------------------------------------------------------------
\* DoSend sets the timer when it leaves a lost packet behind, and only ever brings it
\* forward.
LEMMA DoSendReady ==
  ASSUME TicksAssumption, NEW w \in Windows(SendSlots), NEW timer \in -Late .. Infinity,
         NEW timeout \in -1 .. Infinity
  PROVE  Ready(DoSend(w, timer, timeout)) /\ DoSend(w, timer, timeout).timer <= timer
<1>0. /\ Infinity \in Nat /\ SendDelay \in Nat /\ SendDelay < Infinity /\ Late \in Nat
      /\ SendTimeout \in Nat /\ SendTimeout < Infinity
  BY Zenon, TicksConstants
<1>1. CASE LostIn(w) # {}
  <2> DEFINE n == CHOOSE i \in LostIn(w) : \A j \in LostIn(w) : i <= j
             v == [w EXCEPT ![n] = Done]
             t == TickAfter(timer, SendDelay)
  <2>1. DoSend(w, timer, timeout) = [w |-> v, timer |-> t, timeout |-> timeout]
    BY Zenon, <1>1 DEF DoSend, Outcome
  <2>2. v \in [DOMAIN w -> SendSlots]
    <3>1. Done \in SendSlots
      BY <1>0, SlotFacts DEF SendSlots
    <3>2. w \in [DOMAIN w -> SendSlots]
      BY WindowPlaces, LenProperties
    <3> HIDE DEF n
    <3>. QED BY Zenon, <3>1, <3>2
  <2>3. v \in Windows(SendSlots)
    BY Zenon, <2>2, SameLength
  <2>4. t \in -Late .. Infinity /\ t <= timer /\ t # Infinity
    BY <1>0 DEF TickAfter
  <2> HIDE DEF v, t
  <2>. QED BY <2>1, <2>3, <2>4 DEF Ready
<1>2. CASE LostIn(w) = {}
  <2> DEFINE t == IF w = <<>> THEN timeout ELSE SendTimeout - w[1].age
  <2>1. DoSend(w, timer, timeout) = [w |-> w, timer |-> timer, timeout |-> t]
    BY Zenon, <1>2 DEF DoSend, Outcome
  <2>2. t \in -1 .. Infinity
    <3>1. CASE w = <<>>
      BY Zenon, <3>1
    <3>2. CASE w # <<>>
      <4>1. w[1] \in SendSlots
        BY <3>2, WindowPlaces
      <4>2. w[1].age \in 0 .. SendTimeout + 1
        BY Zenon, <4>1, <1>0, SlotFacts DEF SendSlots
      <4>. QED BY <4>2, <3>2, <1>0
    <3>. QED BY Zenon, <3>1, <3>2
  <2> HIDE DEF t
  <2>. QED BY <2>1, <2>2, <1>0, <1>2 DEF Ready
<1>. QED BY Zenon, <1>1, <1>2

\* AddData fills the window and no more.
LEMMA AddedFits ==
  ASSUME TicksAssumption, NEW w \in Windows(SendSlots), NEW k \in 0 .. MaxWrite
  PROVE  Added(w, k) \in 0 .. k /\ Added(w, k) + Len(w) <= Window
<1>1. Len(w) \in Nat /\ Len(w) <= Window /\ Window \in Nat /\ MaxWrite \in Nat
  BY Zenon, TicksConstants, WindowPlaces
<1>. QED BY <1>1 DEF Added, Minimum

\* ProcessWrite leaves no packet behind without a tick either.
LEMMA ProcessWriteKeeps ==
  ASSUME TicksAssumption, NEW o, Ready(o), NEW k \in 0 .. MaxWrite, ProcessWrite(o, k)
  PROVE  /\ unacked' \in Windows(SendSlots) /\ expires' \in -Late .. Infinity
         /\ send_timeout' \in -1 .. Infinity /\ waiting' \in 0 .. MaxWrite
         /\ LostIn(unacked') # {} => expires' # Infinity
         /\ expires' <= o.timer
<1> DEFINE c == Added(o.w, k)
           new == [i \in 1 .. c |-> Fresh]
           filled == o.w \o new
           r == IF k = 0 THEN o ELSE DoSend(filled, o.timer, o.timeout)
<1>0. /\ Window \in Nat /\ MaxWrite \in Nat /\ Infinity \in Nat /\ Late \in Nat /\ SendTimeout \in Nat
  BY TicksConstants
<1>1. unacked' = r.w /\ expires' = r.timer /\ send_timeout' = r.timeout /\ waiting' = k - c
  BY Zenon DEF ProcessWrite
<1>2. o.w \in Windows(SendSlots) /\ o.timer \in -Late .. Infinity /\ o.timeout \in -1 .. Infinity
  BY Zenon DEF Ready
<1>3. o.w \in Seq(SendSlots) /\ Len(o.w) \in Nat /\ Len(o.w) <= Window
  BY Zenon, <1>2, WindowPlaces
<1>4. c \in 0 .. k /\ c + Len(o.w) <= Window
  BY Zenon, <1>2, AddedFits
<1>5. new \in Seq(SendSlots) /\ Len(new) = c
  <2>1. Fresh \in SendSlots
    BY Zenon, <1>0, SlotFacts DEF SendSlots
  <2>2. new \in [1 .. c -> SendSlots] /\ c \in Nat
    BY <2>1, <1>4
  <2>. QED BY Zenon, <2>2, Places
<1>6. filled \in Windows(SendSlots)
  BY <1>0, <1>3, <1>4, <1>5, ConcatProperties DEF Windows
<1>7. Ready(r) /\ r.timer <= o.timer
  <2>1. CASE k = 0
    BY <2>1, <1>0, <1>2
  <2>2. CASE k # 0
    BY Zenon, <2>2, <1>2, <1>6, DoSendReady
  <2>. QED BY Zenon, <2>1, <2>2
<1> HIDE DEF r, c
<1>8. waiting' \in 0 .. MaxWrite
  BY <1>0, <1>1, <1>4
<1>. QED BY Zenon, <1>1, <1>7, <1>8 DEF Ready

\* ReadData makes the receive window shorter.
LEMMA ProcessReadKeeps ==
  ASSUME TicksAssumption, NEW w \in Windows(ReceiveSlots), ProcessRead(w)
  PROVE  unread' \in Windows(ReceiveSlots) /\ (w = <<>> => unread' = <<>>)
<1>1. PICK k \in 0 .. Len(w) : unread' = SubSeq(w, k + 1, Len(w))
  BY Zenon DEF ProcessRead, Readable
<1>. QED BY Zenon, <1>1, SuffixFits

LEMMA UnchangedReady == ASSUME TicksInv PROVE Ready(Unchanged)
BY Zenon DEF TicksInv, Ready, Unchanged, Outcome, WorkIsArmed, Armed

\* A timer that is brought forward stays set.
LEMMA TicksKept ==
  ASSUME TicksAssumption, TicksInv, NEW o, Ready(o), NEW k \in 0 .. MaxWrite, ProcessWrite(o, k),
         unread' \in Windows(ReceiveSlots), unread' # <<>> => o.timer # Infinity
  PROVE  TicksInv'
<1>1. /\ unacked' \in Windows(SendSlots) /\ expires' \in -Late .. Infinity
      /\ send_timeout' \in -1 .. Infinity /\ waiting' \in 0 .. MaxWrite
      /\ LostIn(unacked') # {} => expires' # Infinity
      /\ expires' <= o.timer
  BY Zenon, ProcessWriteKeeps
<1>2. unread' # <<>> => expires' # Infinity
  <2>1. o.timer \in -Late .. Infinity /\ Infinity \in Nat /\ Late \in Nat
    BY TicksConstants DEF Ready
  <2>. QED BY <2>1, <1>1
<1>. QED BY Zenon, <1>1, <1>2 DEF TicksInv, WorkIsArmed, Armed

\* Marking packets as lost, and the passing of time, keep a window.
LEMMA MarkLostFits ==
  ASSUME TicksAssumption, NEW w \in Windows(SendSlots), NEW ns
  PROVE  MarkLost(w, ns) \in Windows(SendSlots)
<1>1. \A i \in DOMAIN w : [w[i] EXCEPT !.lost = @ \/ i \in ns] \in SendSlots
  <2> TAKE i \in DOMAIN w
  <2>1. w[i] \in Slots(SendTimeout) /\ SendTimeout \in Nat
    BY WindowPlaces, TicksConstants DEF SendSlots
  <2>2. (w[i].lost \/ i \in ns) \in BOOLEAN
    OBVIOUS
  <2>3. [w[i] EXCEPT !.lost = w[i].lost \/ i \in ns] \in Slots(SendTimeout)
    BY Zenon, <2>1, <2>2, MarkedSlot
  <2>. QED BY <2>3, Zenon DEF SendSlots
<1>2. MarkLost(w, ns) \in [DOMAIN w -> SendSlots]
  BY <1>1, Zenon DEF MarkLost
<1>. QED BY <1>2, SameLength

LEMMA AgedFits ==
  ASSUME NEW t \in Nat, NEW w \in Windows(Slots(t))
  PROVE  Aged(w, t) \in Windows(Slots(t)) /\ LostIn(Aged(w, t)) = LostIn(w)
         /\ (Aged(w, t) = <<>> <=> w = <<>>)
<1> DEFINE next(x) == [x EXCEPT !.age = Minimum(@ + 1, Oldest(t))]
<1>1. \A i \in DOMAIN w : next(w[i]) \in Slots(t) /\ next(w[i]).lost = w[i].lost
  BY WindowPlaces, AgedSlot, Zenon
<1>2. Aged(w, t) = [i \in DOMAIN w |-> next(w[i])]
  BY Zenon DEF Aged
<1> HIDE DEF next
<1>3. Aged(w, t) \in [DOMAIN w -> Slots(t)]
  BY <1>1, <1>2, Zenon
<1>4. Aged(w, t) \in Windows(Slots(t)) /\ Len(Aged(w, t)) = Len(w)
  BY <1>3, SameLength
<1>5. LostIn(Aged(w, t)) = LostIn(w)
  BY <1>1, <1>2, Zenon DEF LostIn
<1>6. Aged(w, t) = <<>> <=> w = <<>>
  BY <1>4, WindowPlaces
<1>. QED BY <1>4, <1>5, <1>6

-----------------------------------------------------------------------------
(* The handlers keep the invariant.                                        *)

LEMMA WriteKeeps == ASSUME TicksAssumption, TicksInv, NEW k \in 1 .. MaxWrite, Write(k) PROVE TicksInv'
<1>1. k \in 0 .. MaxWrite
  BY TicksConstants
<1>2. ProcessWrite(Unchanged, k) /\ unread' = unread
  BY DEF Write
<1>3. unread' \in Windows(ReceiveSlots) /\ (unread' # <<>> => Unchanged.timer # Infinity)
  BY <1>2 DEF TicksInv, Unchanged, Outcome, WorkIsArmed, Armed
<1>. QED BY <1>1, <1>2, <1>3, UnchangedReady, TicksKept

LEMMA HandleAckKeeps == ASSUME TicksAssumption, TicksInv, NEW k, HandleAck(k) PROVE TicksInv'
<1> DEFINE w == SubSeq(unacked, k + 1, Len(unacked))
           o == DoSend(w, expires, send_timeout)
<1>1. k \in 0 .. Len(unacked) /\ ProcessWrite(o, waiting) /\ ProcessRead(unread)
  BY Zenon DEF HandleAck
<1>2. w \in Windows(SendSlots)
  BY Zenon, <1>1, SuffixFits DEF TicksInv
<1>3. Ready(o) /\ o.timer <= expires
  BY Zenon, <1>2, DoSendReady DEF TicksInv
<1>4. unread' \in Windows(ReceiveSlots) /\ (unread = <<>> => unread' = <<>>)
  BY Zenon, <1>1, ProcessReadKeeps DEF TicksInv
<1> HIDE DEF o
<1>5. unread' # <<>> => o.timer # Infinity
  <2>1. /\ unread # <<>> => expires # Infinity
        /\ expires \in -Late .. Infinity /\ o.timer \in -Late .. Infinity
        /\ Late \in Nat /\ Infinity \in Nat
    BY Zenon, <1>3, TicksConstants DEF TicksInv, WorkIsArmed, Armed, Ready
  <2>. QED BY <2>1, <1>3, <1>4
<1>6. waiting \in 0 .. MaxWrite
  BY Zenon DEF TicksInv
<1>. QED BY Zenon, <1>1, <1>3, <1>4, <1>5, <1>6, TicksKept

LEMMA HandleNegativeAckKeeps ==
  ASSUME TicksAssumption, TicksInv, NEW ns, HandleNegativeAck(ns) PROVE TicksInv'
<1> DEFINE o == DoSend(MarkLost(unacked, ns), expires, send_timeout)
<1>1. /\ unacked' = o.w /\ expires' = o.timer /\ send_timeout' = o.timeout
      /\ waiting' = waiting /\ unread' = unread
  BY Zenon DEF HandleNegativeAck
<1>2. Ready(o) /\ o.timer <= expires
  BY Zenon, MarkLostFits, DoSendReady DEF TicksInv
<1> HIDE DEF o
<1>3. unread' # <<>> => o.timer # Infinity
  <2>1. /\ unread # <<>> => expires # Infinity
        /\ expires \in -Late .. Infinity /\ o.timer \in -Late .. Infinity
        /\ Late \in Nat /\ Infinity \in Nat
    BY <1>2, TicksConstants DEF TicksInv, WorkIsArmed, Armed, Ready
  <2>. QED BY <2>1, <1>1, <1>2
<1>. QED BY <1>1, <1>2, <1>3 DEF TicksInv, WorkIsArmed, Armed, Ready

\* HandleData leaves the timer set, whether or not it was.
LEMMA HandleDataKeeps == ASSUME TicksAssumption, TicksInv, NEW n, HandleData(n) PROVE TicksInv'
<1> DEFINE len == IF n <= Len(unread) THEN Len(unread) ELSE n
           w == [i \in 1 .. len |->
                   IF i = n THEN Done ELSE IF i <= Len(unread) THEN unread[i] ELSE Fresh]
           o == Outcome(unacked, DataTimer, send_timeout)
<1>0. /\ Infinity \in Nat /\ ReceiveDelay \in Nat /\ ReceiveDelay < Infinity /\ Late \in Nat
      /\ Window \in Nat /\ ReceiveTimeout \in Nat
  BY TicksConstants
<1>1. n \in 0 .. Window /\ ProcessWrite(o, waiting) /\ ProcessRead(w)
  BY Zenon DEF HandleData
<1>2. w \in Windows(ReceiveSlots)
  <2>1. /\ Len(unread) \in Nat /\ Len(unread) <= Window
        /\ \A i \in 1 .. Len(unread) : unread[i] \in ReceiveSlots
    BY Zenon, WindowPlaces DEF TicksInv
  <2>2. len \in Nat /\ len <= Window
    BY <1>0, <1>1, <2>1
  <2>3. Done \in ReceiveSlots /\ Fresh \in ReceiveSlots
    BY Zenon, <1>0, SlotFacts DEF ReceiveSlots
  <2> HIDE DEF len
  <2>4. w \in [1 .. len -> ReceiveSlots]
    BY <2>1, <2>2, <2>3
  <2>. QED BY Zenon, <2>2, <2>4, Places DEF Windows
<1>3. DataTimer \in -Late .. Infinity /\ DataTimer # Infinity
  <2>1. expires \in -Late .. Infinity
    BY Zenon DEF TicksInv
  <2>. QED BY <2>1, <1>0 DEF DataTimer, Expired, TickAfter
<1>4. Ready(o) /\ o.timer # Infinity
  BY Zenon, <1>3 DEF Ready, Outcome, TicksInv
<1> HIDE DEF o, w
<1>5. unread' \in Windows(ReceiveSlots)
  BY Zenon, <1>1, <1>2, ProcessReadKeeps
<1>6. waiting \in 0 .. MaxWrite
  BY DEF TicksInv
<1>. QED BY Zenon, <1>1, <1>4, <1>5, <1>6, TicksKept

LEMMA HandleAckOfAckKeeps == ASSUME TicksAssumption, TicksInv, HandleAckOfAck PROVE TicksInv'
<1>1. ProcessRead(unread) /\ ProcessWrite(Unchanged, waiting) /\ waiting \in 0 .. MaxWrite
  BY Zenon DEF HandleAckOfAck, TicksInv
<1>2. unread' \in Windows(ReceiveSlots) /\ (unread = <<>> => unread' = <<>>)
  BY Zenon, <1>1, ProcessReadKeeps DEF TicksInv
<1>3. unread' # <<>> => Unchanged.timer # Infinity
  BY Zenon, <1>2 DEF TicksInv, Unchanged, Outcome, WorkIsArmed, Armed
<1>. QED BY Zenon, <1>1, <1>2, <1>3, UnchangedReady, TicksKept

LEMMA ReadKeeps == ASSUME TicksAssumption, TicksInv, Read PROVE TicksInv'
<1>1. /\ ProcessRead(unread) /\ expires' = expires /\ send_timeout' = send_timeout
      /\ unacked' = unacked /\ waiting' = waiting
  BY Zenon DEF Read
<1>2. unread' \in Windows(ReceiveSlots) /\ (unread = <<>> => unread' = <<>>)
  BY Zenon, <1>1, ProcessReadKeeps DEF TicksInv
<1>. QED BY Zenon, <1>1, <1>2 DEF TicksInv, WorkIsArmed, Armed

\* The tick resets the timer; it is set again for all that the tick leaves.
LEMMA TickKeeps == ASSUME TicksAssumption, TicksInv, Tick PROVE TicksInv'
<1> DEFINE timeout == IF send_timeout <= 0 THEN Infinity ELSE send_timeout
           s == DoSend(MarkLost(unacked, TimedOut), Infinity, timeout)
           timer == IF unread = <<>> THEN s.timer ELSE TickAfter(s.timer, ReceiveDelay)
           o == Outcome(s.w, timer, s.timeout)
<1>0. /\ Infinity \in Nat /\ ReceiveDelay \in Nat /\ ReceiveDelay < Infinity /\ Late \in Nat
  BY TicksConstants
<1>1. ProcessWrite(o, waiting) /\ ProcessRead(Asked) /\ waiting \in 0 .. MaxWrite
  BY Zenon DEF Tick, TicksInv
<1>2. timeout \in -1 .. Infinity /\ Infinity \in -Late .. Infinity
  BY <1>0 DEF TicksInv
<1> HIDE DEF timeout
<1>3. Ready(s)
  BY Zenon, <1>2, MarkLostFits, DoSendReady DEF TicksInv
<1> HIDE DEF s
<1>4. timer \in -Late .. Infinity /\ (unread # <<>> => timer # Infinity)
      /\ (s.timer # Infinity => timer # Infinity)
  <2>1. s.timer \in -Late .. Infinity
    BY Zenon, <1>3 DEF Ready
  <2>. QED BY <2>1, <1>0 DEF TickAfter
<1> HIDE DEF timer
<1>5. Ready(o) /\ o.timer = timer
  BY Zenon, <1>3, <1>4 DEF Ready, Outcome
<1> HIDE DEF o
<1>6. Asked \in Windows(ReceiveSlots) /\ (unread = <<>> => Asked = <<>>)
  <2>1. unread \in Windows(ReceiveSlots) /\ Fresh \in ReceiveSlots
    BY Zenon, TicksConstants, SlotFacts DEF TicksInv, ReceiveSlots
  <2>2. \A i \in DOMAIN unread : unread[i] \in ReceiveSlots
    BY Zenon, <2>1, WindowPlaces
  <2>3. Asked \in [DOMAIN unread -> ReceiveSlots]
    BY Zenon, <2>1, <2>2 DEF Asked
  <2>4. Asked \in Windows(ReceiveSlots) /\ Len(Asked) = Len(unread)
    BY Zenon, <2>1, <2>3, SameLength
  <2>. QED BY Zenon, <2>1, <2>4, WindowPlaces
<1>7. unread' \in Windows(ReceiveSlots) /\ (unread = <<>> => unread' = <<>>)
  BY Zenon, <1>1, <1>6, ProcessReadKeeps
<1>. QED BY Zenon, <1>1, <1>4, <1>5, <1>7, TicksKept

LEMMA ElapseKeeps == ASSUME TicksAssumption, TicksInv, Elapse PROVE TicksInv'
<1>0. Infinity \in Nat /\ Late \in Nat /\ SendTimeout \in Nat /\ ReceiveTimeout \in Nat
  BY Zenon, TicksConstants
<1>1. /\ expires > -Late /\ expires' = Passed(expires)
      /\ send_timeout' = IF send_timeout < 0 THEN send_timeout ELSE Passed(send_timeout)
      /\ unacked' = Aged(unacked, SendTimeout) /\ unread' = Aged(unread, ReceiveTimeout)
      /\ waiting' = waiting
  BY Zenon DEF Elapse
<1>2. /\ expires' \in -Late .. Infinity /\ (expires # Infinity => expires' # Infinity)
      /\ send_timeout' \in -1 .. Infinity
  BY <1>0, <1>1 DEF TicksInv, Passed
<1>3. unacked' \in Windows(SendSlots) /\ LostIn(unacked') = LostIn(unacked)
  BY Zenon, <1>0, <1>1, AgedFits DEF TicksInv, SendSlots
<1>4. unread' \in Windows(ReceiveSlots) /\ (unread' = <<>> <=> unread = <<>>)
  BY Zenon, <1>0, <1>1, AgedFits DEF TicksInv, ReceiveSlots
<1>. QED BY Zenon, <1>1, <1>2, <1>3, <1>4 DEF TicksInv, WorkIsArmed, Armed

LEMMA TicksInitInv == ASSUME TicksAssumption, TicksInit PROVE TicksInv
<1>1. \A S : <<>> \in Windows(S)
  BY TicksConstants, EmptySeq DEF Windows
<1>2. LostIn(<<>>) = {}
  BY DEF LostIn
<1>. QED BY <1>1, <1>2, TicksConstants DEF TicksInit, TicksInv, WorkIsArmed

LEMMA TicksStepInv == ASSUME TicksAssumption, TicksInv, [TicksNext]_ticksVars PROVE TicksInv'
<1>1. CASE UNCHANGED ticksVars
  BY <1>1 DEF ticksVars, TicksInv, WorkIsArmed, Armed
<1>2. CASE TicksNext
  BY <1>2, WriteKeeps, HandleAckKeeps, HandleNegativeAckKeeps, HandleDataKeeps,
     HandleAckOfAckKeeps, ReadKeeps, TickKeeps, ElapseKeeps, Zenon DEF TicksNext
<1>. QED BY Zenon, <1>1, <1>2

\* While a packet waits to be sent or a slot of the receive window is taken, the timer of the
\* socket is set, whatever arrives and however late the ticks are (RudpTickTimer, DoSend,
\* HandleData, HandleTick).  It is the safety half of WorkGoesOn.
THEOREM WorkStaysArmed ==
  ASSUME TicksAssumption
  PROVE  TicksSpec => [](TicksTypeOK /\ WorkIsArmed)
<1>1. TicksInit => TicksInv
  BY Zenon, TicksInitInv
<1>2. TicksInv /\ [TicksNext]_ticksVars => TicksInv'
  BY Zenon, TicksStepInv
<1>3. TicksInv => TicksTypeOK /\ WorkIsArmed
  BY DEF TicksInv, TicksTypeOK, Windows, SendSlots, ReceiveSlots
<1>. QED BY <1>1, <1>2, <1>3, PTL DEF TicksSpec
=============================================================================
