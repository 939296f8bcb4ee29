# Verification of MaidSafe-Transport

TLA+ specifications of the transport library in `src/src/maidsafe/transport`,
their TLC configurations, and TLAPS proofs of the results that matter most.
Paths below are relative to that directory. `PROJECT.json` lists the components,
the runs, the correspondence of definitions to source lines, the hazards and
the theorems in machine-readable form.

## The system

A `Transport` sends messages to endpoints and reports received messages and
errors by signals. There are three of them (RUDP, TCP, UDP); above them are the
message handlers, and beside them the services that get a node past its NAT.

| Part | Sources | Modules |
|---|---|---|
| Sliding window | `rudp_sliding_window.h` | `RudpSequenceNumbers`, `RudpSlidingWindow`, `RudpWindowMap`; `RudpPartsProofs` |
| Data stream of a connection | `rudp_sender`, `rudp_receiver`, `rudp_socket` | `RudpStream`, `ReliableStream`; `RudpStreamProofs` |
| Timing of a socket | `rudp_tick_timer.h`, `rudp_tick_op.h`, timers of sender and receiver | `RudpTicks`; `RudpSocketProofs` |
| Connection setup and closing | `rudp_session`, `rudp_acceptor`, `rudp_dispatcher`, `rudp_peer.h` | `RudpHandshake`; `RudpSocketProofs` |
| Message exchange on a connection | `rudp_connection` | `RudpConnection`; `RudpPartsProofs` |
| RUDP transport and multiplexer | `rudp_transport`, `rudp_multiplexer` | in `RudpHandshake`, `RudpConnection`, `RudpPackets` |
| Congestion control | `rudp_congestion_control`, `rudp_parameters` | `RudpCongestionControl`; `RudpPartsProofs` |
| RUDP packets | `rudp_*_packet` | `RudpPackets` |
| TCP transport | `tcp_transport`, `tcp_connection` | `TcpTransport`; `TcpTransportProofs` |
| UDP transport | `udp_transport`, `udp_request` | `UdpTransport`; `UdpAndMessageProofs` |
| Message handlers | `message_handler`, `rudp_message_handler` | `MessageHandlers`; `UdpAndMessageProofs` |
| NAT detection and traversal | `nat_detection*`, `nat_traversal` | `NatDetectionService`, `NatDetectionClient`; `NatDetectionProofs`, `NatClientProofs` |
| NAT-PMP client | `nat-pmp/` | `NatPmpClient`; `NatClientProofs` |
| UPnP client (the one that is built) | `upnp/mini_upnp_client_impl` | `MiniUpnpClient`, `UpnpCommands`; `UpnpClientProofs` |
| UPnP client on libupnp | `upnp/upnp_client_impl` | `UpnpIgdClient`; `UpnpClientProofs` |
| Bundled miniupnpc | `libupnp/` | `MiniXml`, `IgdUrls`, `SsdpDiscovery`, `MiniUpnpHttp`, `ValidIgd`, `UpnpCommands`, `UpnpCommandCalls`; `UpnpClientProofs` |
| Contacts, gateway, interfaces | `contact`, `gateway`, `network_interface`, `utils` | not modelled |

How they interact: `RudpTransport` owns a `RudpMultiplexer` (one UDP socket), a
`RudpAcceptor` and its `RudpConnection`s. Each connection has a `RudpSocket`,
which has a `RudpSession` (handshake), a `RudpSender`, a `RudpReceiver`, a
`RudpCongestionControl` and one `RudpTickTimer` that all of them share. Packets
reach a socket through the `RudpDispatcher`. Everything on one RUDP transport
runs on one strand, so that a handler is atomic; the exceptions are the dispatch
of a received message, which runs outside the strand, and the public functions
of the transport: `StopListening` resets `acceptor_` on the thread of its caller
while the closes it dispatches wait in the strand. A `TcpConnection` has a strand of its own beside that of its
`TcpTransport`. A `UdpTransport` has one strand, but its public functions change
the socket on the caller's thread. The NAT detection service uses the RUDP
transport and its message handler; its handlers run outside the strand, so that
several of them may be blocked at once, each on a thread of the `io_service`. The UPnP client
calls miniupnpc, which is sequential and blocking; libupnp calls its client back
on a pool of threads.

## Modules

Definitions commented as a faulty variant (most are called `Wrong...`, some
`Silent...`, `Stuck...`, `Early...`) stand before the definition they vary. No
specification uses them; each is a plausible mistake that some property must
catch.

### RUDP

**`RudpSequenceNumbers`** is the arithmetic of sequence numbers that wrap: `Next`
(here `Following`), `IsInRange`, `IsComingSoon`, `SequenceNumberToIndex`.

**`RudpSlidingWindow`** is the class: `items_`, `maximum_size_`, `begin_`, `end_`
as variables, one action per member function that changes them, under the
precondition stated for it. **`RudpWindowMap`** is what its users rely on, a map
from numbers to items; `ImplementsMap` says that the class implements it.

**`RudpStream`** is one direction of a connected session: `unacked` and
`waiting_write` at the writing socket, `unread`, `acks`, `last_ack` and
`waiting_read` at the reading one, and `net`, the set of all packets ever sent.
A packet in `net` may arrive at any time, any number of times or never, which
covers loss, duplication, delay and reordering. Each action is a whole handler of
`RudpSocket` with what it calls in `RudpSender` or `RudpReceiver`: for instance
`HandleAck` sends the acknowledgement of the acknowledgement, trims the window,
sends the next lost packet and then fills the window from the waiting write.
Windows are used in the view of `RudpWindowMap`. Three things are abstracted.
Data is counted in chunks, one per packet; a read takes whole chunks
(`bytes_read`, a packet that is half read, is not seen). Clock values are free:
which packets have timed out, and whether an acknowledgement is due, is any
choice, so the results hold for every setting of `RudpParameters`. The window
sizes of the congestion control are free between the default and the maximum,
the range that `SizesStayInBounds` proves of `RudpCongestionControl`. A UDP send
may fail. **`ReliableStream`** is the promise to the applications: chunks arrive,
are confirmed to the writer only after they arrived, and are read in order.

**`RudpTicks`** puts the clock back for one socket: the shared timer counts down,
packets age, a timer handler may be late. The peer's packets are free inputs.
`not_a_date_time` and `pos_infin` are treated as Boost does: the first counts as
passed, the second never does, and `Expired()` holds for the second as well.

**`RudpHandshake`** has client sockets, the sockets that a listening transport
creates, the acceptor's queue, the dispatcher's table and the packets in flight.
A socket's id and its random initial sequence number are represented by the
socket itself. Packets may be kept on arrival (duplicated), lost and reordered;
sockets may be closed and the transport may stop listening at any time.
`listening` says how far `StopListening` has come: its own step on the caller's
thread, then `CloseAcceptor`, then `CloseMultiplexer`, with handlers in between.
A `HandleAccept` that runs before `CloseAcceptor` finds the acceptor open and
`acceptor_` reset, which ends the process (`"crashed"`).

**`RudpConnection`** has one variable, the record of a connection and of its
socket; each member function is an operator from record to record, so that calls
compose as in the code, and each handler is an action. The socket is seen
through its asynchronous operations: pending, posted, then handled, with the
error code read when the handler runs. Connections that accept, that send a
message and that only connect are the three roles. The dispatch of a message
outside the strand is a step of its own, and what it then asks of the strand
another.

**`RudpCongestionControl`** has the members of the class as variables and its
methods, called in any order, as actions. The window and packet sizes, the
arrival times, the packet pairs, the round trip estimate and the transmission
speed are computed as in the code, with 32-bit products reduced modulo `Word`
and 64-bit ones modulo `Wide`; all constants of `RudpParameters` are scaled. The
product of `IsSlowTransmission` does wrap in the run.

**`RudpPackets`** lays each packet class out in bytes and takes it apart again. A
byte has `Byte` values instead of 256, masks are scaled with it, and a number is
still four bytes. `RudpSocket::HandleReceiveFrom` tries the classes in the order
of the code, and the ranges of a negative acknowledgement are built as by
`RudpReceiver::HandleTick` and read as by `ContainsSequenceNumber`.

### TCP, UDP and messages

**`TcpTransport`** has the acceptors, `connections_` and a record per connection,
whose handlers are operators from record to record. The strand of a connection
and that of the transport are separate: `InsertConnection` and
`RemoveConnection` are posted and run later. A `CheckTimeout` that waits on the
timer is counted, since each `expires_at` aborts those that wait.

**`UdpTransport`** has the sockets, `outstanding_requests_` and a record per
request. `StartListening` is two steps on the application's thread (the socket is
replaced, then opened), which handlers on the strand see between. Ids wrap at
`MaxId`; replies from the network may be lost, late, repeated or made up.

**`MessageHandlers`** has one exchange of messages between a caller and a callee:
`WrapMessage` under each security type, `OnMessageReceived` with decryption and
parsing, `ProcessSerialisedMessage` and the answers, and the ends of the
connection, which `CloseOnError` closes with `on_error` at any time, also while a
message is under way. A signature is passed on with its message and checked by
nobody here. The cryptographic operations are external: what a key opens is a
relation of keys, and signing and encrypting may fail.

### NAT

**`NatPmpClient`** has the client and its implementation object, the queue of
mapping requests and the posted handlers. All receives share one buffer, as in
the code. A variable chosen at the start, `orderly`, says whether the gateway answers
each request once; if not, answers come late, repeatedly or never. `undefined` records that `front()` of an
empty queue was taken, after which nothing further is claimed.

**`NatDetectionService`** has the three places of a detection: nodes behind some
kind of NAT, the rendezvous, and a proxy. At the rendezvous a call of
`NatDetection` for each request runs and waits on a thread of its own, of
`Threads` in all; `call` has the variables on its stack and whose outcome was
written to them last. An outcome calls one slot after the other (`CallSlot`), of
all calls that have connected one. The slots of a call that returned early stay
connected and write to where its variables were: to free memory, to those of
another call, or with a crash. Waits may end spuriously and find `condition`
uninitialised. NATs are modelled by what reaches whom.

**`NatDetectionClient`** is `NatDetection::Detect` with the requests of
`NatDetectionRpcs`, whose slots stay connected to the signals of the message
handler, and the pings of `NatTraversal`, which may fail and then raise the same
signal. `candidates` are the directly connected contacts, in any order; `tried`
records whom a request was sent to.

### UPnP

**`MiniUpnpClient`** is the client the library builds, on a gateway that loses
power or its connection, serves other hosts, refuses and loses requests and
replies. `lost` records that something went astray at a call, or that the gateway
rebooted; `left` that a renewal was refused or a request to delete did not arrive.
**`UpnpCommands`** has the commands of `upnpcommands.c` as operators on the list of
names and values received. That list is empty when nothing was received, and that
of old bytes of the stack when the request could not be sent; `sscanf` of a text
that is no number leaves what was there. **`UpnpCommandCalls`** makes one call of
each with every order of fields, every cut of the reply and one field that is no
number.

**`UpnpIgdClient`** is the client on libupnp. Each section under `mutex_` is a
step, and the download of a description is a step outside it. A `mapping` knows
for each service the ticks since it was refreshed there (`last_refresh_time`),
`timers` are the scheduled calls of `RefreshPortMappingCallback` with the ticks
left, and `told` is the latest callback for a mapping.

**`MiniXml`** is the parser of `minixml.c` with the list that `upnpreplyparse.c`
makes of its reports. Texts are cut after any character; `beyond` is the byte after
the buffer, which the parser reads in two places. **`IgdUrls`** is the reading of a description
(`igd_desc_parse.c`), `GetUPNPUrls` and `parseURL` on sequences of tokens.
**`SsdpDiscovery`** is `upnpDiscover` with the requests to minissdpd.
**`MiniUpnpHttp`** has the two HTTP exchanges, `miniwget2` and
`simpleUPnPcommand`, with replies in pieces of any size, and **`ValidIgd`** the
three passes of `UPNP_GetValidIGD`.

### Composition for TLC

An `MC` module puts several components into one run. A variable (`scenario`,
`part`, `lossy`) chosen in the initial state says which of them moves; the others
stay in one initial state. Each behaviour is therefore one of one component under
the constants of its scenario. Most components are extended, so that the run
checks the very definitions that the theorems state; their names therefore carry a
prefix (`UdpInit`, `PmpNext`, `clientVars`) where two would coincide. A component
whose constants differ between scenarios is instantiated. The parts in one run do not share state; where
parts share state (a session, an acceptor and a dispatcher; a client and its
commands; a parser and its list) they are in one module or extend each other.

## Runs

| Run | Module | What it shows |
|---|---|---|
| `stream` | `RudpStream` | In-order delivery, safe flush, the refinement of `ReliableStream`, and the inductive invariant `IInv` of the proofs (no loss of unacknowledged data, no slot for unwritten data). |
| `sliding_window` | `RudpSlidingWindow` | The deque, the two ends and `operator[]` agree, and the window implements the map. |
| `handshake` | `MCRudpHandshake` | `EndsAgree`: connected ends agree, with one server socket per client. `ListenerConsistent`: dispatcher and acceptor, however far a `StopListening` has come. `ConnectedIsFinal`. `EventuallyConnected`: a client gets connected although challenges are never repeated. |
| `rudp_parts` | `MCRudpParts` | Congestion control: sizes stay in bounds and recover, the round trip estimate moves towards what is measured, a slow transmission is found slow and another one only where the 32-bit product wraps. `WorkGoesOn`: waiting work has a tick and lost packets are sent again. `WireIsExact`: packets arrive as they were sent, negative acknowledgements name what is missing. `ConnectionIsWatched`, `ConnectionEnds`: a connection is under a timeout, signals one outcome and closes. |
| `transports` | `MCTransports` | `TcpIsKept`: assertions hold, transfers are under a timeout, `connections_` is exact, accepting goes on. `UdpIsKept`: one outcome per request, every outstanding request is timed, reading goes on until a late reply. Connections, requests and exchanges end. |
| `nat` | `MCNatTraversal` | NAT-PMP: answers meet their requests, the search ends and queued mappings are sent. Detection, with calls at once: what a node is told is said once and is true of the node whose outcome was used, and a node is answered but in the ways listed under Observations. The asking node: candidates in order, `Detect` returns. |
| `upnp_clients` | `MCUpnpClients` | The lists and caches of the client on libupnp agree and the application is told the truth, refreshes are scheduled; the client on miniupnpc leaves nothing behind, also when replies are lost; commands report refusals, and a success vouches for its outputs unless one is a number that cannot be read. |
| `miniupnpc` | `MCMiniUpnpc` | The parser reports what is whole in a text that is cut anywhere, but for two exceptions; URLs fit their buffers and reach the right host; discovery returns what was heard and closes its socket; HTTP content is all that follows the first blank line that came in one piece; a connected gateway is preferred; every call returns. |
| `sliding_window_back` | `RudpSlidingWindow` | *Violated*: the non-const `Back()` returns the front. |
| `ticks_timeout` | `RudpTicks` | *Violated*: unacknowledged packets with no timer set, so that their send timeout is never noticed. |
| `handshake_shutdown` | `RudpHandshake` | *Violated*: a half-open server socket shuts down the client's connection to another socket. |
| `udp_late_reply` | `UdpTransport` | *Violated*: a late reply ends the reading of a listening transport. |

A property of a composed run is often the conjunction of the properties that the
component's module states, each with its own comment there; the type invariant of
the component is one of the conjuncts.

The four violated runs are disagreements between the code and its comments; the
findings in `PROJECT.json` quote them.

### Bounds

- `stream`: 8 sequence numbers starting at 6 and 7, so that data and
  acknowledgements wrap; windows of 1 and 2; 4 chunks, 3 acknowledgements, buffers
  of 2. A window fills, shrinks, wraps and is retransmitted; the acknowledgement
  window overflows.
- `sliding_window`: 6 numbers, windows up to 3, all starting numbers.
- `handshake`: two scenarios. Without losses (a packet that is never delivered is
  a lost one) 2 clients and 2 server sockets open and close with one queued
  request. With up to 2 losses one client connects to a listener of 3 sockets and
  nothing closes.
- `rudp_parts`: sizes with 3 connection types, buffers below, between and above
  the limits, 4 reports and 2 acknowledgements; rates with 5 packets, the window
  of arrival times being 5; speeds with intervals below, at and above the one the
  code waits for, and lengths such that the product stays below the range of the
  32-bit integer, or wraps to a fast speed or to a slow one; ticks with windows of 2 and a write of 3 so that one packet
  waits, delays and timeouts in the
  order of the code's, and handlers late by up to 1; packets with 8 values per
  byte, so that each mask still has bits below and above it, and windows of 6
  numbers across the wrap; connections with messages of 0 to 2 reads, 4 reads,
  and one renewal of the timer by a tick per write.
- `transports`: one TCP connection with a listener and messages in several reads,
  or two that connect; two UDP requests on one socket with ids that wrap at 2, or
  one on two sockets; one exchange of messages for each type, security, key and
  outcome of parsing. Connections are alike, and so are requests, so a liveness
  property is stated of one of them.
- `nat`: 2 ports and 3 answers of a disorderly gateway with 3 tries (9 in the
  code: only the last one differs), 3 ports of an orderly one; two nodes at one
  rendezvous, behind each of four kinds of NAT, in four scenarios: both in full
  with 3 threads (a thread to spare) and with 2 (both calls wait and nobody is
  left); one whose messages are lost beside one that succeeds; a full and a partial
  one with losses, failures to listen and spurious wakeups; a node with 4 contacts,
  each up or down, direct or not, 6 requests, and pings that fail.
- `upnp_clients`: two gateways with a service each, one mapping with a lease of 3
  ticks, 4 discovery events; two mappings and 5 calls; all 13 commands.
- `miniupnpc`: texts of 3 pieces of 12 kinds and of 6 pieces of 5 kinds, each cut
  after every character of its last piece; 2
  services whose fields may be missing, and 1 with URLs of every shape against
  every base; 2 devices and 3 datagrams; 4 replies in all pieces, read into a
  buffer that is fresh or holds an earlier reply; lists of up to 3 devices.

Deadlock is not checked where the system really may stop: a stream whose bound
is used up, a closed connection, a call that has returned, a socket with nothing
left to do.

### Fairness

The `io_service` runs every posted handler and timers expire: that is what
Boost.Asio provides while threads run the service. From it come the weak fairness
of posted handlers, of elapsing timers and of ticks in `RudpTicks`,
`RudpConnection`, `TcpTransport`, `UdpTransport`, `NatPmpClient` and
`NatDetectionClient`. Beyond that:

- `handshake`: a client's ticks keep coming (`SendConnectionRequest` and
  `SendCookieResponse` set the timer each time), and a packet that is not lost
  arrives. The number of losses is bounded, as the code promises nothing on a
  network that loses everything. A lost challenge costs a server socket, which is
  why the run has one socket more than losses.
- `rudp_parts`: acknowledgements keep arriving, for `Recovers` only. Nothing is
  assumed of the peer of a connection.
- `transports`: the operating system ends a TCP connect that gets no answer, since
  the code does not (see below). A callee's message handler returns. An end that
  waits times out when nothing is under way (and may at any other time).
- `nat`: an orderly gateway answers. Of a detection only this is assumed: while
  something of it can go on by itself (a thread that was notified, a slot to be
  called, a message that a free thread can handle, an attempt to connect), something
  does. Spurious wakeups and losses are never assumed. Of the asking node: its
  thread runs, a time limit expires and a request has an outcome. Nothing is assumed
  of `KeepAlive`, a call of the application.
- `miniupnpc`: a call is sequential code and every wait in it has a timeout.
  `CallReturns` also rests on finitely many datagrams (`MaxReplies`) and finite
  responses: `upnpDiscover` waits its full delay again after each reply
  (`libupnp/miniupnpc.c:499`), and a server that never ends its answer is read
  forever.
- `upnp_clients`, `stream`, `sliding_window` have no liveness properties and
  assume no fairness.

## Proofs

There are eight proof modules. Components that do not interact share one; each
theorem is still about one component's specification.

`RudpPartsProofs` starts with the lemmas on wrapping numbers: `Advance` and
`Distance` are inverse to each other, and the range tests of the code say what they
should about distances. It then proves, for every range of numbers and every window
size, that the window stays `Aligned` and implements the map. The inductive
invariant adds to the types that the length of the deque is the distance of its
ends and never above `maximum_window_size`; since that is below the number of
sequence numbers, full and empty windows cannot be confused.

`RudpStreamProofs` proves the properties of the `stream` run, and those that
follow from `IInv`, for every value of the constants. The inductive invariant `IInv` says:

- `SenderInv`, `ReceiverInv`: each window covers a stretch of positions of the
  stream, the slots hold the chunks of their positions, lost marks lie inside;
- `DataInv`: a data packet on the network carries the chunk of its number;
- `AckInv`: everything an acknowledgement on the network claims has been received;
- `AnswerInv`: the newest acknowledgement carries `last_ack`, and an answered one
  has been handled by the sender.

The last two are what the plain properties lack: without `AckInv` a step of the
sender could drop what the receiver does not have, and without `AnswerInv` an
empty window of acknowledgements would say nothing about the sender. The proof
has a lemma for each window operation, one for each handler, and combines them.
The refinement theorem maps `arrived` to the chunks received and `confirmed` to
the chunks that have left the sender's window.

Of the congestion control `RudpPartsProofs` proves that the sizes stay within the range that
`RudpStream` takes as given: `SizesInBounds` is inductive, and what the
arithmetic does to each size is a lemma (`DataSizeStays`, `WindowStays`). For
the round trip time the inductive invariant `RttInv` bounds the estimate by an eighth of the 32-bit range; then the sum in
`OnAckOfAck` does not wrap (`SmallRemainder`), and a weighted mean lies between
its arguments (`AverageBetween`).

`RudpSocketProofs` proves the three safety properties of the `handshake` run
for any number of clients, server sockets, queued requests and losses. The
inductive invariant `IInv` of `RudpHandshake` has three parts beside the types and
the dispatcher's table. `SessionInv` says what a socket's state tells of its peer.
`PacketInv` says the same of packets in flight: a challenge comes from a socket
that was given this client's request, and a client has answered one server socket
only, whether the answer is on its way or has arrived (`HasAnswered`). Without it
an old cookie response could connect a second socket to the client. `AcceptorInv`
says that while the acceptor is open, in the phase of `StopListening` between its
own step and `CloseAcceptor` too, the socket that waits for a request, or whose
`HandleAccept` is posted, is the last one created and was never open.

Of the tick timer the module proves that owed work has a tick (`WorkIsArmed`), for any
delays, timeouts and windows. The property is inductive with the types; what the proof
has to show is that the functions that set the timer compose: `DoSend` leaves a lost
packet only with the timer set and never moves it back (`DoSendReady`), so that the
`ProcessWrite` at the end of a handler cannot undo what the receiver asked for
(`ProcessWriteKeeps`). `TimeoutIsArmed`, which fails, asks the same of packets that were
sent and not acknowledged.

Of a connection `RudpPartsProofs` proves `ConnectionIsWatched` and the action property
`SignalsEnd`. `IInv` strengthens them: connect, write, the two reads and the
dispatch never overlap and none is outstanding before the start (`Safe`); an
infinite timer on an open socket means a dispatch on a connection that is still
attached (`Timed`); and what is left to read has a bound that each read lowers by
at most a message (`Bounded`), as after a message of size zero `data_received_`
passes `data_size_`. Since handlers are functions on the record of the connection,
there is a lemma for each member function, and a handler's lemma combines those
of the functions it calls.

`UdpAndMessageProofs` proves `UdpIsKept`. Two requests would share an id if the ids
came round to one that is still outstanding, and then one of them would never have
an outcome. The invariant rules it out by counting: an outstanding id lies behind
`next_request_id_` by no more than the number of requests sent (`Behind` in `IdInv`),
and there are no more requests than ids. `RequestInv` ties a running timer to an
outstanding request, and `SocketInv` says that the socket of a listening transport
is open and that nobody is about to close it, which the two steps of
`StartListening` and the posted `CloseSocket` make less than obvious.

Of the message handlers it proves the safety half of `ExchangeEnds`, for any two
nodes. `MessageInv` says that what is on the wire has the type its sender asked for
(`IsMeant`), and that from the second message on only answers are
under way: a chain of answers to answers needs a type that is its own answer, and
`ManagedEndpointMessage` is the only one.

`TcpTransportProofs` proves `TcpIsKept` and the action property `ErrorIsLast`. The
invariant says of every connection (`Sound`) that it has one thing outstanding at
a time, an operation, a dispatch or a posted call, except for the `DoClose` that
`~TcpTransport` posts behind it (`InTurn`); that the socket stays open and the
timer infinite from the last read to the posted `StartWrite` (`Prepared`); that a
transfer has a `CheckTimeout` (`Timed`); that a connection of a living transport
that has nothing outstanding is closed, and that one which signalled an error has
nothing outstanding (`Finishes`); and that the last posted update of `connections_`
is the right one (`Listed`). `Listed` is what the plain property lacks: the
insertion and the removal of a connection run on another strand, any time later.

`NatDetectionProofs` proves `DetectedIsReal` for any number of nodes, ports and
threads, with all calls of `NatDetection` at once. `Shape` has the types in full.
`PortsApart` says that a port serves one of the proxy's two attempts, so that no node
has opened its NAT to a port from which it is to be reached without its help. `Truth`
says that every outcome is true of the node it is about, wherever it is: on its way,
being passed to slots, or in the variables of a call, which know whose it is (`of`);
and so are the verdicts under way. It holds although slots of calls that have returned
write to the variables of others. `OneSource` says that a node's answer, or what
will become it, is in one place, so that the rendezvous and the proxy cannot both
answer.

`NatClientProofs` proves `AskedInOrder` and, of NAT-PMP, `AnswerMeetsItsRequest` and
the action property `NoQuestionOnceKnown`. The slots of earlier requests stay
connected, so the first needs (`ClientTracks`) that each slot, running or connected,
belongs to a candidate that was asked, and that an error is only ever emitted while
the first candidate is down. Since a failed ping is such an error, it also needs
(`ClientKnows`) that a rendezvous that is pinged is a candidate that was asked. For the second `PmpOneQuestion` says that of all a client
may have under way with an orderly gateway (a send, a question, a received answer)
there is one at a time, and `PmpQuiet` that nothing was asked before the socket is
connected.

`UpnpClientProofs` has four theorems. Of the client on libupnp, `ListInv` and
`MapInv` are the properties of the run with the types in full and, for
`RefreshIsScheduled`, the fact that nothing is mapped before the client is
registered. Of the client on miniupnpc, `NothingLeftBehind` (with `ListCovers`, whatever
was lost) is itself inductive but rests on what the commands of `upnpcommands.c` return for each reply (`AddExchange`,
`DeleteExchange`) and on what the list holds after a search, an insertion and an
erasure (`KnownList`, `EnableList`, `EraseList`). Of `UPNP_GetValidIGD`, `ValidInv` adds
to `ConnectedFirst` that while the passes go on no gateway has said that it is
connected, and that URLs are allocated only for the gateway that is asked in the first
pass.

| Theorem | Module | States |
|---|---|---|
| `Invariance` | `RudpStreamProofs` | `IInv` always holds |
| `TypeCorrect` | | the type invariant of the stream |
| `DeliveryInOrder` | | the reader gets chunks 1, 2, 3, ... |
| `AckedReceived` | | what leaves the sender's window has been received |
| `ReservedWritten` | | the receive window never reserves a slot for data not written |
| `FlushedKnown` | | a flushed receiver's acknowledgements have reached the sender |
| `AckedMonotonic` | | the acknowledged prefix never shrinks |
| `StreamRefinement` | | `RudpStream` implements `ReliableStream` |
| `WindowAligned` | `RudpPartsProofs` | length, ends and indices of the window agree |
| `WindowRefinement` | | `RudpSlidingWindow` implements `RudpWindowMap` |
| `SizesStayInBounds` | | window and packet sizes stay between default and maximum |
| `RttStaysBetween` | | each new estimate lies between the old one and the measurement |
| `EndsDoAgree` | `RudpSocketProofs` | a connected client and its peer agree, and no other socket is connected to the client |
| `ListenerStaysConsistent` | | the dispatcher's table and the acceptor stay consistent, in every phase of `StopListening` |
| `ConnectedStaysFinal` | | a connected session keeps its peer until it closes, and a closed one stays closed |
| `WorkStaysArmed` | | while a packet waits to be sent, or a slot of the receive window is taken, the tick timer is set |
| `IsWatched` | `RudpPartsProofs` | an open socket has a timeout, and the uses of its buffer exclude each other |
| `DetachedIsQuiet` | | a detached connection signals nothing |
| `IsKept` | `UdpAndMessageProofs` | one outcome per request, outstanding requests are timed, ids are not 0, reading goes on until a late reply |
| `ExchangeIsShort` | | only managed endpoint messages make an exchange longer than message and answer; a waiting caller closes after an error or a handled message |
| `IsKept` | `TcpTransportProofs` | assertions hold, transfers are timed, `connections_` is exact, accepting goes on |
| `ErrorStaysLast` | | an error is the last signal of a connection |
| `DetectedStaysReal` | `NatDetectionProofs` | what a node is told about its NAT is true of the node whose outcome was used, and one thing only |
| `AskedStaysInOrder` | `NatClientProofs` | candidates are asked in order, and none but the first if that one is up |
| `AnswersMeetRequests` | | an orderly gateway's answers meet their requests; no port is passed over |
| `NoQuestionAfterAnswer` | | the public address is not asked for once it is known |
| `ListsStayInAgreement` | `UpnpClientProofs` | devices are listed once, the cache is theirs, callbacks tell the state of a mapping |
| `RefreshStaysScheduled` | | a mapping that counts as fresh has its refresh scheduled |
| `NothingStaysBehind` | | the list of the client on miniupnpc agrees with the gateway while nothing was lost, covers it whatever was lost, and successful calls have had their effect |
| `ConnectedComesFirst` | | a connected gateway is chosen first, its URLs and data are set, none are leaked |

Assumptions, named in the modules that declare the constants: the default window
is at least 1 and at most the maximum, which is at most the largest sequence
number (`SequenceAssumption`); the default value of an item is an item
(`WindowAssumption`); initial numbers are not 0, as `GenerateSequenceNumber`
ensures, and a stream has at most `MaxPackets` packets and `MaxAcks`
acknowledgements, each of which together with a window stays within one round of
sequence numbers (`StreamAssumption`). The last part is needed because packets in
the model may be delayed forever: one that is delivered a whole round of 2^31
numbers later cannot be told from a new one. Default sizes are at most the
maximal ones (`SizesAssumption`), and no round trip takes an eighth of the 32
bits of microseconds, nine minutes (`RttAssumption`). Clients are not numbers, as
server sockets are, and a listener has a socket (`HandshakeAssumption`). There are
no more UDP requests than ids (`UdpAssumption`); ids have 64 bits, so that a
request that is outstanding while all ids are used up does not happen. The bounds
of connections and TCP transports are any natural numbers (`ConnectionAssumption`,
`TcpAssumption`). Caller and callee differ (`MessageAssumption`). Port 0 stands for
no port (`ServiceAssumption`, `NatPmpAssumption`); there is a contact, a request and a try (`ClientAssumption`, `NatPmpAssumption`). A service has one
owner and the threshold of a refresh is shorter than the lease, as the constants of
the code are (`UpnpAssumption`); gateways are among the devices found
(`ValidAssumption`). A receive delay is positive and no longer than a send delay
(`TicksAssumption`).

Each of these inductive invariants was model-checked before it was proved; that of
the stream still is, in the `stream` run. Five of the theorems state the safety part
of a property of a run whose other conjuncts are liveness: `DetachedIsQuiet`
(`SignalsEnd`) that of `ConnectionEnds`, `ErrorStaysLast` (`ErrorIsLast`) that of
`ConnectionSettles`, `NoQuestionAfterAnswer` that of `PmpGoesOn`,
`ExchangeIsShort` that of `ExchangeEnds`, and `WorkStaysArmed` that of `WorkGoesOn`.

Only model-checked:

- all liveness properties, as fairness is out of the prover's reach:
  `EventuallyConnected`, `Recovers`, `RequestSettles`, `Answered`, `DetectReturns`,
  `CallReturns`, and the liveness in `WorkGoesOn`, `ConnectionEnds`,
  `ConnectionSettles`, `ExchangeEnds` and `PmpGoesOn`;
- `ParsedAsExpected`, `UrlsReach`, `WireIsExact`, `ReplyIsWhole`, `SuccessIsAnswer`,
  `DiscoveredIsHeard`: they say what a computation on texts, bytes or lists gives, by
  recursion or by folds over the input, and what a recursive definition computes for
  every input is not provable with the installed provers;
- `MeasuredIsReal`: rates are quotients of sums over a sequence, non-linear arithmetic
  beyond the SMT solver, and so is the wrapped quotient of a slow transmission.

## Observations

Facts about the code that the models show, or that modelling it brought up, and
that have no run of their own. Where a property above is stated with an exception
("until a late reply", "while nothing was lost"), the exception is one of these.

RUDP

- A tick before the acknowledgement interval has passed sends nothing and, once
  all data is read, sets no further tick (`rudp_receiver.cc:154`): an
  acknowledgement is owed until the next packet arrives.
- `1000 * transmitted_bits_` is computed in 32 bits (`rudp_congestion_control.cc:279`)
  and wraps above half a megabyte per record; a fast connection can then count as
  slow and be closed. This happens in the run; `SlowIsSlow` says that it is the only
  way to be wrong.
- The margin of `rudp_congestion_control.cc:214` is eight times `send_data_size_`,
  where the comment says `max_data_size`; the window shrinks by 10%, where it says
  20%. `OnAck` and `OnGenerateAck` both write `packets_receiving_rate_`, one for
  the peer's rate and one for its own.
- The read of an empty message reports the four bytes of the size read before it
  (`waiting_read_bytes_transferred_` is not reset), so `data_received_` passes
  `data_size_` and their difference wraps (`rudp_connection.cc:299`); the timeout
  ends it. The model takes this path.
- `DoClose` may ask a socket to flush that the peer has closed (line 87); nothing
  completes that, and the connection object is kept.
- The callback of a plain `Connect` is not called when it fails: the socket is
  closed by then, and only `on_error_` is signalled (line 134). If it connects, the initial timeout goes on and closes the
  idle connection (line 128).
- `pending_requests_` has no bound (`rudp_acceptor.cc:101`).
- `StopListening` resets `acceptor_` at once and only dispatches the closes
  (`rudp_transport.cc:90`). A `HandleAccept` that is queued before them passes
  `IsOpen()` (line 139), and `StartAccept` dereferences a null pointer (line 130).
  If the transport listens again by then, it accepts with the new acceptor, beside
  the accept that `StartListening` has started; listening again is not modelled.
- `RudpTransport::Send` to a contact behind a rendezvous calls a message handler
  that is never set (`rudp_transport.cc:156`).
- `RudpAckPacket::Encode` compares the buffer with the size without the optional
  fields (`rudp_ack_packet.cc:150`). Nothing sends or decodes a
  `RudpKeepalivePacket`.

TCP, UDP, messages

- `StartConnect` sets the timer and starts no wait on it (`tcp_connection.cc:255`):
  `kDefaultInitialTimeout` has no effect, and a connect that gets no answer lasts
  as long as the operating system lets it.
- `StartListening` replaces `socket_` on the application's thread; a `HandleRead`
  for the old socket may then start a read on the new one before it is open
  (`udp_transport.cc:266`, against the assertion in line 205).
- `MessageHandler` passes silently over messages it cannot open. The answer to a
  `ManagedEndpointMessage` has the type of the request, so it is answered again.

NAT-PMP and NAT detection

- `DoSendMappingRequest` only queues (`nat-pmp/natpmp_client_impl.cc:160`): a
  request queued after the address is known, while none is on its way, is never
  sent. `Stop` closes the socket before the removals it posted run (line 113).
  The tries are looked at before the answer (line 190), so that a client can stop
  although the gateway was found.
- A response is taken for the answer to `request_queue_.front()` (line 375);
  repeated responses empty the queue, and the front of an empty queue is undefined.
- The slot for a proxy's response compares the proxy with itself
  (`nat_detection_service.cc:110`), so the outcome of one request is written to the
  calls for all that wait: a node can be told that it is a full cone because another
  one is, or get no answer because another one's request failed. `call[o].of` is
  whose outcome was used.
- The wait has no predicate and no time limit (line 128). An outcome that comes
  before it is missed (`missed`), and the call keeps its thread until another outcome
  comes; when every thread waits, no response can be read any more (`AllWait`). A
  spurious wakeup finds `condition` (line 106) uninitialised. The slots write
  `result` and `condition` without the mutex.
- A call that returns early leaves its slots connected (lines 131 and 137); they
  hold the addresses of its local variables. Writing through them is what `crashed`
  and the writes to other calls stand for.
- Partial detection answers `kNotConnected` to every node that is not directly
  connected (line 88). The proxy listens on 127.0.0.1 (line 210, marked as to do).
- The slots of earlier requests stay connected (`nat_detection_rpcs.cc:71`): a
  response first runs the slot of the first candidate, so that `Detect` can return
  a contact that is down as the rendezvous; the slots hold addresses of locals of
  `Detect`, and go on writing its results after it has returned. With no directly
  connected contact an empty vector is indexed. That the rendezvous of the transport
  is the one written for the caller (`RendezvousAgree`) follows from the two
  assignments of one callback.
- A ping raises the same `on_error` as a request, so a ping that fails makes the
  slots of a detection that is over ask the next candidate
  (`nat_detection_rpcs.cc:113`).
- `KeepAliveCallback` never calls the callback it was given (`nat_traversal.cc:77`).

UPnP

- Client on libupnp: a goodbye during the download of a description is without
  effect and the device is added after it (`upnp/upnp_client_impl.cc:427`); a
  device whose name has capital letters or whose description has a `URLBase` is
  never recognised as known, hence `Plain` in `KnownIsNotDownloaded`; a refresh
  that fails leaves the mapping enabled with nothing scheduled (line 1146); the
  assertion in line 916 can fail after `UnRegister`.
- Client on miniupnpc: a command whose reply is lost returns 0
  (`libupnp/upnpcommands.c:341`), so a mapping the gateway never saw counts as
  added. It is also why `ListCovers` holds: a mapping that was made although its
  reply was lost is in the list, and the destructor deletes it. A mapping that the gateway refuses to renew is no longer enabled and so
  not deleted at the gateway (`upnp/mini_upnp_client_impl.cc:142`). Mappings are
  not registered with gateways that come later: the timer of `RefreshCallback` is
  commented out (line 68).
- `UPNP_GetSpecificPortMappingEntry` succeeds with an empty port if the reply is
  cut after the client (line 560). `uptime = 0;` in `UPNP_GetStatusInfo` sets the
  pointer, not the value (line 141).
- A rate or an uptime that is no number leaves the output as it was, with a success
  (lines 139, 237 and 244); a number of entries is then 0 (line 508). `SuccessIsAnswer`
  and `NothingOld` have these exceptions.
- When `parseURL` or the send fails, `simpleUPnPcommand` leaves `*bufsize` at the size
  of the buffer (`libupnp/miniupnpc.c:238` and 283), hence the exceptions in
  `ReportedIsReceived`. The commands do not look at what it returns and parse the
  uninitialised buffer, hence `sent` in `SuccessIsAnswer`.
- `minixml.c` skips the prefix of a start tag but reports that of an end tag
  (line 162). Of a text with white space in front it reports the white space and as
  many characters less of the end (lines 141 to 157). It reads the byte after the
  buffer when the buffer ends after the `=` of an attribute (line 64; the attribute
  is reported as empty if that byte ends a tag) and after the colon of a prefix
  (line 129; nothing is reported).
- `upnpDiscover` drops what minissdpd reported when `socket`, `setsockopt` or
  `bind` fails (`libupnp/miniupnpc.c:476`), and keeps the socket open after
  `setsockopt`; an error of `read` is kept in a `size_t` and missed
  (`libupnp/minissdpc.c:86`).
- `miniwget2` looks for the end of the headers in each piece by itself
  (`libupnp/miniwget.c:166`): when the blank line comes in two pieces, the content up
  to the next blank line, mostly all of it, is dropped. `ContentIsContiguous` says
  exactly what is kept. `simpleUPnPcommand` looks for it also beyond what was
  received (`libupnp/miniupnpc.c:133`), hence a fresh buffer in `BreakIsComplete`.
- The third pass of `UPNP_GetValidIGD` does not look at what it downloaded (line
  745): a gateway can be returned with 3, which the comment says is no gateway. And 2
  is returned for a gateway that could not be downloaded in the first pass, so was
  never asked, or whose answer was lost, where the comment says that it reported as
  not connected.

## Not modelled

- In discovery, other headers whose names begin with `st`: names are tokens, and the
  comparison of their first two characters (`libupnp/miniupnpc.c:359`) is equality.
  In descriptions, texts that are cut at `MINIUPNPC_URL_MAXSIZE`.
- Half-read packets in `RudpReceiver::ReadData`, and the clock of acknowledgements
  in `RudpTicks`: the stream abstracts data to packets and times to free choices.
- Opening the UDP socket of `RudpMultiplexer`, listening again, and the rendezvous
  `Send` of `RudpTransport`, which cannot run (above).
- Reading a device description and `GetExternalIpAddress` in the client on
  libupnp: conversions of that library's document tree, without state.
- The sample programs, tests, Python module and Windows branches of miniupnpc.
- `service.cc`, a stub that nothing uses.
- `Contact`, endpoints, `Gateway`, `NetworkInterface`, `utils`: value classes and
  queries of the operating system.
- Message contents, cryptography, log texts and Protocol Buffers encodings.
