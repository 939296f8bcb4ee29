---------------------------- MODULE MCRudpParts -----------------------------
(***************************************************************************)
(* The parts of an RUDP connection that are checked on their own: the      *)
(* congestion control, the tick timer, the packets and the RudpConnection. *)
(* A behaviour is one of one part; the others stay in an initial state.    *)
(***************************************************************************)
EXTENDS RudpCongestionControl, RudpConnection

VARIABLES
  part,                                            \* the part of this behaviour
  expires, send_timeout, unacked, waiting, unread, \* RudpTicks
  packet, missing, buffer, got, lost               \* RudpPackets

\* The constants of the congestion control are those of acks and losses; its
\* measurements have a clock that moves, packets and reads.  With 52 bytes, 416 bits,
\* the product that gives the speed leaves the word.
Rate == INSTANCE RudpCongestionControl WITH
  Types <- {}, Rtts <- {}, Steps <- {0, 2, 30}, Backs <- {3}, MaxReports <- 0,
  MaxPackets <- 5

Pace == INSTANCE RudpCongestionControl WITH
  Types <- {1}, Rtts <- {}, Steps <- {0, 6, 11}, Lengths <- {0, 1, 4, 12, 52}, MaxReports <- 0,
  MaxReads <- 4

Ticks == INSTANCE RudpTicks WITH
  SendDelay <- 3, SendTimeout <- 2, ReceiveDelay <- 1, ReceiveTimeout <- 2, Late <- 1,
  Window <- 2, MaxWrite <- 3

Packets == INSTANCE RudpPackets WITH Byte <- 8, Window <- 6, Capacity <- 64

ASSUME Ticks!TicksAssumption /\ ConnectionAssumption

ticks == <<expires, send_timeout, unacked, waiting, unread>>
wire == <<packet, missing, buffer, got, lost>>

MCInit ==
  /\ part \in {"sizes", "rate", "pace", "ticks", "packets", "connection"}
  /\ Init /\ Ticks!TicksInit /\ Packets!Init /\ ConnectionInit
  /\ part # "connection" => conn.role = "server" /\ conn.immediate

MCNext ==
  /\ UNCHANGED part
  /\ \/ /\ \/ part = "sizes" /\ Next
           \/ part = "rate" /\ Rate!Next
           \/ part = "pace" /\ Pace!Next
        /\ UNCHANGED <<ticks, wire, conn>>
     \/ part = "ticks" /\ Ticks!TicksNext /\ UNCHANGED <<vars, wire, conn>>
     \/ part = "packets" /\ Packets!Next /\ UNCHANGED <<vars, ticks, conn>>
     \/ part = "connection" /\ ConnectionNext /\ UNCHANGED <<vars, ticks, wire>>

\* Acks keep arriving (MaxReports bounds the losses); the io_service runs what
\* is posted and time passes.  Nothing is assumed of the peer of a connection.
MCSpec ==
  /\ MCInit /\ [][MCNext]_<<vars, ticks, wire, conn, part>>
  /\ WF_vars(part = "sizes" /\ OnAnyAck)
  /\ WF_ticks(part = "ticks" /\ Ticks!Tick)
  /\ WF_ticks(part = "ticks" /\ Ticks!Elapse)
  /\ WF_conn(part = "connection" /\ Handlers)
  /\ WF_conn(part = "connection" /\ Expire)

-----------------------------------------------------------------------------
(* Properties; SizesInBounds, RttBetween and Recovers are properties of    *)
(* RudpCongestionControl, ConnectionIsWatched is one of RudpConnection.    *)

\* What RudpCongestionControl measures is in proportion with what happened: the
\* rate of arriving packets; and a slow transmission counts as slow, one that is not
\* does so only when the product that gives its speed wraps.
MeasuredIsReal == TypeOK /\ RateIsPlausible /\ SlowIsSlow

\* While a packet waits to be sent, or a slot of the receive window is occupied
\* or missing, the tick timer is set: DoSend and HandleData never leave work
\* behind without a tick to continue it.  And a packet marked lost does not stay
\* so: tick by tick RudpSender::DoSend reaches it, unless it is acknowledged.
WorkGoesOn == [](Ticks!TicksTypeOK /\ Ticks!WorkIsArmed) /\ Ticks!LostIsSent

\* A packet is received as it was sent, RudpSocket::HandleReceiveFrom taking it for
\* a packet of its class; the dispatcher finds its socket by the identifier it has
\* once decoded; and the sender retransmits exactly what the receiver misses, also
\* when a run goes past the largest sequence number (RudpNegativeAckPacket).
WireIsExact ==
  /\ Packets!TypeOK
  /\ Packets!ReceivedAsSent /\ Packets!RoutedToAddressee /\ Packets!NegativeAckIsExact

\* Whatever the peer does, a RudpConnection comes to its end: the socket closes, a
\* message that wants a response has had an outcome (the response or an error,
\* unless the transport goes first), and an error was the last thing signalled.
ConnectionEnds ==
  SignalsEnd /\ SocketCloses /\ OutcomeSignalled
=============================================================================
