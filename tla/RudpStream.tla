----------------------------- MODULE RudpStream -----------------------------
(***************************************************************************)
(* One direction of a connected RUDP session: the socket that writes       *)
(* (RudpSocket, RudpSender), the socket that reads (RudpSocket,            *)
(* RudpReceiver) and the UDP network between them, which may lose,         *)
(* duplicate, delay and reorder every packet.                              *)
(*                                                                         *)
(* Data is abstracted to chunks: the k-th packet's worth of data that the  *)
(* application writes is chunk k.  Clock values are abstracted away: which *)
(* packets have timed out at a tick, and when a tick happens, is free, so  *)
(* what is shown here holds for every choice of the timeouts.  The window  *)
(* sizes that RudpCongestionControl computes are free within its limits.   *)
(* A window is seen as a map from the contained numbers to items, the view *)
(* that RudpSlidingWindow implements.                                      *)
(***************************************************************************)
EXTENDS RudpSequenceNumbers, Sequences, FiniteSets

CONSTANTS
  InitialSequenceNumber,     \* first data packet, random non-zero in the code
  InitialAckSequenceNumber,  \* first acknowledgement, random non-zero
  MaxPackets,                \* bound: chunks written on one connection
  MaxAcks,                   \* bound: acknowledgements sent on one connection
  MaxBuffer                  \* bound: chunks in one AsyncWrite or AsyncRead

ASSUME StreamAssumption ==
  /\ InitialSequenceNumber \in SeqNums \ {0}
  /\ InitialAckSequenceNumber \in SeqNums \ {0}
  /\ MaxPackets \in Nat
  /\ MaxAcks \in Nat
  /\ MaxBuffer \in Nat
  /\ MaxPackets + maximum_window_size <= kMaxSequenceNumber
  /\ MaxAcks + default_window_size <= kMaxSequenceNumber

VARIABLES
  unacked,        \* RudpSender::unacked_packets_
  waiting_write,  \* chunks left in waiting_write_buffer_
  written,        \* history: chunks put into packets so far
  unread,         \* RudpReceiver::unread_packets_
  acks,           \* RudpReceiver::acks_
  last_ack,       \* last_ack_packet_sequence_number_
  waiting_read,   \* waiting_read_buffer_ and what the read still needs
  delivered,      \* history: the chunks copied to the application
  net             \* every packet ever sent; any of them may arrive, at any time

senderVars == <<unacked, waiting_write, written>>
receiverVars == <<unread, acks, last_ack, waiting_read, delivered>>
vars == <<senderVars, receiverVars, net>>

NoPacket == -1
Chunks == 1 .. MaxPackets

Minimum(a, b) == IF a <= b THEN a ELSE b
Monus(a, b) == IF a <= b THEN 0 ELSE a - b

-----------------------------------------------------------------------------
(* Windows.                                                                *)

Contains(w, n) == IsInRange(w.begin, w.end, n)

Size(w) == Distance(w.begin, w.end)

\* Remove() until Begin() is n.
RemoveTo(w, n) ==
  [begin |-> n,
   end   |-> w.end,
   lost  |-> {m \in w.lost : IsInRange(n, w.end, m)},
   chunk |-> [m \in SeqNums |-> IF IsInRange(n, w.end, m) THEN w.chunk[m] ELSE 0]]

\* Faulty variant of IsAckPoint: it does not stop at the first gap.
WrongAckPoint(w, n) == n = w.end

\* RudpReceiver::AckPacketSequenceNumber returns n.
IsAckPoint(w, n) ==
  /\ n = w.end \/ (Contains(w, n) /\ n \in w.lost)
  /\ \A m \in w.lost : ~IsInRange(w.begin, n, m)

\* Sizes that RudpCongestionControl::SendWindowSize and ReceiveWindowSize return.
WindowSizes == default_window_size .. maximum_window_size

-----------------------------------------------------------------------------
(* Packets.                                                                *)

DataPacket(n, chunk) == [type |-> "data", seq |-> n, chunk |-> chunk]
AckPacket(m, n) == [type |-> "ack", ack |-> m, seq |-> n]
AckOfAckPacket(m) == [type |-> "ackofack", ack |-> m]
NegativeAckPacket(ns) == [type |-> "nak", seqs |-> ns]

-----------------------------------------------------------------------------
(* RudpSender.                                                             *)

\* AddData: append packets, marked lost, until the window of this size is full
\* or c chunks of the buffer are used.
AddedBy(w, size, buffer) == Minimum(buffer, Monus(size, Size(w)))

AddData(w, c) ==
  LET added == {n \in SeqNums : IsInRange(w.end, Advance(w.end, c), n)}
  IN  [begin |-> w.begin,
       end   |-> Advance(w.end, c),
       lost  |-> w.lost \cup added,
       chunk |-> [n \in SeqNums |->
                    IF n \in added THEN written + 1 + Distance(w.end, n)
                                   ELSE w.chunk[n]]]

\* DoSend stops at the first lost packet that the UDP socket accepts; n is that
\* packet, or NoPacket if none is lost or every attempt fails.
MaySend(w) == w.lost \cup {NoPacket}

DoSend(w, n) ==
  [begin |-> w.begin, end |-> w.end, lost |-> w.lost \ {n}, chunk |-> w.chunk]

Sent(w, n) == IF n = NoPacket THEN {} ELSE {DataPacket(n, w.chunk[n])}

\* RudpSocket::ProcessWrite, run on window w with buffer chunks waiting and
\* `sent' already given to the network by the caller.
ProcessWrite(w, buffer, sent) ==
  IF buffer = 0
    THEN /\ unacked' = w
         /\ net' = net \cup sent
         /\ UNCHANGED <<waiting_write, written>>
    ELSE \E size \in WindowSizes :
           LET c == AddedBy(w, size, buffer)
               filled == AddData(w, c)
           IN  \E n \in MaySend(filled) :
                 /\ unacked' = DoSend(filled, n)
                 /\ net' = net \cup sent \cup Sent(filled, n)
                 /\ waiting_write' = buffer - c
                 /\ written' = written + c

\* RudpSocket::AsyncWrite / StartWrite.
AsyncWrite(k) ==
  /\ waiting_write = 0
  /\ written + k <= MaxPackets
  /\ ProcessWrite(unacked, k, {})
  /\ UNCHANGED receiverVars

\* Faulty variant of HandleAck: an acknowledgement outside the window is obeyed.
WrongHandleAck(p) ==
  /\ p.type = "ack"
  /\ ProcessWrite(RemoveTo(unacked, p.seq), waiting_write, {AckOfAckPacket(p.ack)})
  /\ UNCHANGED receiverVars

\* RudpSocket::HandleAck.
HandleAck(p) ==
  /\ p.type = "ack"
  /\ LET reply == {AckOfAckPacket(p.ack)}
         trimmed == RemoveTo(unacked, p.seq)
     IN  IF Contains(unacked, p.seq) \/ unacked.end = p.seq
           THEN \E n \in MaySend(trimmed) :
                  ProcessWrite(DoSend(trimmed, n), waiting_write,
                               reply \cup Sent(trimmed, n))
           ELSE ProcessWrite(unacked, waiting_write, reply)
  /\ UNCHANGED receiverVars

\* Marking packets lost makes DoSend send them again.
MarkLost(w, ns) ==
  [begin |-> w.begin, end |-> w.end, lost |-> w.lost \cup ns, chunk |-> w.chunk]

\* RudpSocket::HandleNegativeAck.
HandleNegativeAck(p) ==
  /\ p.type = "nak"
  /\ LET marked == MarkLost(unacked, {n \in p.seqs : Contains(unacked, n)})
     IN  \E n \in MaySend(marked) :
           /\ unacked' = DoSend(marked, n)
           /\ net' = net \cup Sent(marked, n)
  /\ UNCHANGED <<waiting_write, written, receiverVars>>

\* RudpSocket::HandleTick at the writing end; the packets whose send timeout
\* has passed are marked lost.
SenderTick(timedout) ==
  /\ timedout \subseteq {n \in SeqNums : Contains(unacked, n)}
  /\ LET marked == MarkLost(unacked, timedout)
     IN  \E n \in MaySend(marked) :
           ProcessWrite(DoSend(marked, n), waiting_write, Sent(marked, n))
  /\ UNCHANGED receiverVars

-----------------------------------------------------------------------------
(* RudpReceiver.                                                           *)

\* Faulty variant of Reserve: it reserves up to any number, coming soon or not.
WrongReserve(w, size, n) ==
  LET c == Minimum(Distance(w.end, n) + 1, Monus(size, Size(w)))
      added == {m \in SeqNums : IsInRange(w.end, Advance(w.end, c), m)}
  IN  [begin |-> w.begin, end |-> Advance(w.end, c),
       lost |-> w.lost \cup added, chunk |-> w.chunk]

\* HandleData reserves slots, marked lost, up to number n if n is coming soon
\* and the window of this size has room.
Reserve(w, size, n) ==
  LET c == IF IsComingSoon(w.end, n)
             THEN Minimum(Distance(w.end, n) + 1, Monus(size, Size(w)))
             ELSE 0
      added == {m \in SeqNums : IsInRange(w.end, Advance(w.end, c), m)}
  IN  [begin |-> w.begin, end |-> Advance(w.end, c),
       lost |-> w.lost \cup added, chunk |-> w.chunk]

\* HandleData then fills the slot of the packet, unless it is already filled
\* or not in the window.
Fill(w, p) ==
  IF p.seq \in w.lost
    THEN [begin |-> w.begin, end |-> w.end,
          lost  |-> w.lost \ {p.seq}, chunk |-> [w.chunk EXCEPT ![p.seq] = p.chunk]]
    ELSE w

\* RudpSocket::ProcessRead on window w, with room for left chunks in the buffer
\* and need more to complete the read: ReadData copies the chunks before the
\* first gap, as many as the buffer takes, and removes them.
ProcessRead(w, left, need) ==
  \E g \in SeqNums :
    /\ IsAckPoint(w, g)
    /\ LET k == Minimum(left, Distance(w.begin, g))
       IN  /\ unread' = RemoveTo(w, Advance(w.begin, k))
           /\ delivered' = delivered \o
                 [i \in 1 .. k |-> w.chunk[Advance(w.begin, i - 1)]]
           /\ waiting_read' = [left |-> left - k, need |-> Monus(need, k)]

\* RudpSocket::AsyncRead / StartRead: once the last read has completed, by
\* filling its buffer or by reaching transfer_at_least.
AsyncRead(k, at_least) ==
  /\ waiting_read.left = 0 \/ waiting_read.need = 0
  /\ ProcessRead(unread, k, at_least)
  /\ UNCHANGED <<senderVars, acks, last_ack, net>>

\* RudpSocket::HandleData.
HandleData(p) ==
  /\ p.type = "data"
  /\ \E size \in WindowSizes : 
       ProcessRead(Fill(Reserve(unread, size, p.seq), p),
                   waiting_read.left, waiting_read.need)
  /\ UNCHANGED <<senderVars, acks, last_ack, net>>

\* Faulty variant of HandleAckOfAck: any answer empties the window.
WrongHandleAckOfAck(p) ==
  /\ p.type = "ackofack"
  /\ acks' = [begin |-> acks.end, end |-> acks.end]
  /\ ProcessRead(unread, waiting_read.left, waiting_read.need)
  /\ UNCHANGED <<senderVars, last_ack, net>>

\* RudpSocket::HandleAckOfAck: the acknowledgements up to this one are known to
\* have arrived.
HandleAckOfAck(p) ==
  /\ p.type = "ackofack"
  /\ acks' = IF Contains(acks, p.ack)
               THEN [begin |-> Following(p.ack), end |-> acks.end]
               ELSE acks
  /\ ProcessRead(unread, waiting_read.left, waiting_read.need)
  /\ UNCHANGED <<senderVars, last_ack, net>>

\* acks_.Append(), after a Remove() of the oldest if the window is full.
AppendAck(w) ==
  [begin |-> IF Size(w) >= default_window_size THEN Following(w.begin) ELSE w.begin,
   end   |-> Following(w.end)]

\* RudpSocket::HandleTick at the reading end.  due: the acknowledgement interval
\* has passed; late: the last acknowledgement has been unanswered for the
\* acknowledgement timeout; missing: reserved slots empty for the receive timeout.
ReceiverTick(due, late, missing) ==
  /\ missing \subseteq unread.lost
  /\ \E g \in SeqNums :
       /\ IsAckPoint(unread, g)
       /\ LET nak == IF missing = {} THEN {} ELSE {NegativeAckPacket(missing)}
          IN  IF due /\ (g # last_ack \/ (acks.begin # acks.end /\ late))
                THEN /\ Distance(InitialAckSequenceNumber, acks.end) < MaxAcks
                     /\ acks' = AppendAck(acks)
                     /\ last_ack' = g
                     /\ net' = net \cup {AckPacket(acks.end, g)} \cup nak
                ELSE /\ net' = net \cup nak
                     /\ UNCHANGED <<acks, last_ack>>
  /\ ProcessRead(unread, waiting_read.left, waiting_read.need)
  /\ UNCHANGED senderVars

-----------------------------------------------------------------------------
EmptyWindow(n) ==
  [begin |-> n, end |-> n, lost |-> {}, chunk |-> [m \in SeqNums |-> 0]]

Init ==
  /\ unacked = EmptyWindow(InitialSequenceNumber)
  /\ waiting_write = 0
  /\ written = 0
  /\ unread = EmptyWindow(InitialSequenceNumber)
  /\ acks = [begin |-> InitialAckSequenceNumber, end |-> InitialAckSequenceNumber]
  /\ last_ack = InitialSequenceNumber
  /\ waiting_read = [left |-> 0, need |-> 0]
  /\ delivered = <<>>
  /\ net = {}

Next ==
  \/ \E k \in 1 .. MaxBuffer : AsyncWrite(k)
  \/ \E p \in net : HandleAck(p)
  \/ \E p \in net : HandleNegativeAck(p)
  \/ \E timedout \in SUBSET SeqNums : SenderTick(timedout)
  \/ \E k \in 1 .. MaxBuffer : \E at_least \in 1 .. k : AsyncRead(k, at_least)
  \/ \E p \in net : HandleData(p)
  \/ \E p \in net : HandleAckOfAck(p)
  \/ \E due, late \in BOOLEAN : \E missing \in SUBSET unread.lost :
       ReceiverTick(due, late, missing)

Spec == Init /\ [][Next]_vars

-----------------------------------------------------------------------------
(* Properties.                                                             *)

\* Positions in the stream of the ends of the two windows: packets acknowledged
\* to the sender, packets read by and reserved by the receiver.
Acked == written - Size(unacked)
Read == Len(delivered)
Reserved == Len(delivered) + Size(unread)

\* The number of the packet that carries the chunk at position i, counting from 0.
NumberOf(i) == Advance(InitialSequenceNumber, i)

\* The receiver has taken chunk i + 1 off the network.
Received(i) ==
  \/ i < Read
  \/ i < Reserved /\ NumberOf(i) \notin unread.lost

\* Type invariant.
Windows == [begin : SeqNums, end : SeqNums, lost : SUBSET SeqNums,
            chunk : [SeqNums -> 0 .. MaxPackets]]

Packets ==
  [type : {"data"}, seq : SeqNums, chunk : Chunks]
    \cup [type : {"ack"}, ack : SeqNums, seq : SeqNums]
    \cup [type : {"ackofack"}, ack : SeqNums]
    \cup [type : {"nak"}, seqs : SUBSET SeqNums]

TypeOK ==
  /\ unacked \in Windows
  /\ waiting_write \in 0 .. MaxBuffer
  /\ written \in 0 .. MaxPackets
  /\ unread \in Windows
  /\ acks \in [begin : SeqNums, end : SeqNums]
  /\ last_ack \in SeqNums
  /\ waiting_read \in [left : 0 .. MaxBuffer, need : 0 .. MaxBuffer]
  /\ delivered \in Seq(Chunks)
  /\ net \subseteq Packets

\* What the application reads is what was written, in order, without a gap or a
\* repetition, however the network treats the packets (RudpReceiver::HandleData
\* and ReadData).
InOrderDelivery == \A i \in 1 .. Len(delivered) : delivered[i] = i

\* RudpSender::HandleAck only drops packets that the receiver has: a chunk that
\* can no longer be retransmitted has arrived.
AckedIsReceived == \A i \in 0 .. Acked - 1 : Received(i)

\* The receiver never reserves a slot for a packet that was never written, so a
\* negative acknowledgement only asks for packets that exist.
ReservedIsWritten == Reserved <= written

\* When the reading socket reports that it is flushed (RudpReceiver::Flushed),
\* the writer has handled an acknowledgement of everything received up to the
\* first gap: closing the reading socket then costs the writer nothing.
ReceiverFlushed == acks.begin = acks.end /\ IsAckPoint(unread, last_ack)

FlushedIsKnown ==
  ReceiverFlushed => Distance(InitialSequenceNumber, last_ack) <= Acked

\* The writer's window only moves forward: an old or repeated acknowledgement
\* never brings back packets that were dropped (RudpSender::HandleAck).
AckedNeverFalls == [][Acked' >= Acked]_vars

\* The two windows over the lossy network implement the reliable stream that
\* the sockets promise to the applications.
Stream == INSTANCE ReliableStream WITH
            arrived   <- {i \in 1 .. MaxPackets : Received(i - 1)},
            confirmed <- Acked

ImplementsStream == Stream!Spec

-----------------------------------------------------------------------------
(* The inductive invariant behind the safety properties.  Position(n) is   *)
(* the place in the stream of packet number n, AckPosition(m) the place    *)
(* among the acknowledgements of acknowledgement number m.                 *)

Position(n) == Distance(InitialSequenceNumber, n)
AckPosition(m) == Distance(InitialAckSequenceNumber, m)

\* w is a window over the positions lo .. hi - 1 of the stream.
Covers(w, lo, hi) ==
  /\ lo <= hi
  /\ hi <= MaxPackets
  /\ hi - lo <= maximum_window_size
  /\ w.begin = NumberOf(lo)
  /\ w.end = NumberOf(hi)
  /\ \A m \in w.lost : lo <= Position(m) /\ Position(m) < hi

SenderInv ==
  /\ Acked >= 0
  /\ Covers(unacked, Acked, written)
  /\ \A i \in Acked .. written - 1 : unacked.chunk[NumberOf(i)] = i + 1
  /\ written + waiting_write <= MaxPackets

ReceiverInv ==
  /\ Covers(unread, Read, Reserved)
  /\ \A i \in Read .. Reserved - 1 :
       NumberOf(i) \notin unread.lost => unread.chunk[NumberOf(i)] = i + 1

\* What a packet on the network may say.
DataInv ==
  \A p \in net : p.type = "data" => p.chunk <= written /\ p.seq = NumberOf(p.chunk - 1)

AckInv ==
  /\ \A p \in net : p.type = "ack" => \A i \in 0 .. Position(p.seq) - 1 : Received(i)
  /\ \A i \in 0 .. Position(last_ack) - 1 : Received(i)

\* An answered acknowledgement has been handled by the writer.
AnswerInv ==
  /\ AckPosition(acks.begin) <= AckPosition(acks.end)
  /\ AckPosition(acks.end) <= MaxAcks
  /\ \A p \in net : p.type = "ack" =>
       /\ AckPosition(p.ack) < AckPosition(acks.end)
       /\ AckPosition(p.ack) = AckPosition(acks.end) - 1 => p.seq = last_ack
  /\ \A p \in net : p.type = "ackofack" =>
       \E q \in net : /\ q.type = "ack"
                      /\ q.ack = p.ack
                      /\ Position(q.seq) <= Acked
  /\ acks.begin = acks.end => Position(last_ack) <= Acked

IInv ==
  /\ TypeOK
  /\ SenderInv
  /\ ReceiverInv
  /\ InOrderDelivery
  /\ ReservedIsWritten
  /\ AckedIsReceived
  /\ DataInv
  /\ AckInv
  /\ AnswerInv
=============================================================================
