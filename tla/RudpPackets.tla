------------------------------ MODULE RudpPackets ------------------------------
(***************************************************************************)
(* The packets of RUDP on the wire: how each class lays its fields out in  *)
(* bytes, how RudpSocket::HandleReceiveFrom tells the classes apart, and   *)
(* the ranges with which a receiver names the packets it misses.           *)
(*                                                                         *)
(* A byte has Byte values instead of 256.  A mask of the code's bytes is   *)
(* scaled with it: 0x80 is Byte \div 2, 0x20 is Byte \div 8, and the bits  *)
(* below 0x20 are the values below Byte \div 8.  A number of 32 bits is    *)
(* still four bytes.                                                       *)
(***************************************************************************)
EXTENDS Naturals, FiniteSets, Sequences, SequencesExt, FiniteSetsExt

CONSTANTS
  Byte,      \* the values of a byte, a multiple of eight
  Window,    \* the length of the receiver's window of unread packets
  Capacity   \* the bytes of the buffer a packet is encoded into

Range32 == Byte * Byte * Byte * Byte

\* Sequence numbers are below this; it is also the bit that starts a range.
Half == Range32 \div 2

\* kHeaderSize of both families of packets.
HeaderSize == 16

\* kPacketType of the control packets a socket takes.
PacketType == [handshake |-> 0, ack |-> 2, negativeAck |-> 3, shutdown |-> 5, ackOfAck |-> 6]

VARIABLES packet, missing, buffer, got, lost

vars == <<packet, missing, buffer, got, lost>>

None == [kind |-> "none"]

\* What no class decodes is logged and ignored.
Ignored == [kind |-> "ignored"]

--------------------------------------------------------------------------------
EncodeUint32(n) ==
  <<(n \div (Byte * Byte * Byte)) % Byte, (n \div (Byte * Byte)) % Byte,
    (n \div Byte) % Byte, n % Byte>>

DecodeUint32(b, offset) ==
  ((b[offset + 1] * Byte + b[offset + 2]) * Byte + b[offset + 3]) * Byte + b[offset + 4]

EncodeWords(ws) == FlattenSeq([i \in DOMAIN ws |-> EncodeUint32(ws[i])])

\* The dispatcher's look at a packet of either family, before it is decoded.
DecodeDestinationSocketId(b) == DecodeUint32(b, 12)

--------------------------------------------------------------------------------
\* RudpControlPacket: one bit set, the type, and three words.
EncodeBase(p) ==
  LET type == PacketType[p.kind]
  IN <<Byte \div 2 + ((type \div Byte) % (Byte \div 2)), type % Byte, 0, 0>>
       \o EncodeWords(<<p.info, p.time, p.id>>)

IsValidBase(b, kind) ==
  /\ Len(b) >= HeaderSize
  /\ b[1] >= Byte \div 2
  /\ b[1] % (Byte \div 2) = (PacketType[kind] \div Byte) % (Byte \div 2)
  /\ b[2] = PacketType[kind] % Byte

\* IsValid of each class; RudpAckOfAckPacket::Decode does not call its own.
IsValid(b, kind) ==
  /\ IsValidBase(b, kind)
  /\ CASE kind = "ack"         -> Len(b) - HeaderSize \in {4, 24}
       [] kind = "negativeAck" -> Len(b) > HeaderSize /\ (Len(b) - HeaderSize) % 4 = 0
       [] kind = "handshake"   -> Len(b) - HeaderSize = 48
       [] kind = "shutdown"    -> Len(b) = HeaderSize
       [] kind = "ackOfAck"    -> TRUE

\* The words after the header: all there are, but an ack of ack has none.
BodyWords(b, kind) ==
  IF kind = "ackOfAck"
  THEN <<>>
  ELSE [i \in 1..((Len(b) - HeaderSize) \div 4) |-> DecodeUint32(b, HeaderSize + 4 * (i - 1))]

DecodeControl(b, kind) ==
  [kind |-> kind, info |-> DecodeUint32(b, 4), time |-> DecodeUint32(b, 8),
   id |-> DecodeUint32(b, 12), words |-> BodyWords(b, kind)]

--------------------------------------------------------------------------------
Flag(b, value) == IF b THEN value ELSE 0

\* RudpDataPacket: the top bit of the sequence number is clear, and the message
\* number shares its first byte with three flags.
EncodeData(p) ==
  LET seq == EncodeUint32(p.seq)
      msg == EncodeUint32(p.msg)
  IN <<seq[1] % (Byte \div 2), seq[2], seq[3], seq[4],
       (msg[1] % (Byte \div 8)) + Flag(p.first, Byte \div 2)
         + Flag(p.last, Byte \div 4) + Flag(p.inOrder, Byte \div 8),
       msg[2], msg[3], msg[4]>>
     \o EncodeWords(<<p.time, p.id>>) \o p.data

DataIsValid(b) == Len(b) >= 16 /\ b[1] < Byte \div 2

DecodeData(b) ==
  [kind |-> "data", seq |-> DecodeUint32(b, 0) % Half,
   first |-> b[5] >= Byte \div 2,
   last |-> (b[5] \div (Byte \div 4)) % 2 = 1,
   inOrder |-> (b[5] \div (Byte \div 8)) % 2 = 1,
   msg |-> DecodeUint32(b, 4) % (Range32 \div 8),
   time |-> DecodeUint32(b, 8), id |-> DecodeUint32(b, 12),
   data |-> SubSeq(b, 17, Len(b))]

--------------------------------------------------------------------------------
\* SendTo: a packet that does not fit the buffer is not sent.
Encode(p) ==
  LET b == IF p.kind = "data" THEN EncodeData(p) ELSE EncodeBase(p) \o EncodeWords(p.words)
  IN IF Len(b) > Capacity THEN <<>> ELSE b

\* The order in which a socket tries to decode what it received.
Order == <<"ack", "ackOfAck", "negativeAck", "handshake", "shutdown">>

Decode(b) ==
  LET fits == {i \in DOMAIN Order : IsValid(b, Order[i])}
  IN IF DataIsValid(b) THEN DecodeData(b)
     ELSE IF fits # {} THEN DecodeControl(b, Order[Min(fits)])
     ELSE Ignored

--------------------------------------------------------------------------------
WrongContainsSequenceNumber(ws, n) ==
  \E i \in DOMAIN ws :
    IF ws[i] >= Half /\ i < Len(ws)
    THEN ws[i] % Half <= n /\ n <= ws[i + 1] % Half
    ELSE ws[i] % Half = n

\* A word with the top bit set starts a range that the next word ends; the end
\* of a range is looked at again as a single number.
ContainsSequenceNumber(ws, n) ==
  \E i \in DOMAIN ws :
    LET first == ws[i] % Half
        last  == ws[i + 1] % Half
    IN IF ws[i] >= Half /\ i < Len(ws)
       THEN IF first <= last
            THEN first <= n /\ n <= last
            ELSE first <= n \/ n <= last
       ELSE first = n

\* RudpSlidingWindow::Next, i times.
After(n, i) == (n + i) % Half

\* One run of missing packets, from offset i of the window that begins at n.
Run(n, offsets, i) ==
  LET end == Max({j \in offsets : i..j \subseteq offsets /\ j >= i})
  IN IF end = i
     THEN <<After(n, i)>>                        \* AddSequenceNumber
     ELSE <<After(n, i) + Half, After(n, end)>>  \* AddSequenceNumbers

\* The walk of RudpReceiver::HandleTick over its window.
Ranges(n, offsets) ==
  LET begins == SetToSortSeq({i \in offsets : i = 0 \/ i - 1 \notin offsets}, <)
  IN FlattenSeq([k \in DOMAIN begins |-> Run(n, offsets, begins[k])])

\* SetIpAddress: a v4 address is kept as the v6 address that has
\* it as its last word.
SetIpAddress(ip) == IF ip.v4 THEN <<0, 0, 0, ip.word>> ELSE <<ip.word, 0, 0, ip.word>>

--------------------------------------------------------------------------------
\* Words at the edges of the bytes; the fields of a packet take neighbours in
\* this list, so that no two that are next to each other are the same.
Samples == <<0, 1, Byte, Half - 1, Half, Range32 - 1, Byte * Byte * Byte + 2>>

Sample(r, i) == Samples[((r + i) % Len(Samples)) + 1]

Rotations == 0..(Len(Samples) - 1)

Control(kind, r, words) ==
  [kind |-> kind, info |-> Sample(r, 1), time |-> Sample(r, 2), id |-> Sample(r, 3),
   words |-> words]

Init ==
  packet = None /\ missing = {} /\ buffer = <<>> /\ got = None /\ lost = {}

\* A packet is made by its constructor and its setters.
Make(p) ==
  /\ packet = None
  /\ packet' = p
  /\ UNCHANGED <<missing, buffer, got, lost>>

MakeData(r) ==
  \E first, last, inOrder \in BOOLEAN : \E data \in {<<>>, <<Byte - 1, 0>>} :
    Make([kind |-> "data", seq |-> Sample(r, 0) % Half, first |-> first, last |-> last,
          inOrder |-> inOrder, msg |-> Sample(r, 1) % (Range32 \div 8),
          time |-> Sample(r, 2), id |-> Sample(r, 3), data |-> data])

MakeAck(r) ==
  \E fields \in {1, 6} : Make(Control("ack", r, [i \in 1..fields |-> Sample(r, 3 + i)]))

MakeHandshake(r) ==
  \E ip \in [v4 : BOOLEAN, word : {2, Range32 - 1}] :
    Make(Control("handshake", r, [i \in 1..8 |-> Sample(r, 3 + i)] \o SetIpAddress(ip)))

MakeEmpty(r) == \E kind \in {"ackOfAck", "shutdown"} : Make(Control(kind, r, <<>>))

\* The receiver's window begins near either end of the sequence numbers; a
\* packet without sequence numbers is not sent.
MakeNegativeAck(r) ==
  \E n \in {0, 1} \cup (Half - Window)..(Half - 1) :
  \E offsets \in SUBSET (0..(Window - 1)) \ {{}} :
    /\ packet = None
    /\ packet' = Control("negativeAck", r, Ranges(n, offsets))
    /\ missing' = {After(n, i) : i \in offsets}
    /\ UNCHANGED <<buffer, got, lost>>

Send ==
  /\ packet # None /\ got = None /\ buffer = <<>>
  /\ buffer' = Encode(packet)
  /\ buffer' # <<>>
  /\ UNCHANGED <<packet, missing, got, lost>>

\* The sender marks what the packet names among all it keeps, here every number
\* near either end.
Receive ==
  /\ buffer # <<>>
  /\ got' = Decode(buffer)
  /\ lost' = IF got'.kind = "negativeAck"
             THEN {n \in 0..(2 * Window) \cup (Half - 2 * Window)..(Half - 1) :
                     ContainsSequenceNumber(got'.words, n)}
             ELSE {}
  /\ buffer' = <<>>
  /\ UNCHANGED <<packet, missing>>

Next ==
  \/ \E r \in Rotations :
       MakeData(r) \/ MakeAck(r) \/ MakeHandshake(r) \/ MakeEmpty(r)
  \/ MakeNegativeAck(0)
  \/ Send \/ Receive

Spec == Init /\ [][Next]_vars

--------------------------------------------------------------------------------
\* What is sent is whole bytes, with a header of its own.
TypeOK ==
  /\ \A i \in DOMAIN buffer : buffer[i] \in 0..(Byte - 1)
  /\ buffer # <<>> => Len(buffer) >= HeaderSize
  /\ packet.kind \in DOMAIN PacketType \cup {"data", "none"}
  /\ lost \subseteq 0..(Half - 1)

\* A packet is received as it was sent: HandleReceiveFrom takes it for a packet
\* of its class, and every field, flag and optional field is what was set.
ReceivedAsSent == got # None => got = packet

\* The identifier by which the dispatcher finds the socket is the one the
\* packet has once it is decoded, whichever its class.
RoutedToAddressee == buffer # <<>> => DecodeDestinationSocketId(buffer) = packet.id

\* The sender retransmits exactly what the receiver misses (HandleTick,
\* AddSequenceNumbers and ContainsSequenceNumber): all of it, nothing else, also
\* when a run goes past the largest sequence number.
NegativeAckIsExact == got.kind = "negativeAck" => lost = missing
================================================================================
