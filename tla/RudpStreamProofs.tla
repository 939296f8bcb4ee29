-------------------------- MODULE RudpStreamProofs --------------------------
(***************************************************************************)
(* Proofs that one direction of a RUDP session is a reliable stream, for   *)
(* every size of the number space, every window size, every timing and     *)
(* every behaviour of the network.                                         *)
(***************************************************************************)
EXTENDS RudpStream, TLAPS

-----------------------------------------------------------------------------
(* The sequence number arithmetic.                                         *)

\* The remainder that IsComingSoon takes is one wrap at most.
LEMMA RemainderWraps ==
  ASSUME NEW N \in Nat, N > 0, NEW x \in Nat, x < 2 * N
  PROVE  x % N = IF x < N THEN x ELSE x - N
OBVIOUS

\* Advance stays in the number space and is undone by Distance.
LEMMA AdvanceDistance ==
  ASSUME NEW n \in SeqNums, NEW k \in 0 .. kMaxSequenceNumber
  PROVE  /\ Advance(n, k) \in SeqNums
         /\ Distance(n, Advance(n, k)) = k
BY SequenceAssumption DEF SeqNums, Advance, Distance

LEMMA DistanceAdvance ==
  ASSUME NEW m \in SeqNums, NEW n \in SeqNums
  PROVE  /\ Distance(m, n) \in 0 .. kMaxSequenceNumber
         /\ Advance(m, Distance(m, n)) = n
BY SequenceAssumption DEF SeqNums, Advance, Distance

\* IsInRange tells exactly the numbers that lie before the end, counted from
\* the beginning.
LEMMA InRangeIsDistance ==
  ASSUME NEW b \in SeqNums, NEW e \in SeqNums, NEW n \in SeqNums
  PROVE  IsInRange(b, e, n) <=> Distance(b, n) < Distance(b, e)
BY SequenceAssumption DEF SeqNums, IsInRange, Distance

\* IsComingSoon accepts exactly the next maximum_window_size numbers.
LEMMA ComingSoonIsDistance ==
  ASSUME NEW e \in SeqNums, NEW n \in SeqNums
  PROVE  IsComingSoon(e, n) <=> Distance(e, n) < maximum_window_size
<1> DEFINE w == (e + maximum_window_size) % (kMaxSequenceNumber + 1)
<1>1. w = Advance(e, maximum_window_size)
  BY SequenceAssumption, RemainderWraps DEF SeqNums, Advance
<1>2. maximum_window_size \in 0 .. kMaxSequenceNumber
  BY SequenceAssumption
<1> QED
  BY <1>1, <1>2, InRangeIsDistance, AdvanceDistance DEF IsComingSoon

-----------------------------------------------------------------------------
(* Packet numbers as positions in the stream.                              *)

LEMMA ConstantTypes ==
  /\ kMaxSequenceNumber \in Nat
  /\ maximum_window_size \in Nat
  /\ default_window_size \in Nat
  /\ 1 <= default_window_size
  /\ default_window_size <= maximum_window_size
  /\ InitialSequenceNumber \in SeqNums
  /\ InitialAckSequenceNumber \in SeqNums
  /\ MaxPackets \in Nat
  /\ MaxAcks \in Nat
  /\ MaxBuffer \in Nat
  /\ MaxPackets + maximum_window_size <= kMaxSequenceNumber
  /\ MaxPackets <= kMaxSequenceNumber
  /\ MaxAcks + default_window_size <= kMaxSequenceNumber
BY SequenceAssumption, StreamAssumption DEF SeqNums

LEMMA NumberPosition ==
  ASSUME NEW i \in 0 .. kMaxSequenceNumber
  PROVE  NumberOf(i) \in SeqNums /\ Position(NumberOf(i)) = i
BY ConstantTypes, AdvanceDistance DEF NumberOf, Position

LEMMA PositionNumber ==
  ASSUME NEW n \in SeqNums
  PROVE  Position(n) \in 0 .. kMaxSequenceNumber /\ NumberOf(Position(n)) = n
BY ConstantTypes, DistanceAdvance DEF NumberOf, Position

\* Two windows ends lo and hi contain the numbers at positions lo .. hi - 1.
LEMMA RangePositions ==
  ASSUME NEW lo \in 0 .. kMaxSequenceNumber, NEW hi \in 0 .. kMaxSequenceNumber,
         lo <= hi, NEW n \in SeqNums
  PROVE  IsInRange(NumberOf(lo), NumberOf(hi), n)
           <=> lo <= Position(n) /\ Position(n) < hi
BY ConstantTypes DEF SeqNums, NumberOf, Position, Advance, Distance, IsInRange

LEMMA DistancePositions ==
  ASSUME NEW lo \in 0 .. kMaxSequenceNumber, NEW n \in SeqNums
  PROVE  Distance(NumberOf(lo), n) =
           IF lo <= Position(n) THEN Position(n) - lo
           ELSE kMaxSequenceNumber + 1 + Position(n) - lo
BY ConstantTypes DEF SeqNums, NumberOf, Position, Advance, Distance

LEMMA AdvancePositions ==
  ASSUME NEW i \in Nat, NEW k \in Nat, i + k <= kMaxSequenceNumber
  PROVE  Advance(NumberOf(i), k) = NumberOf(i + k)
BY ConstantTypes DEF SeqNums, NumberOf, Advance

-----------------------------------------------------------------------------
(* The sender's window.                                                    *)

SenderWindow(w, lo, hi) ==
  /\ w \in Windows
  /\ lo \in Nat
  /\ hi \in Nat
  /\ Covers(w, lo, hi)
  /\ \A i \in lo .. hi - 1 : w.chunk[NumberOf(i)] = i + 1

\* The data packets that a sender which has written hi chunks may send.
WrittenData(hi) == {DataPacket(NumberOf(i), i + 1) : i \in 0 .. hi - 1}

LEMMA TermBound ==
  ASSUME NEW a \in Nat, NEW m \in Nat, NEW b \in 0 .. m, a + b <= MaxPackets
  PROVE  a \in 0 .. MaxPackets
BY ConstantTypes

LEMMA WrittenDataSound ==
  ASSUME NEW hi \in 0 .. MaxPackets
  PROVE  \A p \in WrittenData(hi) :
           /\ p.type = "data" /\ p.chunk <= hi /\ p.seq = NumberOf(p.chunk - 1)
           /\ p \in Packets
<1> SUFFICES ASSUME NEW i \in 0 .. hi - 1
             PROVE  LET p == DataPacket(NumberOf(i), i + 1)
                    IN  /\ p.type = "data" /\ p.chunk <= hi
                        /\ p.seq = NumberOf(p.chunk - 1) /\ p \in Packets
  BY DEF WrittenData
<1>1. i \in 0 .. kMaxSequenceNumber /\ i + 1 \in Chunks /\ i + 1 - 1 = i /\ i + 1 <= hi
  BY ConstantTypes DEF Chunks
<1>2. NumberOf(i) \in SeqNums
  BY <1>1, NumberPosition
<1> QED
  BY <1>1, <1>2 DEF DataPacket, Packets

LEMMA WindowSpan ==
  ASSUME NEW w \in Windows, NEW lo \in Nat, NEW hi \in Nat, Covers(w, lo, hi)
  PROVE  /\ Size(w) = hi - lo
         /\ lo \in 0 .. kMaxSequenceNumber
         /\ hi \in 0 .. kMaxSequenceNumber
         /\ \A n \in SeqNums : Contains(w, n) <=> lo <= Position(n) /\ Position(n) < hi
<1>1. lo \in 0 .. kMaxSequenceNumber /\ hi \in 0 .. kMaxSequenceNumber /\ lo <= hi
  BY ConstantTypes DEF Covers
<1>2. Size(w) = hi - lo
  BY <1>1, NumberPosition, DistancePositions DEF Size, Covers
<1>3. \A n \in SeqNums : Contains(w, n) <=> lo <= Position(n) /\ Position(n) < hi
  BY <1>1, RangePositions DEF Contains, Covers
<1> QED
  BY <1>1, <1>2, <1>3

\* Removing the items before position v leaves the others as they are.
LEMMA RemoveSpan ==
  ASSUME NEW w \in Windows, NEW lo \in Nat, NEW hi \in Nat, Covers(w, lo, hi),
         NEW v \in lo .. hi
  PROVE  LET r == RemoveTo(w, NumberOf(v))
         IN  /\ r \in Windows
             /\ Covers(r, v, hi)
             /\ \A i \in v .. hi - 1 :
                  /\ r.chunk[NumberOf(i)] = w.chunk[NumberOf(i)]
                  /\ NumberOf(i) \in r.lost <=> NumberOf(i) \in w.lost
<1> DEFINE r == RemoveTo(w, NumberOf(v))
<1>2. /\ v \in 0 .. kMaxSequenceNumber /\ hi \in 0 .. kMaxSequenceNumber
      /\ NumberOf(v) \in SeqNums /\ w.end = NumberOf(hi)
  BY WindowSpan, NumberPosition, ConstantTypes DEF Covers
<1>3. \A n \in SeqNums : IsInRange(NumberOf(v), w.end, n) <=> v <= Position(n) /\ Position(n) < hi
  BY <1>2, RangePositions
<1>4. /\ r.begin = NumberOf(v) /\ r.end = w.end
      /\ r.lost = {m \in w.lost : IsInRange(NumberOf(v), w.end, m)}
      /\ r.chunk = [m \in SeqNums |-> IF IsInRange(NumberOf(v), w.end, m) THEN w.chunk[m] ELSE 0]
      /\ r \in Windows
  BY <1>2, ConstantTypes DEF RemoveTo, Windows
<1>5. Covers(r, v, hi)
  BY <1>2, <1>3, <1>4, ConstantTypes DEF Covers, Windows
<1>6. ASSUME NEW i \in v .. hi - 1
      PROVE  /\ r.chunk[NumberOf(i)] = w.chunk[NumberOf(i)]
             /\ NumberOf(i) \in r.lost <=> NumberOf(i) \in w.lost
  <2>1. i \in 0 .. kMaxSequenceNumber /\ i \in lo .. hi - 1
    BY <1>2, ConstantTypes
  <2>2. NumberOf(i) \in SeqNums /\ Position(NumberOf(i)) = i
    BY <2>1, NumberPosition
  <2> QED
    BY <1>3, <1>4, <2>1, <2>2
<1> QED
  BY <1>4, <1>5, <1>6

\* Appending c items, marked lost, moves the end to position hi + c and leaves
\* the others as they are.
LEMMA AppendSpan ==
  ASSUME NEW w \in Windows, NEW lo \in Nat, NEW hi \in Nat, Covers(w, lo, hi),
         NEW c \in Nat, hi + c <= MaxPackets, hi + c - lo <= maximum_window_size,
         NEW chunk \in [SeqNums -> 0 .. MaxPackets]
  PROVE  LET added == {m \in SeqNums : IsInRange(w.end, Advance(w.end, c), m)}
             r == [begin |-> w.begin, end |-> Advance(w.end, c),
                   lost |-> w.lost \cup added, chunk |-> chunk]
         IN  /\ r \in Windows
             /\ Covers(r, lo, hi + c)
             /\ \A m \in SeqNums : m \in added <=> hi <= Position(m) /\ Position(m) < hi + c
<1> DEFINE added == {m \in SeqNums : IsInRange(w.end, Advance(w.end, c), m)}
           r == [begin |-> w.begin, end |-> Advance(w.end, c),
                 lost |-> w.lost \cup added, chunk |-> chunk]
<1>1. /\ hi \in 0 .. kMaxSequenceNumber
      /\ hi + c \in 0 .. kMaxSequenceNumber
      /\ hi <= hi + c
  BY ConstantTypes, WindowSpan
<1>2. w.end = NumberOf(hi) /\ w.begin = NumberOf(lo)
  BY DEF Covers
<1>3. Advance(w.end, c) = NumberOf(hi + c) /\ NumberOf(hi + c) \in SeqNums
  BY <1>1, <1>2, AdvancePositions, NumberPosition
<1>4. \A m \in SeqNums : m \in added <=> hi <= Position(m) /\ Position(m) < hi + c
  BY <1>1, <1>2, <1>3, RangePositions
<1>5. r \in Windows
  BY Zenon, <1>3 DEF Windows
<1>6. Covers(r, lo, hi + c)
  <2>1. ASSUME NEW m \in r.lost
        PROVE  lo <= Position(m) /\ Position(m) < hi + c
    <3>1. m \in SeqNums
      BY DEF Windows
    <3>2. Position(m) \in Int
      BY <3>1, PositionNumber
    <3> QED
      BY <1>4, <3>1, <3>2 DEF Covers
  <2> QED
    BY <2>1, <1>1, <1>2, <1>3 DEF Covers
<1> QED
  BY <1>4, <1>5, <1>6

\* Changing which of the contained items are lost changes nothing else.
LEMMA MarkSpan ==
  ASSUME NEW w \in Windows, NEW lo \in Nat, NEW hi \in Nat, Covers(w, lo, hi),
         NEW lost \in SUBSET SeqNums,
         \A m \in lost : m \in w.lost \/ Contains(w, m),
         NEW chunk \in [SeqNums -> 0 .. MaxPackets]
  PROVE  LET r == [begin |-> w.begin, end |-> w.end, lost |-> lost, chunk |-> chunk]
         IN  r \in Windows /\ Covers(r, lo, hi)
BY Zenon, WindowSpan DEF Windows, Covers

LEMMA SenderRemove ==
  ASSUME NEW w, NEW lo, NEW hi, SenderWindow(w, lo, hi), NEW v \in lo .. hi
  PROVE  SenderWindow(RemoveTo(w, NumberOf(v)), v, hi)
<1> DEFINE r == RemoveTo(w, NumberOf(v))
<1>1. w \in Windows /\ lo \in Nat /\ hi \in Nat /\ Covers(w, lo, hi)
  BY Zenon DEF SenderWindow
<1>2. /\ r \in Windows /\ Covers(r, v, hi)
      /\ \A i \in v .. hi - 1 : r.chunk[NumberOf(i)] = w.chunk[NumberOf(i)]
  BY Zenon, <1>1, RemoveSpan
<1>3. v \in Nat /\ \A i \in v .. hi - 1 : i \in lo .. hi - 1
  BY <1>1
<1> HIDE DEF r
<1>4. \A i \in v .. hi - 1 : r.chunk[NumberOf(i)] = i + 1
  BY Zenon, <1>2, <1>3 DEF SenderWindow
<1>. QED BY Zenon, <1>1, <1>2, <1>3, <1>4 DEF SenderWindow, r

LEMMA SenderMark ==
  ASSUME NEW w, NEW lo, NEW hi, SenderWindow(w, lo, hi),
         NEW ns \in SUBSET SeqNums, \A m \in ns : Contains(w, m)
  PROVE  SenderWindow(MarkLost(w, ns), lo, hi)
<1>1. w.chunk \in [SeqNums -> 0 .. MaxPackets] /\ w.lost \in SUBSET SeqNums
  BY DEF SenderWindow, Windows
<1> QED
  BY <1>1, MarkSpan DEF SenderWindow, MarkLost

LEMMA SenderSend ==
  ASSUME NEW w, NEW lo, NEW hi, SenderWindow(w, lo, hi), NEW n \in MaySend(w)
  PROVE  /\ SenderWindow(DoSend(w, n), lo, hi)
         /\ Sent(w, n) \subseteq WrittenData(hi)
<1>1. w.chunk \in [SeqNums -> 0 .. MaxPackets] /\ w.lost \in SUBSET SeqNums
  BY DEF SenderWindow, Windows
<1>2. SenderWindow(DoSend(w, n), lo, hi)
  BY Zenon, <1>1, MarkSpan DEF SenderWindow, DoSend
<1>3. CASE n = NoPacket
  BY <1>2, <1>3 DEF Sent
<1>4. CASE n # NoPacket
  <2>1. n \in w.lost /\ n \in SeqNums
    BY <1>1, <1>4 DEF MaySend
  <2>2. Position(n) \in lo .. hi - 1 /\ NumberOf(Position(n)) = n /\ lo \in Nat /\ hi \in Nat
    BY <2>1, PositionNumber DEF SenderWindow, Covers
  <2>3. w.chunk[n] = Position(n) + 1 /\ Position(n) \in 0 .. hi - 1
    BY <2>2 DEF SenderWindow
  <2>4. Sent(w, n) = {DataPacket(NumberOf(Position(n)), Position(n) + 1)}
    BY <1>4, <2>2, <2>3 DEF Sent
  <2> QED
    BY <1>2, <2>3, <2>4 DEF WrittenData
<1> QED
  BY <1>3, <1>4

\* Filling a window up to a size takes no more than is offered and than fits.
LEMMA RoomBound ==
  ASSUME NEW offered \in Nat, NEW size \in Nat, NEW used \in Nat, NEW bound \in Nat,
         size <= bound, used <= bound
  PROVE  /\ Minimum(offered, Monus(size, used)) \in 0 .. offered
         /\ used + Minimum(offered, Monus(size, used)) <= bound
BY DEF Minimum, Monus

LEMMA SenderAdd ==
  ASSUME NEW w, NEW lo, written \in Nat, SenderWindow(w, lo, written), NEW c \in Nat,
         written + c <= MaxPackets, written + c - lo <= maximum_window_size
  PROVE  SenderWindow(AddData(w, c), lo, written + c)
<1> DEFINE added == {m \in SeqNums : IsInRange(w.end, Advance(w.end, c), m)}
           chunk == [m \in SeqNums |->
                       IF m \in added THEN written + 1 + Distance(w.end, m) ELSE w.chunk[m]]
           r == AddData(w, c)
<1>1. w \in Windows /\ lo \in Nat /\ Covers(w, lo, written) /\ w.end = NumberOf(written)
  BY DEF SenderWindow, Covers
<1>2. written \in 0 .. kMaxSequenceNumber
  BY <1>1, WindowSpan
<1>3. \A m \in SeqNums : m \in added <=> written <= Position(m) /\ Position(m) < written + c
  <2>1. w.chunk \in [SeqNums -> 0 .. MaxPackets]
    BY <1>1 DEF Windows
  <2> QED
    BY Zenon, <1>1, <2>1, AppendSpan
<1>4. \A m \in added : Distance(w.end, m) = Position(m) - written /\ Position(m) \in Nat
  BY <1>1, <1>2, <1>3, DistancePositions, PositionNumber
<1>5. chunk \in [SeqNums -> 0 .. MaxPackets]
  <2>1. \A m \in added : written + 1 + Distance(w.end, m) \in 0 .. MaxPackets
    BY <1>3, <1>4, ConstantTypes
  <2>2. \A m \in SeqNums : w.chunk[m] \in 0 .. MaxPackets
    BY Zenon, <1>1 DEF Windows
  <2> QED
    BY <2>1, <2>2
<1>6. r = [begin |-> w.begin, end |-> Advance(w.end, c), lost |-> w.lost \cup added,
           chunk |-> chunk]
  BY DEF AddData
<1>7. r \in Windows /\ Covers(r, lo, written + c)
  <2> HIDE DEF chunk
  <2> QED
    BY <1>1, <1>5, <1>6, AppendSpan
<1>8. ASSUME NEW i \in lo .. written + c - 1
      PROVE  r.chunk[NumberOf(i)] = i + 1
  <2>1. i \in 0 .. kMaxSequenceNumber
    BY <1>1, ConstantTypes
  <2>2. NumberOf(i) \in SeqNums /\ Position(NumberOf(i)) = i
    BY <2>1, NumberPosition
  <2>3. CASE i < written
    <3>1. w.chunk[NumberOf(i)] = i + 1
      BY <1>1, <2>3 DEF SenderWindow
    <3> QED
      BY <1>3, <1>6, <2>2, <2>3, <3>1
  <2>4. CASE i >= written
    <3>1. NumberOf(i) \in added
      BY <1>1, <1>3, <2>2, <2>4
    <3> QED
      BY <1>1, <1>4, <1>6, <2>2, <3>1
  <2> QED
    BY <1>1, <2>3, <2>4
<1> QED
  BY <1>1, <1>7, <1>8 DEF SenderWindow

\* ProcessWrite moves chunks of the waiting buffer into the window and only
\* sends chunks that have been written.
LEMMA ProcessWriteStep ==
  ASSUME NEW w, NEW lo, NEW buffer \in Nat, NEW sent,
         written \in Nat, SenderWindow(w, lo, written),
         written + buffer <= MaxPackets, buffer = 0 => waiting_write = 0,
         ProcessWrite(w, buffer, sent)
  PROVE  /\ written' \in Nat
         /\ written <= written'
         /\ waiting_write' \in 0 .. buffer
         /\ written' + waiting_write' = written + buffer
         /\ SenderWindow(unacked', lo, written')
         /\ net \cup sent \subseteq net'
         /\ net' \subseteq net \cup sent \cup WrittenData(written')
<1>1. CASE buffer = 0
  BY <1>1 DEF ProcessWrite
<1>2. CASE buffer # 0
  <2>1. PICK size \in WindowSizes :
          LET c == AddedBy(w, size, buffer)
              filled == AddData(w, c)
          IN  \E n \in MaySend(filled) :
                /\ unacked' = DoSend(filled, n)
                /\ net' = net \cup sent \cup Sent(filled, n)
                /\ waiting_write' = buffer - c
                /\ written' = written + c
    BY <1>2 DEF ProcessWrite
  <2> DEFINE c == AddedBy(w, size, buffer)
             filled == AddData(w, c)
  <2>2. PICK n \in MaySend(filled) :
          /\ unacked' = DoSend(filled, n)
          /\ net' = net \cup sent \cup Sent(filled, n)
          /\ waiting_write' = buffer - c
          /\ written' = written + c
    BY <2>1
  <2>3. lo \in Nat /\ lo <= written /\ written - lo <= maximum_window_size
        /\ Size(w) = written - lo
    BY WindowSpan DEF SenderWindow, Covers
  <2>4. size \in Nat /\ size <= maximum_window_size
    BY ConstantTypes DEF WindowSizes
  <2>5. c \in 0 .. buffer /\ written + c - lo <= maximum_window_size
    <3>1. Size(w) \in Nat /\ Size(w) <= maximum_window_size
      BY <2>3
    <3>2. c \in 0 .. buffer /\ Size(w) + c <= maximum_window_size
      BY <2>4, <3>1, RoomBound, ConstantTypes DEF AddedBy
    <3> HIDE DEF c
    <3> QED
      BY <2>3, <3>2
  <2>6. SenderWindow(filled, lo, written + c)
    <3> HIDE DEF c
    <3> QED
      BY <2>5, SenderAdd, ConstantTypes
  <2>7. SenderWindow(unacked', lo, written') /\ Sent(filled, n) \subseteq WrittenData(written')
    <3> HIDE DEF c, filled
    <3> QED
      BY <2>2, <2>6, SenderSend
  <2> QED
    BY <2>2, <2>5, <2>7
<1> QED
  BY Zenon, <1>1, <1>2

-----------------------------------------------------------------------------
(* The receiver's window.                                                  *)

ReceiverWindow(w, lo, hi) ==
  /\ w \in Windows
  /\ lo \in Nat
  /\ hi \in Nat
  /\ Covers(w, lo, hi)
  /\ \A i \in lo .. hi - 1 : NumberOf(i) \notin w.lost => w.chunk[NumberOf(i)] = i + 1

\* Chunk i + 1 has been received, in terms of a window over lo .. hi - 1.
Has(w, lo, hi, i) == i < lo \/ (i < hi /\ NumberOf(i) \notin w.lost)

LEMMA AckPoint ==
  ASSUME NEW w, NEW lo, NEW hi, ReceiverWindow(w, lo, hi),
         NEW g \in SeqNums, IsAckPoint(w, g)
  PROVE  /\ Position(g) \in lo .. hi
         /\ NumberOf(Position(g)) = g
         /\ \A i \in 0 .. Position(g) - 1 : Has(w, lo, hi, i)
<1>1. w \in Windows /\ lo \in Nat /\ hi \in Nat /\ Covers(w, lo, hi)
  BY DEF ReceiverWindow
<1>2. /\ lo \in 0 .. kMaxSequenceNumber /\ hi \in 0 .. kMaxSequenceNumber /\ lo <= hi
      /\ w.begin = NumberOf(lo) /\ w.end = NumberOf(hi)
  BY <1>1, WindowSpan DEF Covers
<1>3. Position(g) \in 0 .. kMaxSequenceNumber /\ NumberOf(Position(g)) = g
  BY PositionNumber
<1>4. Position(g) \in lo .. hi
  <2>1. CASE g = w.end
    BY <1>2, <2>1, NumberPosition
  <2>2. CASE g # w.end
    BY <1>1, <1>3, <2>2, WindowSpan DEF IsAckPoint
  <2> QED
    BY <2>1, <2>2
<1>5. ASSUME NEW i \in 0 .. Position(g) - 1
      PROVE  Has(w, lo, hi, i)
  <2>1. CASE i < lo
    BY <2>1 DEF Has
  <2>2. CASE i >= lo
    <3>1. i \in 0 .. kMaxSequenceNumber /\ i < hi
      BY <1>1, <1>3, <1>4, ConstantTypes
    <3>2. NumberOf(i) \in SeqNums /\ Position(NumberOf(i)) = i
      BY Zenon, <3>1, NumberPosition
    <3>3. IsInRange(w.begin, g, NumberOf(i))
      BY <1>2, <1>3, <1>4, <2>2, <3>2, RangePositions
    <3> QED
      BY <3>1, <3>3 DEF IsAckPoint, Has
  <2> QED
    BY <1>1, <2>1, <2>2
<1> QED
  BY <1>3, <1>4, <1>5

\* A data packet extends the window at most to its own number, and takes
\* nothing back.
LEMMA ReceiverFill ==
  ASSUME NEW w, NEW lo, NEW hi, ReceiverWindow(w, lo, hi),
         NEW top \in Nat, hi <= top, top <= MaxPackets,
         NEW size \in WindowSizes, NEW p,
         p.chunk \in 1 .. top, p.seq = NumberOf(p.chunk - 1)
  PROVE  \E h \in hi .. top :
           LET r == Fill(Reserve(w, size, p.seq), p)
           IN  /\ ReceiverWindow(r, lo, h)
               /\ \A i \in Nat : Has(w, lo, hi, i) => Has(r, lo, h, i)
<1> DEFINE k == p.chunk
           c == IF IsComingSoon(w.end, p.seq)
                  THEN Minimum(Distance(w.end, p.seq) + 1, Monus(size, Size(w)))
                  ELSE 0
           added == {m \in SeqNums : IsInRange(w.end, Advance(w.end, c), m)}
           q == Reserve(w, size, p.seq)
           r == Fill(q, p)
<1>1. /\ w \in Windows /\ lo \in Nat /\ hi \in Nat /\ Covers(w, lo, hi)
      /\ lo <= hi /\ hi - lo <= maximum_window_size /\ w.end = NumberOf(hi)
      /\ hi \in 0 .. kMaxSequenceNumber /\ Size(w) = hi - lo
  BY WindowSpan DEF ReceiverWindow, Covers
<1>2. k - 1 \in 0 .. kMaxSequenceNumber /\ p.seq \in SeqNums /\ Position(p.seq) = k - 1
  BY ConstantTypes, NumberPosition
<1>3. size \in Nat /\ size <= maximum_window_size
  BY ConstantTypes DEF WindowSizes
<1>4. Distance(w.end, p.seq) = IF hi <= k - 1 THEN k - 1 - hi
                               ELSE kMaxSequenceNumber + 1 + k - 1 - hi
  BY Zenon, <1>1, <1>2, DistancePositions
<1>5. IsComingSoon(w.end, p.seq) => hi <= k - 1
  <2>1. w.end \in SeqNums
    BY Zenon, <1>1 DEF Windows
  <2> QED
    BY <1>1, <1>2, <1>4, <2>1, ComingSoonIsDistance, ConstantTypes
<1>6. c \in Nat /\ hi + c <= top /\ hi + c - lo <= maximum_window_size
  <2>1. CASE IsComingSoon(w.end, p.seq)
    <3>1. Distance(w.end, p.seq) + 1 = k - hi /\ k - hi \in Nat /\ hi - lo \in Nat
      BY <1>1, <1>2, <1>4, <1>5, <2>1
    <3>2. c = Minimum(k - hi, Monus(size, hi - lo))
      BY <1>1, <2>1, <3>1
    <3>3. c \in 0 .. k - hi /\ (hi - lo) + c <= maximum_window_size
      BY ZenonT(60), <1>1, <1>3, <3>1, <3>2, RoomBound, ConstantTypes
    <3> QED
      BY <1>1, <3>1, <3>3
  <2>2. CASE ~IsComingSoon(w.end, p.seq)
    BY <1>1, <2>2
  <2> QED
    BY Zenon, <2>1, <2>2
<1>7. q = [begin |-> w.begin, end |-> Advance(w.end, c), lost |-> w.lost \cup added,
           chunk |-> w.chunk]
  BY DEF Reserve
<1>8. /\ q \in Windows /\ Covers(q, lo, hi + c)
      /\ \A m \in SeqNums : m \in added <=> hi <= Position(m) /\ Position(m) < hi + c
  <2> HIDE DEF c
  <2>1. w.chunk \in [SeqNums -> 0 .. MaxPackets]
    BY <1>1 DEF Windows
  <2> QED
    BY <1>1, <1>6, <1>7, <2>1, AppendSpan, ConstantTypes
<1> HIDE DEF c
<1>9. \A i \in 0 .. hi + c - 1 : /\ NumberOf(i) \in SeqNums
                                 /\ Position(NumberOf(i)) = i
                                 /\ NumberOf(i) \in added <=> i >= hi
  BY <1>1, <1>6, <1>8, NumberPosition, ConstantTypes
<1> HIDE DEF added
<1>10. /\ r \in Windows
       /\ Covers(r, lo, hi + c)
       /\ \A i \in lo .. hi + c - 1 : NumberOf(i) \notin r.lost => r.chunk[NumberOf(i)] = i + 1
       /\ \A i \in 0 .. hi - 1 : NumberOf(i) \notin w.lost => NumberOf(i) \notin r.lost
  <2>1. \A i \in lo .. hi + c - 1 : NumberOf(i) \notin q.lost => q.chunk[NumberOf(i)] = i + 1
    BY <1>1, <1>6, <1>7, <1>9 DEF ReceiverWindow
  <2>2. \A i \in 0 .. hi - 1 : NumberOf(i) \notin w.lost => NumberOf(i) \notin q.lost
    BY <1>1, <1>6, <1>7, <1>9
  <2>3. CASE p.seq \notin q.lost
    BY <1>8, <2>1, <2>2, <2>3 DEF Fill
  <2>4. CASE p.seq \in q.lost
    <3> DEFINE chunk == [q.chunk EXCEPT ![p.seq] = p.chunk]
    <3>1. r = [begin |-> q.begin, end |-> q.end, lost |-> q.lost \ {p.seq}, chunk |-> chunk]
      BY <2>4 DEF Fill
    <3>2. chunk \in [SeqNums -> 0 .. MaxPackets] /\ q.lost \in SUBSET SeqNums
          /\ q.chunk \in [SeqNums -> 0 .. MaxPackets]
      BY <1>2, <1>8, ConstantTypes DEF Windows
    <3>3. r \in Windows /\ Covers(r, lo, hi + c)
      <4> HIDE DEF chunk, q
      <4>1. q.lost \ {p.seq} \in SUBSET SeqNums
        BY <3>2
      <4>2. hi + c \in Nat
        BY <1>1, <1>6
      <4>3. \A m \in q.lost \ {p.seq} : m \in q.lost \/ Contains(q, m)
        OBVIOUS
      <4> QED
        BY ZenonT(60), <1>1, <1>8, <3>1, <3>2, <4>1, <4>2, <4>3, MarkSpan
    <3>4. ASSUME NEW i \in lo .. hi + c - 1, NumberOf(i) \notin r.lost
          PROVE  r.chunk[NumberOf(i)] = i + 1
      <4> HIDE DEF q
      <4>1. CASE NumberOf(i) = p.seq
        BY <1>1, <1>2, <1>6, <1>9, <3>1, <3>2, <4>1
      <4>2. CASE NumberOf(i) # p.seq
        BY <1>1, <1>6, <1>9, <2>1, <3>1, <3>2, <3>4, <4>2
      <4> QED
        BY <4>1, <4>2
    <3>5. \A i \in 0 .. hi - 1 : NumberOf(i) \notin w.lost => NumberOf(i) \notin r.lost
      BY <2>2, <3>1
    <3> HIDE DEF r
    <3> QED
      BY Zenon, <3>3, <3>4, <3>5
  <2> QED
    BY Zenon, <2>3, <2>4
<1> HIDE DEF q, r
<1>11. ReceiverWindow(r, lo, hi + c)
  BY <1>1, <1>6, <1>10 DEF ReceiverWindow
<1>12. \A i \in Nat : Has(w, lo, hi, i) => Has(r, lo, hi + c, i)
  BY <1>1, <1>6, <1>10 DEF Has
<1>13. hi + c \in hi .. top
  BY <1>1, <1>6
<1> QED
  BY Zenon, <1>11, <1>12, <1>13 DEF q, r

\* ProcessRead hands over the next chunks of the stream and takes nothing back.
LEMMA ProcessReadStep ==
  ASSUME NEW w, NEW hi, NEW left \in 0 .. MaxBuffer, NEW need \in 0 .. MaxBuffer,
         delivered \in Seq(Chunks), InOrderDelivery,
         ReceiverWindow(w, Len(delivered), hi),
         ProcessRead(w, left, need)
  PROVE  /\ delivered' \in Seq(Chunks)
         /\ InOrderDelivery'
         /\ Len(delivered') \in Len(delivered) .. hi
         /\ ReceiverWindow(unread', Len(delivered'), hi)
         /\ waiting_read' \in [left : 0 .. MaxBuffer, need : 0 .. MaxBuffer]
         /\ \A i \in Nat : Has(w, Len(delivered), hi, i) => Has(unread', Len(delivered'), hi, i)
<1> DEFINE lo == Len(delivered)
<1>1. PICK g \in SeqNums :
        /\ IsAckPoint(w, g)
        /\ LET k == Minimum(left, Distance(w.begin, g))
           IN  /\ unread' = RemoveTo(w, Advance(w.begin, k))
               /\ delivered' = delivered \o
                     [i \in 1 .. k |-> w.chunk[Advance(w.begin, i - 1)]]
               /\ waiting_read' = [left |-> left - k, need |-> Monus(need, k)]
  BY Zenon DEF ProcessRead
<1> DEFINE k == Minimum(left, Distance(w.begin, g))
           next == [i \in 1 .. k |-> w.chunk[Advance(w.begin, i - 1)]]
<1>2. /\ w \in Windows /\ lo \in Nat /\ hi \in Nat /\ Covers(w, lo, hi)
      /\ lo <= hi /\ hi <= MaxPackets /\ w.begin = NumberOf(lo)
      /\ lo \in 0 .. kMaxSequenceNumber /\ hi \in 0 .. kMaxSequenceNumber
  BY Zenon, WindowSpan DEF ReceiverWindow, Covers
<1>3. /\ Position(g) \in lo .. hi
      /\ \A i \in 0 .. Position(g) - 1 : Has(w, lo, hi, i)
  BY <1>1, AckPoint
<1>4. Distance(w.begin, g) = Position(g) - lo
  BY <1>2, <1>3, DistancePositions
<1>5. k \in 0 .. left /\ lo + k <= Position(g) /\ lo + k \in lo .. hi /\ k \in Nat
  BY <1>2, <1>3, <1>4, ConstantTypes DEF Minimum
<1>6. /\ unread' = RemoveTo(w, Advance(w.begin, k))
      /\ delivered' = delivered \o next
      /\ waiting_read' = [left |-> left - k, need |-> Monus(need, k)]
  BY Zenon, <1>1
<1> HIDE DEF k
<1>7. \A i \in 1 .. k : next[i] = lo + i /\ next[i] \in Chunks
  <2> SUFFICES ASSUME NEW i \in 1 .. k PROVE next[i] = lo + i /\ next[i] \in Chunks
    OBVIOUS
  <2>1. lo + (i - 1) \in 0 .. Position(g) - 1 /\ lo + (i - 1) \in lo .. hi - 1
        /\ i - 1 \in Nat /\ lo + (i - 1) <= kMaxSequenceNumber
    BY <1>2, <1>3, <1>5, ConstantTypes
  <2>2. Advance(w.begin, i - 1) = NumberOf(lo + (i - 1))
    BY <1>2, <2>1, AdvancePositions
  <2>3. w.chunk[NumberOf(lo + (i - 1))] = lo + (i - 1) + 1
    BY <1>2, <1>3, <2>1 DEF Has, ReceiverWindow
  <2>4. next[i] = lo + i
    BY <1>2, <2>2, <2>3
  <2> QED
    BY SMTT(60), <1>2, <2>1, <2>4, ConstantTypes DEF Chunks
<1>8. next \in Seq(Chunks) /\ Len(next) = k
  <2>1. next \in [1 .. k -> Chunks]
    BY <1>7
  <2> HIDE DEF next
  <2> QED
    BY <1>5, <2>1
<1> HIDE DEF next
<1>9. /\ delivered' \in Seq(Chunks)
      /\ Len(delivered') = lo + k
      /\ \A j \in 1 .. lo + k : delivered'[j] = IF j <= lo THEN delivered[j] ELSE next[j - lo]
  <2>1. delivered \in Seq(Chunks) /\ lo = Len(delivered) /\ lo \in Nat /\ k \in Nat
    BY <1>2, <1>5
  <2> HIDE DEF lo
  <2>2. delivered \o next \in Seq(Chunks)
    BY <1>8, <2>1
  <2>3. Len(delivered \o next) = lo + k
    BY <1>8, <2>1
  <2>4. ASSUME NEW j \in 1 .. lo + k
        PROVE  (delivered \o next)[j] = IF j <= lo THEN delivered[j] ELSE next[j - lo]
    BY <1>8, <2>1
  <2> QED
    BY <1>6, <2>2, <2>3, <2>4
<1>10. InOrderDelivery'
  BY SMTT(30), <1>2, <1>5, <1>7, <1>9 DEF InOrderDelivery
<1>11. unread' = RemoveTo(w, NumberOf(lo + k))
  BY SMTT(30), <1>2, <1>5, <1>6, AdvancePositions, ConstantTypes
<1>12. /\ unread' \in Windows
       /\ Covers(unread', lo + k, hi)
       /\ \A i \in lo + k .. hi - 1 :
            /\ unread'.chunk[NumberOf(i)] = w.chunk[NumberOf(i)]
            /\ NumberOf(i) \in unread'.lost <=> NumberOf(i) \in w.lost
  BY Zenon, <1>2, <1>5, <1>11, RemoveSpan
<1>13. ReceiverWindow(unread', lo + k, hi)
  BY <1>2, <1>5, <1>12 DEF ReceiverWindow
<1>14. \A i \in Nat : Has(w, lo, hi, i) => Has(unread', lo + k, hi, i)
  BY <1>2, <1>5, <1>12 DEF Has
<1>15. waiting_read' \in [left : 0 .. MaxBuffer, need : 0 .. MaxBuffer]
  BY <1>5, <1>6, ConstantTypes DEF Monus
<1> QED
  BY <1>5, <1>9, <1>10, <1>13, <1>14, <1>15

-----------------------------------------------------------------------------
(* The invariant.                                                          *)

LEMMA InitIInv == Init => IInv
<1> SUFFICES ASSUME Init PROVE IInv
  BY Zenon
<1> USE ConstantTypes DEF Init
<1>1. /\ unacked \in Windows /\ unread \in Windows
      /\ unacked.begin = InitialSequenceNumber /\ unacked.end = InitialSequenceNumber
      /\ unread.begin = InitialSequenceNumber /\ unread.end = InitialSequenceNumber
      /\ unacked.lost = {} /\ unread.lost = {}
  BY DEF EmptyWindow, Windows
<1>2. delivered \in Seq(Chunks) /\ Len(delivered) = 0
  OBVIOUS
<1>3. TypeOK
  BY <1>1, <1>2 DEF TypeOK
<1>4. Size(unacked) = 0 /\ Size(unread) = 0
  BY <1>1 DEF Size, Distance, SeqNums
<1>5. Acked = 0 /\ Read = 0 /\ Reserved = 0
  BY <1>2, <1>4 DEF Acked, Read, Reserved
<1>6. NumberOf(0) = InitialSequenceNumber /\ Position(InitialSequenceNumber) = 0
      /\ AckPosition(InitialAckSequenceNumber) = 0
  BY DEF NumberOf, Advance, Position, AckPosition, Distance, SeqNums
<1>7. SenderInv /\ ReceiverInv
  BY <1>1, <1>5, <1>6 DEF SenderInv, ReceiverInv, Covers
<1>8. InOrderDelivery /\ ReservedIsWritten /\ AckedIsReceived
  BY <1>2, <1>5 DEF InOrderDelivery, ReservedIsWritten, AckedIsReceived
<1>9. DataInv /\ AckInv /\ AnswerInv
  <2>1. net = {} /\ acks.begin = acks.end /\ acks.end = InitialAckSequenceNumber
        /\ last_ack = InitialSequenceNumber /\ MaxAcks \in Nat
    BY Zenon, StreamAssumption
  <2>2. DataInv
    BY Zenon, <2>1 DEF DataInv
  <2>3. AckInv
    BY <1>6, <2>1 DEF AckInv
  <2>4. AnswerInv
    BY <1>5, <1>6, <2>1 DEF AnswerInv
  <2> QED
    BY Zenon, <2>2, <2>3, <2>4
<1> QED
  BY <1>3, <1>7, <1>8, <1>9 DEF IInv

\* What the invariant says of the two windows.
LEMMA IInvWindows ==
  ASSUME IInv
  PROVE  /\ SenderWindow(unacked, Acked, written)
         /\ ReceiverWindow(unread, Len(delivered), Reserved)
         /\ Acked \in Nat /\ written \in Nat /\ Reserved \in Nat /\ Len(delivered) \in Nat
         /\ Acked <= written /\ Reserved <= written /\ written <= MaxPackets
         /\ \A i : Received(i) <=> Has(unread, Len(delivered), Reserved, i)
<1>1. /\ written \in Nat /\ written <= MaxPackets /\ unacked \in Windows
      /\ unread \in Windows /\ Len(delivered) \in Nat
  BY ConstantTypes DEF IInv, TypeOK
<1>2. Size(unread) \in Int /\ Size(unacked) \in Int
  BY <1>1, DistanceAdvance, ConstantTypes DEF Windows, Size
<1>3. Acked \in Int /\ Reserved \in Int
  BY <1>1, <1>2 DEF Acked, Reserved
<1>4. Acked \in Nat /\ Acked <= written
  BY <1>1, <1>3 DEF IInv, SenderInv, Covers
<1>5. Reserved \in Nat /\ Reserved <= written
  BY <1>1, <1>3 DEF IInv, ReceiverInv, ReservedIsWritten, Covers, Read
<1> QED
  BY Zenon, <1>1, <1>4, <1>5
  DEF IInv, SenderInv, ReceiverInv, SenderWindow, ReceiverWindow, Received, Has, Read

\* How the ends of the two windows are ordered.
Bounds ==
  /\ Acked \in Nat /\ written \in Nat /\ Reserved \in Nat /\ Len(delivered) \in Nat
  /\ Acked <= written /\ Reserved <= written /\ written <= MaxPackets
  /\ Acked <= MaxPackets /\ Len(delivered) <= Reserved

LEMMA IInvBounds == IInv => Bounds
<1>1. IInv => Len(delivered) <= Reserved
  BY DEF IInv, ReceiverInv, Covers, Read
<1> QED
  BY <1>1, IInvWindows, ConstantTypes DEF Bounds

LEMMA IInvBoundsPrimed == IInv' => Bounds'
BY IInvBounds, PTL

\* A data packet in flight carries a chunk that was written, under its number.
LEMMA DataInFlight ==
  ASSUME IInv, NEW p \in net, p.type = "data"
  PROVE  p.chunk \in Chunks /\ p.chunk <= written /\ p.seq = NumberOf(p.chunk - 1)
<1>1. p \in Packets
  BY Zenon DEF IInv, TypeOK
<1>2. p.chunk \in Chunks
  BY <1>1 DEF Packets
<1>. QED BY Zenon, <1>2 DEF IInv, DataInv

\* A step of the writing socket preserves the invariant if it keeps a window
\* over unacknowledged chunks, drops only received ones, and sends nothing but
\* written chunks and answers to acknowledgements it has obeyed.
LEMMA SenderStep ==
  ASSUME IInv, UNCHANGED receiverVars,
         NEW lo \in Acked .. written, \A i \in 0 .. lo - 1 : Received(i),
         written' \in Nat, written <= written', waiting_write' \in 0 .. MaxBuffer,
         written' + waiting_write' <= MaxPackets,
         SenderWindow(unacked', lo, written'),
         NEW replies, net \subseteq net',
         net' \subseteq net \cup replies \cup WrittenData(written'),
         \A p \in replies : \E q \in net : /\ q.type = "ack"
                                           /\ p = AckOfAckPacket(q.ack)
                                           /\ Position(q.seq) <= lo
  PROVE  IInv' /\ Acked' = lo
<1>0. written' \in 0 .. MaxPackets
  BY Zenon, TermBound, ConstantTypes
<1>1. UNCHANGED <<unread, acks, last_ack, waiting_read, delivered>>
  BY Zenon DEF receiverVars
<1>2. /\ lo \in Nat /\ Acked \in Nat /\ Acked <= lo
      /\ written \in Nat /\ Reserved <= written
  BY IInvWindows
<1>3. Acked' = lo
  BY WindowSpan, <1>2 DEF SenderWindow, Acked
<1>4. Read' = Read /\ Reserved' = Reserved /\ \A i : Received(i)' <=> Received(i)
  BY Zenon, <1>1 DEF Read, Reserved, Received
<1>5. SenderInv'
  <2>1. lo >= 0
    BY <1>2
  <2>2. /\ Covers(unacked', lo, written')
        /\ \A i \in lo .. written' - 1 : unacked'.chunk[NumberOf(i)] = i + 1
    BY Zenon DEF SenderWindow
  <2>. QED BY Zenon, <1>3, <2>1, <2>2 DEF SenderInv, Covers, NumberOf
<1>6. ReceiverInv' /\ InOrderDelivery' /\ ReservedIsWritten'
  <2>1. Reserved \in Nat
    BY Zenon, IInvWindows
  <2> QED
    BY <1>1, <1>2, <1>4, <2>1
    DEF IInv, ReceiverInv, InOrderDelivery, ReservedIsWritten, Covers
<1>7. AckedIsReceived'
  BY Zenon, <1>3, <1>4 DEF AckedIsReceived
<1>8. \A p \in WrittenData(written') :
        /\ p.type = "data" /\ p.chunk <= written' /\ p.seq = NumberOf(p.chunk - 1)
        /\ p \in Packets
  BY Zenon, <1>0, WrittenDataSound
<1>9. \A p \in replies : p.type = "ackofack" /\ p \in Packets
  BY SMTT(30) DEF IInv, TypeOK, AckOfAckPacket, Packets
<1>10. \A p \in net' : p \in net \/ p.type \in {"data", "ackofack"}
  BY <1>8, <1>9
<1>11. TypeOK'
  <2>1. net' \subseteq Packets
    BY Zenon, <1>8, <1>9 DEF IInv, TypeOK
  <2> QED
    BY Zenon, <1>0, <1>1, <2>1 DEF IInv, TypeOK, SenderWindow
<1>12. DataInv'
  <2> SUFFICES ASSUME NEW p \in net', p.type = "data"
               PROVE  p.chunk <= written' /\ p.seq = NumberOf(p.chunk - 1)
    BY Zenon DEF DataInv, NumberOf
  <2>1. CASE p \in net
    <3>1. p.chunk \in Nat /\ p.chunk <= written /\ p.seq = NumberOf(p.chunk - 1)
      <4>1. p.chunk \in Chunks /\ p.chunk <= written /\ p.seq = NumberOf(p.chunk - 1)
        BY Zenon, <2>1, DataInFlight
      <4>. QED BY <4>1, ConstantTypes DEF Chunks
    <3> QED
      BY <1>2, <3>1
  <2>2. CASE p \notin net
    BY <1>8, <1>9, <2>2
  <2> QED
    BY Zenon, <2>1, <2>2
<1>13. AckInv'
  BY <1>1, <1>4, <1>10 DEF IInv, AckInv, Position
<1>14. AnswerInv'
  <2>1. \A p \in net' : p.type = "ack" => p \in net
    BY Zenon, <1>10
  <2>2. ASSUME NEW p \in net', p.type = "ackofack"
        PROVE  \E q \in net : q.type = "ack" /\ q.ack = p.ack /\ Position(q.seq) <= lo
    <3>1. CASE p \in net
      <4>1. PICK q \in net : q.type = "ack" /\ q.ack = p.ack /\ Position(q.seq) <= Acked
        BY Zenon, <2>2, <3>1 DEF IInv, AnswerInv
      <4>2. Position(q.seq) \in Nat
        BY SMTT(30), <4>1, PositionNumber DEF IInv, TypeOK, Packets
      <4> QED
        BY <1>2, <4>1, <4>2
    <3>2. CASE p \in replies
      BY <3>2 DEF AckOfAckPacket
    <3>3. CASE p \in WrittenData(written')
      BY <1>8, <2>2, <3>3
    <3> QED
      BY Zenon, <3>1, <3>2, <3>3
  <2>3. acks.begin = acks.end => Position(last_ack) <= lo
    <3>1. Position(last_ack) \in Nat
      BY PositionNumber DEF IInv, TypeOK
    <3>2. acks.begin = acks.end => Position(last_ack) <= Acked
      BY DEF IInv, AnswerInv
    <3> QED
      BY <1>2, <3>1, <3>2
  <2> QED
    BY Zenon, <1>1, <1>3, <2>1, <2>2, <2>3 DEF IInv, AnswerInv, Position, AckPosition
<1> QED
  BY Zenon, <1>3, <1>5, <1>6, <1>7, <1>11, <1>12, <1>13, <1>14 DEF IInv

LEMMA WrittenDataGrows ==
  ASSUME NEW a \in Nat, NEW b \in Nat, a <= b
  PROVE  WrittenData(a) \subseteq WrittenData(b)
BY DEF WrittenData

\* The three handlers that end in ProcessWrite: it runs on a window over
\* lo .. written - 1, and `early' has been sent before it.
LEMMA SenderHandler ==
  ASSUME IInv, UNCHANGED receiverVars,
         NEW w, NEW lo \in Acked .. written, \A i \in 0 .. lo - 1 : Received(i),
         SenderWindow(w, lo, written),
         NEW buffer \in 0 .. MaxBuffer, written + buffer <= MaxPackets,
         buffer = 0 => waiting_write = 0,
         NEW replies, NEW early, early \subseteq WrittenData(written),
         \A p \in replies : \E q \in net : /\ q.type = "ack"
                                           /\ p = AckOfAckPacket(q.ack)
                                           /\ Position(q.seq) <= lo,
         ProcessWrite(w, buffer, replies \cup early)
  PROVE  IInv' /\ Acked' = lo /\ written' >= written
<1>1. written \in Nat /\ buffer \in Nat /\ Acked \in Nat
  BY IInvWindows, ConstantTypes
<1>2. /\ written' \in Nat /\ written <= written'
      /\ waiting_write' \in 0 .. buffer
      /\ written' + waiting_write' = written + buffer
      /\ SenderWindow(unacked', lo, written')
      /\ net \cup (replies \cup early) \subseteq net'
      /\ net' \subseteq net \cup (replies \cup early) \cup WrittenData(written')
  BY <1>1, ProcessWriteStep
<1>3. waiting_write' \in 0 .. MaxBuffer /\ written' + waiting_write' <= MaxPackets
  <2>1. ASSUME NEW w0 \in Nat, NEW b \in 0 .. MaxBuffer, NEW w1 \in Nat, NEW rest \in 0 .. b,
               w0 + b <= MaxPackets, w1 + rest = w0 + b
        PROVE  rest \in 0 .. MaxBuffer /\ w1 + rest <= MaxPackets
    BY <2>1, ConstantTypes
  <2> QED
    BY Zenon, <1>1, <1>2, <2>1
<1>4. WrittenData(written) \subseteq WrittenData(written')
  BY Zenon, <1>1, <1>2, WrittenDataGrows
<1>5. net \subseteq net' /\ net' \subseteq net \cup replies \cup WrittenData(written')
  BY Zenon, <1>2, <1>4
<1> QED
  <2>1. IInv' /\ Acked' = lo
    BY Zenon, <1>2, <1>3, <1>5, SenderStep
  <2> QED
    BY Zenon, <1>1, <1>2, <2>1

\* What a step of the writing socket does, seen from outside.
SenderMoves ==
  /\ UNCHANGED receiverVars
  /\ Acked' >= Acked
  /\ written' >= written

LEMMA AsyncWriteStep ==
  ASSUME IInv, NEW k \in 1 .. MaxBuffer, AsyncWrite(k)
  PROVE  IInv' /\ SenderMoves
<1>1. /\ SenderWindow(unacked, Acked, written) /\ Acked \in Nat /\ written \in Nat
      /\ Acked <= written /\ Acked \in Acked .. written
  BY IInvWindows
<1>2. k \in 0 .. MaxBuffer /\ k # 0 /\ written + k <= MaxPackets
  BY ConstantTypes DEF AsyncWrite
<1>3. ProcessWrite(unacked, k, {} \cup {}) /\ UNCHANGED receiverVars
  BY DEF AsyncWrite
<1>4. \A i \in 0 .. Acked - 1 : Received(i)
  BY DEF IInv, AckedIsReceived
<1>5. IInv' /\ Acked' = Acked /\ written' >= written
  <2>1. /\ {} \subseteq WrittenData(written)
        /\ \A q \in {} : \E r \in net : /\ r.type = "ack"
                                        /\ q = AckOfAckPacket(r.ack)
                                        /\ Position(r.seq) <= Acked
    OBVIOUS
  <2> QED
    BY Zenon, <1>1, <1>2, <1>3, <1>4, <2>1, SenderHandler
<1> QED
  BY <1>1, <1>3, <1>5 DEF SenderMoves

LEMMA SenderTickStep ==
  ASSUME IInv, NEW timedout, SenderTick(timedout)
  PROVE  IInv' /\ SenderMoves
<1>1. /\ SenderWindow(unacked, Acked, written) /\ Acked \in Nat /\ written \in Nat
      /\ Acked <= written /\ Acked \in Acked .. written
  BY IInvWindows
<1>2. /\ waiting_write \in 0 .. MaxBuffer /\ written + waiting_write <= MaxPackets
      /\ \A i \in 0 .. Acked - 1 : Received(i)
  BY Zenon DEF IInv, TypeOK, SenderInv, AckedIsReceived
<1> DEFINE marked == MarkLost(unacked, timedout)
<1>3. PICK n \in MaySend(marked) :
        ProcessWrite(DoSend(marked, n), waiting_write, Sent(marked, n))
  BY Zenon DEF SenderTick
<1>4. UNCHANGED receiverVars
  BY Zenon DEF SenderTick
<1>5. SenderWindow(marked, Acked, written)
  BY Zenon, <1>1, SenderMark DEF SenderTick
<1> HIDE DEF marked
<1>6. SenderWindow(DoSend(marked, n), Acked, written) /\ Sent(marked, n) \subseteq WrittenData(written)
  BY Zenon, <1>5, SenderSend
<1> DEFINE none == {}
<1>7. ProcessWrite(DoSend(marked, n), waiting_write, none \cup Sent(marked, n))
  <2>1. none \cup Sent(marked, n) = Sent(marked, n)
    OBVIOUS
  <2> QED
    BY <1>3, <2>1
<1>8. IInv' /\ Acked' = Acked /\ written' >= written
  <2>1. \A q \in none : \E r \in net : /\ r.type = "ack"
                                       /\ q = AckOfAckPacket(r.ack)
                                       /\ Position(r.seq) <= Acked
    OBVIOUS
  <2> HIDE DEF none
  <2> QED
    BY Zenon, <1>1, <1>2, <1>4, <1>6, <1>7, <2>1, SenderHandler
<1> QED
  BY <1>1, <1>4, <1>8 DEF SenderMoves

LEMMA HandleNegativeAckStep ==
  ASSUME IInv, NEW p \in net, HandleNegativeAck(p)
  PROVE  IInv' /\ SenderMoves
<1>1. /\ SenderWindow(unacked, Acked, written) /\ Acked \in Nat /\ written \in Nat
      /\ Acked <= written /\ Acked \in Acked .. written
  BY IInvWindows
<1>2. /\ waiting_write \in 0 .. MaxBuffer /\ written + waiting_write <= MaxPackets
      /\ \A i \in 0 .. Acked - 1 : Received(i)
  BY Zenon DEF IInv, TypeOK, SenderInv, AckedIsReceived
<1> DEFINE ns == {n \in p.seqs : Contains(unacked, n)}
           marked == MarkLost(unacked, ns)
<1>3. PICK n \in MaySend(marked) : unacked' = DoSend(marked, n) /\ net' = net \cup Sent(marked, n)
  BY Zenon DEF HandleNegativeAck
<1>4. UNCHANGED <<receiverVars, written, waiting_write>>
  BY DEF HandleNegativeAck
<1>5. ns \in SUBSET SeqNums
  BY Zenon DEF HandleNegativeAck, IInv, TypeOK, Packets
<1>6. SenderWindow(marked, Acked, written)
  BY Zenon, <1>1, <1>5, SenderMark
<1> HIDE DEF marked
<1>7. SenderWindow(unacked', Acked, written') /\ Sent(marked, n) \subseteq WrittenData(written')
  BY Zenon, <1>3, <1>4, <1>6, SenderSend
<1> DEFINE none == {}
<1>8. net \subseteq net' /\ net' \subseteq net \cup none \cup WrittenData(written')
  BY Zenon, <1>3, <1>7
<1>9. written' \in Nat /\ written <= written' /\ waiting_write' \in 0 .. MaxBuffer
      /\ written' + waiting_write' <= MaxPackets /\ UNCHANGED receiverVars
  BY <1>1, <1>2, <1>4
<1>10. IInv' /\ Acked' = Acked
  <2>1. \A q \in none : \E r \in net : /\ r.type = "ack"
                                       /\ q = AckOfAckPacket(r.ack)
                                       /\ Position(r.seq) <= Acked
    OBVIOUS
  <2> HIDE DEF none
  <2> QED
    BY Zenon, <1>1, <1>2, <1>7, <1>8, <1>9, <2>1, SenderStep
<1> QED
  BY <1>1, <1>9, <1>10 DEF SenderMoves

LEMMA HandleAckStep ==
  ASSUME IInv, NEW p \in net, HandleAck(p)
  PROVE  IInv' /\ SenderMoves
<1> DEFINE v == Position(p.seq)
           reply == {AckOfAckPacket(p.ack)}
<1>1. /\ SenderWindow(unacked, Acked, written) /\ Acked \in Nat /\ written \in Nat
      /\ Acked <= written /\ Reserved \in Nat /\ Reserved <= written /\ Len(delivered) \in Nat
      /\ Len(delivered) <= Reserved /\ written \in 0 .. kMaxSequenceNumber
      /\ Acked \in Acked .. written
  <2>1. Len(delivered) <= Reserved
    BY Zenon DEF IInv, ReceiverInv, Covers, Read
  <2> QED
    BY <2>1, IInvWindows, ConstantTypes
<1>2. /\ waiting_write \in 0 .. MaxBuffer /\ written + waiting_write <= MaxPackets
      /\ \A i \in 0 .. Acked - 1 : Received(i)
  BY DEF IInv, TypeOK, SenderInv, AckedIsReceived
<1>3. p.type = "ack" /\ UNCHANGED receiverVars
  BY Zenon DEF HandleAck
<1>4. p.seq \in SeqNums /\ v \in Nat /\ NumberOf(v) = p.seq
  BY <1>3, PositionNumber DEF IInv, TypeOK, Packets
<1>5. \A i \in 0 .. v - 1 : Received(i)
  BY <1>3 DEF IInv, AckInv
<1>6. v <= written
  <2>1. CASE v = 0
    BY <1>1, <2>1
  <2>2. CASE v # 0
    <3>1. v - 1 \in 0 .. v - 1
      BY <1>4, <2>2
    <3>2. v - 1 < Reserved
      BY <1>1, <1>4, <1>5, <3>1 DEF Received, Read
    <3> QED
      BY <1>1, <1>4, <3>2
  <2> QED
    BY <2>1, <2>2
<1>7. \A q \in reply : q = AckOfAckPacket(p.ack)
  OBVIOUS
<1>8. CASE Contains(unacked, p.seq) \/ unacked.end = p.seq
  <2> DEFINE trimmed == RemoveTo(unacked, p.seq)
  <2>1. PICK n \in MaySend(trimmed) :
          ProcessWrite(DoSend(trimmed, n), waiting_write, reply \cup Sent(trimmed, n))
    BY Zenon, <1>8 DEF HandleAck
  <2>2. v \in Acked .. written
    <3>1. CASE Contains(unacked, p.seq)
      BY SMTT(30), <1>1, <1>4, <1>6, <3>1, WindowSpan DEF SenderWindow
    <3>2. CASE unacked.end = p.seq
      <4>1. p.seq = NumberOf(written)
        BY Zenon, <1>1, <3>2 DEF SenderWindow, Covers
      <4> QED
        BY <1>1, <4>1, NumberPosition
    <3> QED
      BY Zenon, <1>8, <3>1, <3>2
  <2>3. SenderWindow(trimmed, v, written)
    BY Zenon, <1>1, <1>4, <2>2, SenderRemove
  <2> HIDE DEF trimmed
  <2>4. SenderWindow(DoSend(trimmed, n), v, written) /\ Sent(trimmed, n) \subseteq WrittenData(written)
    BY <2>3, SenderSend
  <2>5. \A r \in reply : \E q \in net : /\ q.type = "ack"
                                        /\ r = AckOfAckPacket(q.ack)
                                        /\ Position(q.seq) <= v
    BY <1>3, <1>4
  <2> HIDE DEF reply, v
  <2>6. IInv' /\ Acked' = v /\ written' >= written
    BY Zenon, <1>2, <1>3, <1>5, <2>1, <2>2, <2>4, <2>5, SenderHandler
  <2> QED
    BY <1>1, <1>3, <2>2, <2>6 DEF SenderMoves
<1>9. CASE ~(Contains(unacked, p.seq) \/ unacked.end = p.seq)
  <2> DEFINE none == {}
  <2>1. ProcessWrite(unacked, waiting_write, reply \cup none)
    <3>1. reply \cup none = reply
      OBVIOUS
    <3> QED
      BY SMTT(30), <1>9, <3>1 DEF HandleAck
  <2>2. v < Acked
    <3>1. v # written
      BY Zenon, <1>1, <1>4, <1>9 DEF SenderWindow, Covers
    <3>2. ~(Acked <= v /\ v < written)
      BY Zenon, <1>1, <1>4, <1>9, WindowSpan DEF SenderWindow
    <3> QED
      BY <1>1, <1>4, <1>6, <3>1, <3>2
  <2>3. \A r \in reply : \E q \in net : /\ q.type = "ack"
                                        /\ r = AckOfAckPacket(q.ack)
                                        /\ Position(q.seq) <= Acked
    BY <1>1, <1>3, <1>4, <2>2
  <2> HIDE DEF reply, v
  <2>4. IInv' /\ Acked' = Acked /\ written' >= written
    <3>1. none \subseteq WrittenData(written)
      BY Zenon
    <3> HIDE DEF none
    <3> QED
      BY Zenon, <1>1, <1>2, <1>3, <2>1, <2>3, <3>1, SenderHandler
  <2> QED
    BY <1>1, <1>3, <2>4 DEF SenderMoves
<1> QED
  BY Zenon, <1>8, <1>9

-----------------------------------------------------------------------------
(* Steps of the reading socket.                                            *)

LEMMA AckNumbers ==
  ASSUME NEW m \in SeqNums
  PROVE  /\ AckPosition(m) \in 0 .. kMaxSequenceNumber
         /\ Following(m) \in SeqNums
         /\ AckPosition(m) < kMaxSequenceNumber => AckPosition(Following(m)) = AckPosition(m) + 1
         /\ \A n \in SeqNums : AckPosition(m) = AckPosition(n) => m = n
         /\ \A b, e \in SeqNums : AckPosition(b) <= AckPosition(e) =>
              (IsInRange(b, e, m) <=> AckPosition(b) <= AckPosition(m) /\ AckPosition(m) < AckPosition(e))
BY ConstantTypes DEF SeqNums, AckPosition, Distance, Following, IsInRange

LEMMA NextNumber == \A n \in Nat : n < n + 1 /\ n = (n + 1) - 1
  OBVIOUS

\* What a step of the reading socket does, seen from outside.
ReceiverMoves ==
  /\ UNCHANGED senderVars
  /\ Acked' = Acked
  /\ \A i \in Nat : Received(i) => Received(i)'
  /\ Len(delivered') >= Len(delivered)

\* A step of the reading socket keeps what does not concern acknowledgements,
\* if it ends in ProcessRead on a window that has lost nothing.
LEMMA ReceiverStep ==
  ASSUME IInv, UNCHANGED senderVars,
         NEW w, NEW hi \in Reserved .. written, ReceiverWindow(w, Len(delivered), hi),
         \A i \in Nat : Received(i) => Has(w, Len(delivered), hi, i),
         NEW left \in 0 .. MaxBuffer, NEW need \in 0 .. MaxBuffer,
         ProcessRead(w, left, need),
         acks' \in [begin : SeqNums, end : SeqNums], last_ack' \in SeqNums,
         net \subseteq net', net' \subseteq Packets,
         \A p \in net' \ net : p.type \in {"ack", "nak"},
         \A p \in net' \ net : p.type = "ack" =>
            \A i \in 0 .. Position(p.seq) - 1 : Received(i),
         \A i \in 0 .. Position(last_ack') - 1 : Received(i),
         AnswerInv'
  PROVE  IInv' /\ ReceiverMoves
<1>1. UNCHANGED <<unacked, waiting_write, written>> /\ Acked' = Acked
  BY Zenon DEF senderVars, Acked
<1>2. /\ Acked \in Nat /\ Reserved \in Nat /\ written \in Nat /\ Len(delivered) \in Nat
      /\ hi \in Nat /\ hi <= written
  BY IInvWindows
<1>3. /\ delivered' \in Seq(Chunks)
      /\ InOrderDelivery'
      /\ Len(delivered') \in Len(delivered) .. hi
      /\ ReceiverWindow(unread', Len(delivered'), hi)
      /\ waiting_read' \in [left : 0 .. MaxBuffer, need : 0 .. MaxBuffer]
      /\ \A i \in Nat : Has(w, Len(delivered), hi, i) => Has(unread', Len(delivered'), hi, i)
  <2>1. delivered \in Seq(Chunks) /\ InOrderDelivery
    BY Zenon DEF IInv, TypeOK
  <2> QED
    BY Zenon, <2>1, ProcessReadStep
<1>4. Read' = Len(delivered') /\ Reserved' = hi
  <2>1. Size(unread') = hi - Len(delivered')
    BY Zenon, <1>3, WindowSpan DEF ReceiverWindow
  <2> QED
    BY <1>2, <1>3, <2>1 DEF Read, Reserved
<1>5. \A i \in Nat : Received(i) => Received(i)'
  BY Zenon, <1>3, <1>4 DEF Has, Received
<1>6. SenderInv'
  BY Zenon, <1>1 DEF IInv, SenderInv, Covers
<1>7. ReceiverInv'
  BY Zenon, <1>3, <1>4 DEF ReceiverInv, ReceiverWindow
<1>8. ReservedIsWritten'
  BY Zenon, <1>1, <1>2, <1>4 DEF ReservedIsWritten
<1>9. AckedIsReceived'
  <2>1. \A i \in 0 .. Acked - 1 : Received(i)
    BY Zenon DEF IInv, AckedIsReceived
  <2> QED
    BY <1>1, <1>2, <1>5, <2>1 DEF AckedIsReceived
<1>10. TypeOK'
  BY Zenon, <1>1, <1>3 DEF IInv, TypeOK, ReceiverWindow
<1>11. DataInv'
  BY Zenon, <1>1 DEF IInv, DataInv
<1>12. AckInv'
  <2>1. ASSUME NEW p \in net', p.type = "ack", NEW i \in 0 .. Position(p.seq) - 1
        PROVE  Received(i)'
    <3>1. p.seq \in SeqNums
      BY Zenon, <2>1 DEF Packets
    <3>2. i \in Nat
      BY <3>1, PositionNumber
    <3>3. Received(i)
      BY Zenon, <2>1 DEF IInv, AckInv
    <3> QED
      BY Zenon, <1>5, <3>2, <3>3
  <2>2. ASSUME NEW i \in 0 .. Position(last_ack') - 1
        PROVE  Received(i)'
    <3>1. i \in Nat
      BY PositionNumber
    <3>2. Received(i)
      BY Zenon
    <3> QED
      BY Zenon, <1>5, <3>1, <3>2
  <2>3. \A n : Position(n)' = Position(n)
    BY Zenon DEF Position
  <2> QED
    BY Zenon, <2>1, <2>2 DEF AckInv, Position
<1> QED
  <2>1. IInv'
    BY Zenon, <1>3, <1>6, <1>7, <1>8, <1>9, <1>10, <1>11, <1>12 DEF IInv
  <2>2. Len(delivered') >= Len(delivered)
    BY <1>2, <1>3
  <2> QED
    BY Zenon, <1>1, <1>5, <2>1, <2>2 DEF ReceiverMoves

\* What ReceiverStep needs of a handler that sends nothing.
LEMMA QuietStep ==
  ASSUME IInv, UNCHANGED <<senderVars, last_ack, net>>
  PROVE  /\ last_ack' \in SeqNums
         /\ net \subseteq net' /\ net' \subseteq Packets
         /\ \A p \in net' \ net : p.type \in {"ack", "nak"}
         /\ \A p \in net' \ net : p.type = "ack" =>
              \A i \in 0 .. Position(p.seq) - 1 : Received(i)
         /\ \A i \in 0 .. Position(last_ack') - 1 : Received(i)
         /\ UNCHANGED acks => AnswerInv'
         /\ ReceiverWindow(unread, Len(delivered), Reserved)
         /\ \A i \in Nat : Received(i) => Has(unread, Len(delivered), Reserved, i)
         /\ Reserved \in Reserved .. written
         /\ written \in Nat /\ written <= MaxPackets
         /\ waiting_read.left \in 0 .. MaxBuffer /\ waiting_read.need \in 0 .. MaxBuffer
         /\ acks \in [begin : SeqNums, end : SeqNums]
<1>1. UNCHANGED <<last_ack, net, unacked, waiting_write, written>> /\ Acked' = Acked
  BY Zenon DEF senderVars, Acked
<1>2. last_ack \in SeqNums /\ net \subseteq Packets
      /\ waiting_read.left \in 0 .. MaxBuffer /\ waiting_read.need \in 0 .. MaxBuffer
      /\ acks \in [begin : SeqNums, end : SeqNums]
  BY Zenon DEF IInv, TypeOK
<1>3. \A i \in 0 .. Position(last_ack) - 1 : Received(i)
  BY Zenon DEF IInv, AckInv
<1>4. UNCHANGED acks => AnswerInv'
  BY Zenon, <1>1 DEF IInv, AnswerInv, AckPosition, Position
<1> QED
  BY SMTT(60), <1>1, <1>2, <1>3, <1>4, IInvWindows

LEMMA AsyncReadStep ==
  ASSUME IInv, NEW k \in 1 .. MaxBuffer, NEW at_least \in 1 .. k, AsyncRead(k, at_least)
  PROVE  IInv' /\ ReceiverMoves
<1>1. /\ UNCHANGED <<senderVars, last_ack, net>> /\ UNCHANGED acks
      /\ ProcessRead(unread, k, at_least)
  BY Zenon DEF AsyncRead
<1>2. k \in 0 .. MaxBuffer /\ at_least \in 0 .. MaxBuffer
  BY ConstantTypes
<1> QED
  BY Zenon, <1>1, <1>2, QuietStep, ReceiverStep

LEMMA HandleDataStep ==
  ASSUME IInv, NEW p \in net, HandleData(p)
  PROVE  IInv' /\ ReceiverMoves
<1>1. PICK size \in WindowSizes :
        ProcessRead(Fill(Reserve(unread, size, p.seq), p), waiting_read.left, waiting_read.need)
  BY Zenon DEF HandleData
<1>2. UNCHANGED <<senderVars, last_ack, net>> /\ UNCHANGED acks /\ p.type = "data"
  BY Zenon DEF HandleData
<1>3. p.chunk \in 1 .. written /\ p.seq = NumberOf(p.chunk - 1)
  <2>1. /\ p.chunk \in Chunks /\ p.chunk <= written /\ p.seq = NumberOf(p.chunk - 1)
        /\ written \in Nat
    BY Zenon, <1>2, DataInFlight, IInvWindows
  <2>. QED BY <2>1, ConstantTypes DEF Chunks
<1>4. PICK h \in Reserved .. written :
        LET r == Fill(Reserve(unread, size, p.seq), p)
        IN  /\ ReceiverWindow(r, Len(delivered), h)
            /\ \A i \in Nat : Has(unread, Len(delivered), Reserved, i) => Has(r, Len(delivered), h, i)
  BY Zenon, <1>3, IInvWindows, ReceiverFill
<1> DEFINE r == Fill(Reserve(unread, size, p.seq), p)
<1>5. \A i \in Nat : Received(i) => Has(r, Len(delivered), h, i)
  BY Zenon, <1>2, <1>4, QuietStep
<1>6. ReceiverWindow(r, Len(delivered), h) /\ ProcessRead(r, waiting_read.left, waiting_read.need)
  BY Zenon, <1>1, <1>4
<1> HIDE DEF r
<1> QED
  BY Zenon, <1>2, <1>5, <1>6, QuietStep, ReceiverStep

LEMMA HandleAckOfAckStep ==
  ASSUME IInv, NEW p \in net, HandleAckOfAck(p)
  PROVE  IInv' /\ ReceiverMoves
<1>1. /\ UNCHANGED <<senderVars, last_ack, net>> /\ p.type = "ackofack"
      /\ ProcessRead(unread, waiting_read.left, waiting_read.need)
  BY Zenon DEF HandleAckOfAck
<1>2. CASE ~Contains(acks, p.ack)
  <2>1. UNCHANGED acks
    BY Zenon, <1>2 DEF HandleAckOfAck
  <2> QED
    BY Zenon, <1>1, <2>1, QuietStep, ReceiverStep
<1>3. CASE Contains(acks, p.ack)
  <2>1. acks' = [begin |-> Following(p.ack), end |-> acks.end]
    BY Zenon, <1>3 DEF HandleAckOfAck
  <2>2. p.ack \in SeqNums /\ acks.begin \in SeqNums /\ acks.end \in SeqNums
    BY Zenon, <1>1 DEF IInv, TypeOK, Packets
  <2>3. acks' \in [begin : SeqNums, end : SeqNums]
    BY Zenon, <2>1, <2>2, AckNumbers
  <2>4. AckPosition(acks.begin) <= AckPosition(acks.end) /\ AckPosition(acks.end) <= MaxAcks
    BY Zenon DEF IInv, AnswerInv
  <2>5. AckPosition(p.ack) < AckPosition(acks.end)
    BY Zenon, <1>3, <2>2, <2>4, AckNumbers DEF Contains
  <2>6. AckPosition(Following(p.ack)) = AckPosition(p.ack) + 1 /\ Following(p.ack) \in SeqNums
        /\ AckPosition(p.ack) \in Nat /\ AckPosition(acks.end) \in Nat
    BY SMTT(60), <2>2, <2>5, AckNumbers, ConstantTypes
  <2>7. Following(p.ack) = acks.end => Position(last_ack) <= Acked
    <3>1. PICK q \in net : q.type = "ack" /\ q.ack = p.ack /\ Position(q.seq) <= Acked
      <4>1. AnswerInv
        BY Zenon DEF IInv
      <4> QED
        BY Zenon, <1>1, <4>1 DEF AnswerInv
    <3>2. Following(p.ack) = acks.end => q.seq = last_ack
      <4>1. AckPosition(q.ack) = (AckPosition(q.ack) + 1) - 1
        BY Zenon, <2>6, <3>1, NextNumber
      <4> QED
        BY Zenon, <2>6, <3>1, <4>1 DEF IInv, AnswerInv
    <3> QED
      BY Zenon, <3>1, <3>2
  <2>8. AnswerInv'
    <3>1. Acked' = Acked /\ last_ack' = last_ack /\ net' = net
      BY Zenon, <1>1 DEF senderVars, Acked
    <3>2. acks'.begin = Following(p.ack) /\ acks'.end = acks.end
      BY Zenon, <2>1
    <3>3. AckPosition(Following(p.ack)) <= AckPosition(acks.end)
      BY <2>5, <2>6
    <3> QED
      BY Zenon, <2>4, <2>7, <3>1, <3>2, <3>3 DEF IInv, AnswerInv, AckPosition, Position
  <2> QED
    BY Zenon, <1>1, <2>3, <2>8, QuietStep, ReceiverStep
<1> QED
  BY Zenon, <1>2, <1>3

LEMMA ReceiverTickStep ==
  ASSUME IInv, NEW due \in BOOLEAN, NEW late \in BOOLEAN, NEW missing,
         ReceiverTick(due, late, missing)
  PROVE  IInv' /\ ReceiverMoves
<1> DEFINE nak == IF missing = {} THEN {} ELSE {NegativeAckPacket(missing)}
<1>1. /\ UNCHANGED senderVars /\ missing \subseteq unread.lost
      /\ ProcessRead(unread, waiting_read.left, waiting_read.need)
  BY Zenon DEF ReceiverTick
<1>2. PICK g \in SeqNums :
        /\ IsAckPoint(unread, g)
        /\ IF due /\ (g # last_ack \/ (acks.begin # acks.end /\ late))
             THEN /\ Distance(InitialAckSequenceNumber, acks.end) < MaxAcks
                  /\ acks' = AppendAck(acks)
                  /\ last_ack' = g
                  /\ net' = net \cup {AckPacket(acks.end, g)} \cup nak
             ELSE /\ net' = net \cup nak
                  /\ UNCHANGED <<acks, last_ack>>
  BY Zenon DEF ReceiverTick
<1>3. /\ last_ack \in SeqNums /\ net \subseteq Packets
      /\ waiting_read.left \in 0 .. MaxBuffer /\ waiting_read.need \in 0 .. MaxBuffer
      /\ acks \in [begin : SeqNums, end : SeqNums] /\ unread.lost \subseteq SeqNums
  BY Zenon DEF IInv, TypeOK, Windows
<1>4. /\ ReceiverWindow(unread, Len(delivered), Reserved)
      /\ \A i \in Nat : Received(i) => Has(unread, Len(delivered), Reserved, i)
      /\ Reserved \in Reserved .. written
  BY IInvWindows
<1>5. \A p \in nak : p.type = "nak" /\ p \in Packets
  BY SMTT(60), <1>1, <1>3 DEF NegativeAckPacket, Packets
<1>6. \A i \in 0 .. Position(last_ack) - 1 : Received(i)
  BY Zenon DEF IInv, AckInv
<1> HIDE DEF nak
<1>7. CASE ~(due /\ (g # last_ack \/ (acks.begin # acks.end /\ late)))
  <2>1. net' = net \cup nak /\ acks' = acks /\ last_ack' = last_ack
    BY Zenon, <1>2, <1>7
  <2>2. Acked' = Acked
    BY Zenon, <1>1 DEF senderVars, Acked
  <2>3. \A p \in net' : p.type \in {"ack", "ackofack"} => p \in net
    BY Zenon, <1>5, <2>1
  <2>4. AnswerInv'
    BY Zenon, <2>1, <2>2, <2>3 DEF IInv, AnswerInv, AckPosition, Position
  <2>5. /\ net \subseteq net' /\ net' \subseteq Packets
        /\ \A p \in net' \ net : p.type \in {"ack", "nak"}
        /\ \A p \in net' \ net : p.type = "ack" =>
             \A i \in 0 .. Position(p.seq) - 1 : Received(i)
        /\ \A i \in 0 .. Position(last_ack') - 1 : Received(i)
        /\ acks' \in [begin : SeqNums, end : SeqNums] /\ last_ack' \in SeqNums
    <3>1. net \subseteq net' /\ net' \subseteq Packets /\ \A p \in net' \ net : p.type = "nak"
      BY Zenon, <1>3, <1>5, <2>1
    <3> QED
      BY Zenon, <1>3, <1>6, <2>1, <3>1
  <2> QED
    BY Zenon, <1>1, <1>3, <1>4, <2>4, <2>5, ReceiverStep
<1>8. CASE due /\ (g # last_ack \/ (acks.begin # acks.end /\ late))
  <2> DEFINE a == AckPacket(acks.end, g)
  <2>1. /\ AckPosition(acks.end) < MaxAcks
        /\ acks' = AppendAck(acks) /\ last_ack' = g
        /\ net' = net \cup {a} \cup nak
    BY Zenon, <1>2, <1>8 DEF AckPosition
  <2>2. a \in Packets /\ a.type = "ack" /\ a.ack = acks.end /\ a.seq = g
    BY Zenon, <1>3 DEF AckPacket, Packets
  <2> HIDE DEF a
  <2>3. \A i \in 0 .. Position(g) - 1 : Received(i)
    BY Zenon, <1>2, <1>4, AckPoint, IInvWindows
  <2>4. /\ acks.begin \in SeqNums /\ acks.end \in SeqNums
        /\ AckPosition(acks.begin) <= AckPosition(acks.end)
    BY Zenon, <1>3 DEF IInv, AnswerInv
  <2>5. /\ AckPosition(acks.begin) \in Nat /\ AckPosition(acks.end) \in Nat
        /\ AckPosition(acks.end) < kMaxSequenceNumber
        /\ AckPosition(Following(acks.end)) = AckPosition(acks.end) + 1
        /\ Following(acks.begin) \in SeqNums /\ Following(acks.end) \in SeqNums
    <3>1. /\ AckPosition(acks.begin) \in 0 .. kMaxSequenceNumber
          /\ AckPosition(acks.end) \in 0 .. kMaxSequenceNumber
          /\ Following(acks.begin) \in SeqNums /\ Following(acks.end) \in SeqNums
      BY Zenon, <2>4, AckNumbers
    <3>2. /\ AckPosition(acks.begin) \in Nat /\ AckPosition(acks.end) \in Nat
          /\ AckPosition(acks.end) < kMaxSequenceNumber
      BY <2>1, <3>1, ConstantTypes
    <3> QED
      BY Zenon, <2>4, <3>1, <3>2, AckNumbers
  <2>6. AckPosition(Following(acks.begin)) = AckPosition(acks.begin) + 1
    <3>1. AckPosition(acks.begin) < kMaxSequenceNumber
      BY <2>4, <2>5, ConstantTypes
    <3> QED
      BY Zenon, <2>4, <3>1, AckNumbers
  <2>7. /\ acks'.begin \in SeqNums /\ acks'.end = Following(acks.end)
        /\ AckPosition(acks'.begin) <= AckPosition(acks.end)
    <3>1. CASE Size(acks) < default_window_size
      BY SMTT(60), <2>1, <2>4, <2>5, <3>1, ConstantTypes DEF AppendAck, Size, SeqNums, Distance
    <3>2. CASE ~(Size(acks) < default_window_size)
      <4>1. acks.begin # acks.end
        BY <2>4, <3>2, ConstantTypes DEF Size, Distance, SeqNums
      <4>2. AckPosition(acks.begin) # AckPosition(acks.end)
        BY Zenon, <2>4, <4>1, AckNumbers
      <4>3. Size(acks) >= default_window_size
        BY SMTT(60), <2>4, <3>2, DistanceAdvance, ConstantTypes DEF Size
      <4> QED
        BY SMTT(60), <2>1, <2>4, <2>5, <2>6, <4>2, <4>3 DEF AppendAck
    <3> QED
      BY Zenon, <3>1, <3>2
  <2>8. acks' \in [begin : SeqNums, end : SeqNums] /\ acks'.begin # acks'.end
    <3>1. acks' \in [begin : SeqNums, end : SeqNums]
      BY Zenon, <2>1, <2>4, <2>5 DEF AppendAck
    <3>2. AckPosition(acks'.begin) < AckPosition(acks'.end)
      BY SMTT(60), <2>5, <2>7, AckNumbers
    <3>3. AckPosition(acks'.begin) \in Nat
      BY SMTT(60), <2>7, AckNumbers
    <3> QED
      BY <3>1, <3>2, <3>3
  <2>9. AnswerInv'
    <3>1. Acked' = Acked
      BY <1>1 DEF senderVars, Acked
    <3>2. AckPosition(acks'.begin) <= AckPosition(acks'.end) /\ AckPosition(acks'.end) <= MaxAcks
      <4>1. AckPosition(acks'.end) = AckPosition(acks.end) + 1
        BY Zenon, <2>5, <2>7
      <4>2. AckPosition(acks'.begin) \in 0 .. kMaxSequenceNumber
        BY Zenon, <2>7, AckNumbers
      <4>. QED BY <2>1, <2>5, <2>7, <4>1, <4>2, ConstantTypes
    <3>3. ASSUME NEW p \in net', p.type = "ack"
          PROVE  /\ AckPosition(p.ack) < AckPosition(acks'.end)
                 /\ AckPosition(p.ack) = AckPosition(acks'.end) - 1 => p.seq = last_ack'
      <4>1. CASE p \in net
        <5>1. AckPosition(p.ack) < AckPosition(acks.end)
          BY Zenon, <3>3, <4>1 DEF IInv, AnswerInv
        <5>2. AckPosition(p.ack) \in Nat
          BY SMTT(60), <1>3, <3>3, <4>1, AckNumbers DEF Packets
        <5> QED
          BY SMTT(60), <2>5, <2>7, <5>1, <5>2
      <4>2. CASE p = a
        <5>1. p.ack = acks.end /\ p.seq = last_ack'
          BY Zenon, <2>1, <2>2, <4>2
        <5>2. AckPosition(p.ack) = AckPosition(acks.end)
          BY Zenon, <5>1
        <5>3. AckPosition(acks'.end) = AckPosition(acks.end) + 1
          BY Zenon, <2>5, <2>7
        <5> QED
          BY Zenon, <2>5, <5>1, <5>2, <5>3, NextNumber
      <4>3. CASE p \in nak
        BY Zenon, <1>5, <3>3, <4>3
      <4> QED
        BY Zenon, <2>1, <4>1, <4>2, <4>3
    <3>4. ASSUME NEW p \in net', p.type = "ackofack"
          PROVE  \E q \in net' : q.type = "ack" /\ q.ack = p.ack /\ Position(q.seq) <= Acked
      <4>1. p \in net
        BY Zenon, <1>5, <2>1, <2>2, <3>4
      <4> QED
        BY Zenon, <2>1, <3>4, <4>1 DEF IInv, AnswerInv
    <3> QED
      BY Zenon, <2>8, <3>1, <3>2, <3>3, <3>4 DEF AnswerInv, AckPosition, Position
  <2>10. /\ net \subseteq net' /\ net' \subseteq Packets
         /\ \A p \in net' \ net : p.type \in {"ack", "nak"}
         /\ \A p \in net' \ net : p.type = "ack" =>
              \A i \in 0 .. Position(p.seq) - 1 : Received(i)
         /\ \A i \in 0 .. Position(last_ack') - 1 : Received(i)
         /\ last_ack' \in SeqNums
    BY Zenon, <1>3, <1>5, <2>1, <2>2, <2>3
  <2> QED
    BY Zenon, <1>1, <1>3, <1>4, <2>8, <2>9, <2>10, ReceiverStep
<1> QED
  BY <1>7, <1>8

-----------------------------------------------------------------------------
(* The theorems.                                                           *)

LEMMA NextIInv ==
  ASSUME IInv, [Next]_vars
  PROVE  IInv' /\ (SenderMoves \/ ReceiverMoves)
<1>1. Acked \in Nat /\ written \in Nat
  BY Zenon, IInvWindows
<1>2. CASE UNCHANGED vars
  <2>1. UNCHANGED <<unacked, waiting_write, written, unread, acks, last_ack, waiting_read,
                    delivered, net>>
    BY Zenon, <1>2 DEF vars, senderVars, receiverVars
  <2>2. Acked' = Acked /\ Read' = Read /\ Reserved' = Reserved
        /\ \A i : Received(i)' <=> Received(i)
    BY Zenon, <2>1 DEF Acked, Read, Reserved, Received
  <2>3. TypeOK' /\ SenderInv' /\ ReceiverInv' /\ InOrderDelivery' /\ ReservedIsWritten'
        /\ AckedIsReceived' /\ DataInv' /\ AckInv' /\ AnswerInv'
    BY Zenon, <2>1, <2>2 DEF IInv, TypeOK, SenderInv, ReceiverInv, InOrderDelivery, Covers,
       ReservedIsWritten, AckedIsReceived, DataInv, AckInv, AnswerInv, AckPosition, Position
  <2> QED
    BY <1>1, <1>2, <2>1, <2>2, <2>3 DEF IInv, SenderMoves, vars
<1>3. ASSUME NEW k \in 1 .. MaxBuffer, AsyncWrite(k)
      PROVE  IInv' /\ (SenderMoves \/ ReceiverMoves)
  BY Zenon, <1>3, AsyncWriteStep
<1>4. ASSUME NEW p \in net, HandleAck(p)
      PROVE  IInv' /\ (SenderMoves \/ ReceiverMoves)
  BY Zenon, <1>4, HandleAckStep
<1>5. ASSUME NEW p \in net, HandleNegativeAck(p)
      PROVE  IInv' /\ (SenderMoves \/ ReceiverMoves)
  BY Zenon, <1>5, HandleNegativeAckStep
<1>6. ASSUME NEW timedout \in SUBSET SeqNums, SenderTick(timedout)
      PROVE  IInv' /\ (SenderMoves \/ ReceiverMoves)
  BY Zenon, <1>6, SenderTickStep
<1>7. ASSUME NEW k \in 1 .. MaxBuffer, NEW at_least \in 1 .. k, AsyncRead(k, at_least)
      PROVE  IInv' /\ (SenderMoves \/ ReceiverMoves)
  BY Zenon, <1>1, <1>7, AsyncReadStep
<1>8. ASSUME NEW p \in net, HandleData(p)
      PROVE  IInv' /\ (SenderMoves \/ ReceiverMoves)
  BY Zenon, <1>1, <1>8, HandleDataStep
<1>9. ASSUME NEW p \in net, HandleAckOfAck(p)
      PROVE  IInv' /\ (SenderMoves \/ ReceiverMoves)
  BY Zenon, <1>1, <1>9, HandleAckOfAckStep
<1>10. ASSUME NEW due \in BOOLEAN, NEW late \in BOOLEAN, NEW missing \in SUBSET unread.lost,
              ReceiverTick(due, late, missing)
       PROVE  IInv' /\ (SenderMoves \/ ReceiverMoves)
  BY <1>1, <1>10, ReceiverTickStep
<1> QED
  BY Zenon, <1>2, <1>3, <1>4, <1>5, <1>6, <1>7, <1>8, <1>9, <1>10 DEF Next

\* The inductive invariant holds in every reachable state.
THEOREM Invariance == Spec => []IInv
<1>1. IInv /\ [Next]_vars => IInv'
  BY NextIInv
<1> QED
  BY <1>1, InitIInv, PTL DEF Spec

\* Every variable keeps its type: window ends stay in the number space when
\* numbers wrap, and only well-formed packets are sent.
THEOREM TypeCorrect == Spec => []TypeOK
<1>1. IInv => TypeOK
  BY DEF IInv
<1> QED
  BY <1>1, Invariance, PTL

\* The application reads what was written, in order, without gap or repetition.
THEOREM DeliveryInOrder == Spec => []InOrderDelivery
<1>1. IInv => InOrderDelivery
  BY DEF IInv
<1> QED
  BY <1>1, Invariance, PTL

\* The sender only drops packets that have reached the receiver.
THEOREM AckedReceived == Spec => []AckedIsReceived
<1>1. IInv => AckedIsReceived
  BY Zenon DEF IInv
<1> QED
  BY <1>1, Invariance, PTL

\* The receiver never reserves a slot for a packet that was not written.
THEOREM ReservedWritten == Spec => []ReservedIsWritten
<1>1. IInv => ReservedIsWritten
  BY Zenon DEF IInv
<1> QED
  BY <1>1, Invariance, PTL

\* A flushed receiver's acknowledgements have been handled by the writer.
THEOREM FlushedKnown == Spec => []FlushedIsKnown
<1>1. IInv => FlushedIsKnown
  BY DEF IInv, AnswerInv, FlushedIsKnown, ReceiverFlushed, Position
<1> QED
  BY <1>1, Invariance, PTL

\* The sender's window only moves forward.
THEOREM AckedMonotonic == Spec => AckedNeverFalls
<1>1. IInv /\ [Next]_vars => [Acked' >= Acked]_vars
  BY NextIInv, IInvWindows DEF SenderMoves, ReceiverMoves
<1> QED
  BY <1>1, Invariance, PTL DEF Spec, AckedNeverFalls

\* The two windows over the lossy network implement the reliable stream: every
\* step of a socket is a step of the abstract writer or reader, or none at all.
THEOREM StreamRefinement == Spec => ImplementsStream
<1>1. ASSUME Init PROVE Stream!Init
  <2>1. IInv /\ written = 0 /\ delivered = <<>>
    BY Zenon, <1>1, InitIInv DEF Init
  <2>2. Acked = 0
    BY <2>1, IInvWindows
  <2>3. Reserved = 0 /\ Len(delivered) = 0
    BY <2>1, IInvWindows
  <2>4. {i \in 1 .. MaxPackets : Received(i - 1)} = {}
    BY <2>3, ConstantTypes DEF Received, Read
  <2> QED
    BY Zenon, <2>1, <2>2, <2>4 DEF Stream!Init
<1>2. ASSUME IInv, [Next]_vars PROVE [Stream!Next]_Stream!vars
  <2> DEFINE arrived == {i \in 1 .. MaxPackets : Received(i - 1)}
  <2>1. IInv' /\ (SenderMoves \/ ReceiverMoves)
    BY Zenon, <1>2, NextIInv
  <2>2. CASE SenderMoves
    <3>1. UNCHANGED <<unread, delivered>> /\ Acked' >= Acked /\ written' >= written
      BY Zenon, <2>2 DEF SenderMoves, receiverVars
    <3>2. \A i : Received(i)' <=> Received(i)
      BY Zenon, <3>1 DEF Received, Read, Reserved
    <3>3. arrived' = arrived
      BY Zenon, <3>2
    <3>4. ASSUME NEW i \in 1 .. Acked'
          PROVE  i \in arrived
      <4>1. Acked' \in Nat /\ Acked' <= MaxPackets
        BY <2>1, IInvBoundsPrimed DEF Bounds
      <4>2. i \in 1 .. MaxPackets /\ i - 1 \in 0 .. Acked' - 1
        <5>1. ASSUME NEW a \in Nat, a <= MaxPackets, NEW j \in 1 .. a
              PROVE  j \in 1 .. MaxPackets /\ j - 1 \in 0 .. a - 1
          BY <5>1, ConstantTypes
        <5> QED
          BY Zenon, <4>1, <5>1
      <4>3. Received(i - 1)'
        BY Zenon, <2>1, <4>2 DEF IInv, AckedIsReceived
      <4> QED
        BY Zenon, <3>2, <4>2, <4>3
    <3> QED
      BY Zenon, <3>1, <3>3, <3>4 DEF Stream!Next, Stream!Writer
  <2>3. CASE ReceiverMoves
    <3>1. UNCHANGED <<written, Acked>> /\ Len(delivered') >= Len(delivered)
          /\ \A i \in Nat : Received(i) => Received(i)'
      BY Zenon, <2>3 DEF ReceiverMoves, senderVars
    <3>2. arrived \subseteq arrived'
      BY <3>1, ConstantTypes
    <3>3. /\ Reserved' <= written' /\ Reserved' \in Nat /\ written' \in Nat
          /\ Len(delivered') \in Nat /\ Len(delivered') <= Reserved'
          /\ written' <= MaxPackets
      BY Zenon, <2>1, IInvBoundsPrimed DEF Bounds
    <3>4. \A i \in arrived' : i <= written
      BY <3>1, <3>3, ConstantTypes DEF Received, Read
    <3>5. \A i \in 1 .. Len(delivered') : delivered'[i] = i /\ i \in arrived'
      <4>1. \A i \in 1 .. Len(delivered') : delivered'[i] = i
        BY Zenon, <2>1 DEF IInv, InOrderDelivery
      <4>2. \A i \in 1 .. Len(delivered') : i \in 1 .. MaxPackets /\ i - 1 < Len(delivered')
        BY <3>3, ConstantTypes
      <4> QED
        BY Zenon, <4>1, <4>2 DEF Received, Read
    <3> QED
      BY Zenon, <3>1, <3>2, <3>4, <3>5 DEF Stream!Next, Stream!Reader
  <2> QED
    BY Zenon, <2>1, <2>2, <2>3
<1> QED
  BY <1>1, <1>2, Invariance, PTL DEF Spec, ImplementsStream, Stream!Spec
=============================================================================
