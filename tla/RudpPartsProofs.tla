-------------------------- MODULE RudpPartsProofs ---------------------------
(***************************************************************************)
(* Proofs about parts of an RUDP connection: the sliding window, the       *)
(* congestion control and the RudpConnection.                              *)
(***************************************************************************)
EXTENDS RudpSlidingWindow, RudpCongestionControl, RudpConnection, SequenceTheorems, TLAPS

-----------------------------------------------------------------------------
(* RudpSlidingWindow implements the map from sequence numbers to items,    *)
(* for every size of the number space and of the window.                   *)

\* Advance and Distance undo each other.
LEMMA DistanceAdvance ==
  ASSUME NEW m \in SeqNums, NEW n \in SeqNums
  PROVE  /\ Distance(m, n) \in 0 .. kMaxSequenceNumber
         /\ Advance(m, Distance(m, n)) = n
BY SequenceAssumption DEF SeqNums, Advance, Distance

\* IsInRange tells exactly the numbers that lie before the end, counted from
\* the beginning.
LEMMA InRangeIsDistance ==
  ASSUME NEW b \in SeqNums, NEW e \in SeqNums, NEW n \in SeqNums
  PROVE  IsInRange(b, e, n) <=> Distance(b, n) < Distance(b, e)
BY SequenceAssumption DEF SeqNums, IsInRange, Distance

LEMMA WindowTypes ==
  /\ kMaxSequenceNumber \in Nat
  /\ maximum_window_size \in Nat
  /\ default_window_size \in 0 .. maximum_window_size
  /\ maximum_window_size <= kMaxSequenceNumber
BY SequenceAssumption

\* The window's size never outgrows the number space.
WindowInv ==
  /\ WindowTypeOK
  /\ Len(items) = Distance(begin, end)
  /\ Len(items) <= maximum_window_size

\* Moving one end by one number.
LEMMA FollowingDistance ==
  ASSUME NEW b \in SeqNums, NEW e \in SeqNums
  PROVE  /\ Following(b) \in SeqNums
         /\ Distance(b, b) = 0
         /\ Distance(b, e) < kMaxSequenceNumber => Distance(b, Following(e)) = Distance(b, e) + 1
         /\ b # e => Distance(Following(b), e) = Distance(b, e) - 1
         /\ Distance(b, e) = 0 => b = e
BY WindowTypes DEF SeqNums, Following, Distance

\* operator[] counts from begin_.
LEMMA PlaceIsDistance ==
  ASSUME NEW b \in SeqNums, NEW e \in SeqNums, NEW n \in SeqNums, IsInRange(b, e, n)
  PROVE  SequenceNumberToIndex(b, e, n) = Distance(b, n)
BY WindowTypes DEF SeqNums, IsInRange, SequenceNumberToIndex, Distance

LEMMA WindowPlaces ==
  ASSUME WindowInv
  PROVE  /\ \A n \in SeqNums : Contains(n) <=> Distance(begin, n) < Len(items)
         /\ \A n \in SeqNums : Contains(n) => Place(n) = Distance(begin, n) + 1
         /\ \A n \in SeqNums : Distance(begin, n) \in Nat
         /\ begin \in SeqNums /\ end \in SeqNums
         /\ Len(items) \in Nat /\ items \in Seq(Values)
<1>1. begin \in SeqNums /\ end \in SeqNums /\ items \in Seq(Values) /\ Len(items) \in Nat
  BY DEF WindowInv, WindowTypeOK
<1>2. \A n \in SeqNums : Distance(begin, n) \in Nat
  BY <1>1, DistanceAdvance, WindowTypes
<1>3. \A n \in SeqNums : Contains(n) <=> Distance(begin, n) < Len(items)
  BY <1>1, InRangeIsDistance DEF WindowInv, Contains
<1>4. \A n \in SeqNums : Contains(n) => Place(n) = Distance(begin, n) + 1
  BY <1>1, PlaceIsDistance DEF Contains, Place
<1> QED
  BY <1>1, <1>2, <1>3, <1>4

LEMMA InitInv == WindowInit => WindowInv
<1> SUFFICES ASSUME WindowInit PROVE WindowInv
  OBVIOUS
<1>1. begin \in SeqNums /\ end = begin /\ items \in Seq(Values) /\ Len(items) = 0
  BY DEF WindowInit
<1> QED
  BY <1>1, FollowingDistance, WindowTypes DEF WindowInit, WindowInv, WindowTypeOK

LEMMA ResetInv ==
  ASSUME WindowInv, NEW n \in SeqNums, Reset(n)
  PROVE  WindowInv'
<1>1. items' \in Seq(Values) /\ Len(items') = 0
  BY DEF Reset
<1> QED
  BY <1>1, FollowingDistance, WindowTypes DEF Reset, WindowInv, WindowTypeOK

LEMMA AppendInv ==
  ASSUME WindowInv, AppendItem
  PROVE  WindowInv' /\ Len(items') = Len(items) + 1
<1>1. items' \in Seq(Values) /\ Len(items') = Len(items) + 1 /\ Len(items) \in Nat
  BY WindowAssumption DEF AppendItem, WindowInv, WindowTypeOK
<1>2. Len(items) < maximum_size /\ maximum_size \in Nat /\ maximum_size <= maximum_window_size
  BY <1>1, WindowTypes DEF AppendItem, IsFull, WindowInv, WindowTypeOK
<1>3. Distance(begin, end) < kMaxSequenceNumber
  BY <1>1, <1>2, WindowTypes DEF WindowInv
<1>4. Following(end) \in SeqNums /\ Distance(begin, Following(end)) = Distance(begin, end) + 1
  BY Zenon, <1>3, FollowingDistance DEF WindowInv, WindowTypeOK
<1>5. WindowTypeOK'
  BY <1>1, <1>4 DEF AppendItem, WindowInv, WindowTypeOK
<1>6. Len(items') = Distance(begin', end') /\ Len(items') <= maximum_window_size
  BY <1>1, <1>2, <1>4, WindowTypes DEF AppendItem, WindowInv
<1> QED
  BY <1>1, <1>5, <1>6 DEF WindowInv

LEMMA RemoveInv ==
  ASSUME WindowInv, Remove
  PROVE  /\ WindowInv'
         /\ begin # end
         /\ Len(items') = Len(items) - 1
         /\ \A i \in 1 .. Len(items) - 1 : items'[i] = items[i + 1]
<1>1. /\ items \in Seq(Values) /\ items # <<>> /\ items' = Tail(items)
      /\ Len(items) \in Nat /\ begin \in SeqNums /\ end \in SeqNums
  BY DEF Remove, IsEmpty, WindowInv, WindowTypeOK
<1>2. /\ items' \in Seq(Values) /\ Len(items') = Len(items) - 1 /\ Len(items) # 0
      /\ \A i \in 1 .. Len(items) - 1 : items'[i] = items[i + 1]
  BY <1>1, HeadTailProperties
<1>3. begin # end
  BY Zenon, <1>1, <1>2, FollowingDistance DEF WindowInv
<1>4. Following(begin) \in SeqNums /\ Distance(Following(begin), end) = Distance(begin, end) - 1
  BY Zenon, <1>1, <1>3, FollowingDistance
<1>5. WindowTypeOK'
  BY Zenon, <1>2, <1>4 DEF Remove, WindowInv, WindowTypeOK
<1>6. Len(items') = Distance(begin', end') /\ Len(items') <= maximum_window_size
  BY <1>1, <1>2, <1>4, WindowTypes DEF Remove, WindowInv
<1> QED
  BY Zenon, <1>2, <1>3, <1>5, <1>6 DEF WindowInv

LEMMA WriteInv ==
  ASSUME WindowInv, NEW n \in SeqNums, NEW v \in Values, Write(n, v)
  PROVE  /\ WindowInv' /\ Place(n) \in 1 .. Len(items) /\ Len(items') = Len(items)
         /\ \A i \in 1 .. Len(items) : items'[i] = IF i = Place(n) THEN v ELSE items[i]
<1>1. Place(n) \in 1 .. Len(items)
  BY WindowPlaces DEF Write
<1>2. /\ items' \in Seq(Values) /\ Len(items') = Len(items)
      /\ \A i \in 1 .. Len(items) : items'[i] = IF i = Place(n) THEN v ELSE items[i]
  BY <1>1, ExceptSeq DEF Write, WindowInv, WindowTypeOK
<1> QED
  BY <1>1, <1>2 DEF Write, WindowInv, WindowTypeOK

LEMMA NextInv ==
  ASSUME WindowInv, [WindowNext]_windowVars
  PROVE  WindowInv'
<1>1. CASE UNCHANGED windowVars
  BY <1>1 DEF windowVars, WindowInv, WindowTypeOK
<1>2. ASSUME NEW size \in 0 .. maximum_window_size + 1, SetMaximumSize(size)
      PROVE  WindowInv'
  BY <1>2, WindowTypes DEF SetMaximumSize, WindowInv, WindowTypeOK
<1> QED
  BY Zenon, <1>1, <1>2, ResetInv, AppendInv, RemoveInv, WriteInv DEF WindowNext

\* The inductive invariant holds in every reachable state.
THEOREM WindowInvariance == WindowSpec => []WindowInv
<1>1. WindowInv /\ [WindowNext]_windowVars => WindowInv'
  BY NextInv
<1> QED
  BY <1>1, InitInv, PTL DEF WindowSpec

\* The deque and the two sequence numbers agree, for windows and number spaces
\* of every size: operator[] stays inside the deque and is one to one.
THEOREM WindowAligned == WindowSpec => []Aligned
<1>1. WindowInv => Aligned
  <2> SUFFICES ASSUME WindowInv PROVE Aligned
    OBVIOUS
  <2>1. \A n \in SeqNums : Contains(n) => Place(n) \in 1 .. Len(items)
    BY WindowPlaces
  <2>2. ASSUME NEW m \in SeqNums, NEW n \in SeqNums,
               Contains(m), Contains(n), Place(m) = Place(n)
        PROVE  m = n
    <3>1. Distance(begin, m) = Distance(begin, n)
      BY <2>2, WindowPlaces
    <3> QED
      BY Zenon, <3>1, WindowPlaces, DistanceAdvance
  <2> QED
    BY <2>1, <2>2 DEF WindowInv, Aligned
<1> QED
  BY <1>1, WindowInvariance, PTL

-----------------------------------------------------------------------------
(* Refinement of the map.                                                  *)

Held == {m \in SeqNums : Contains(m)}

\* What a state of the window shows as a map.
Shown ==
  /\ Slots = [n \in Held |-> items[Distance(begin, n) + 1]]
  /\ Held = {n \in SeqNums : Distance(begin, n) < Len(items)}

EmptyShown == Len(items) = 0 => Slots = [n \in {} |-> Blank]

LEMMA SlotsShown == WindowInv => Shown
BY Zenon, WindowPlaces DEF Slots, Held, Shown

LEMMA EmptySlots == WindowInv => EmptyShown
<1> SUFFICES ASSUME WindowInv, Len(items) = 0 PROVE Slots = [n \in {} |-> Blank]
  BY DEF EmptyShown
<1>1. Held = {}
  BY SlotsShown, WindowPlaces DEF Shown
<1> QED
  BY Zenon, <1>1, SlotsShown DEF Shown

\* The same for the state after a step.
LEMMA ShownNext == WindowInv' => Shown' /\ EmptyShown'
BY SlotsShown, EmptySlots, PTL

LEMMA SlotsValues ==
  ASSUME WindowInv
  PROVE  /\ Slots = [n \in Held |-> items[Distance(begin, n) + 1]]
         /\ Held = {n \in SeqNums : Distance(begin, n) < Len(items)}
BY SlotsShown DEF Shown

LEMMA SlotsValuesNext ==
  ASSUME WindowInv'
  PROVE  /\ Slots' = [n \in Held' |-> items'[Distance(begin', n) + 1]]
         /\ Held' = {n \in SeqNums : Distance(begin', n) < Len(items')}
BY ShownNext DEF Shown

LEMMA ResetMaps ==
  ASSUME WindowInv, NEW n \in SeqNums, Reset(n)
  PROVE  Map!Reset
<1>1. WindowInv' /\ Len(items') = 0
  BY ResetInv DEF Reset
<1>2. Slots' = [m \in {} |-> Blank]
  BY <1>1, ShownNext DEF EmptyShown
<1> QED
  BY <1>1, <1>2 DEF Reset, Map!Reset, Map!SeqNums, SeqNums

LEMMA AppendMaps ==
  ASSUME WindowInv, AppendItem
  PROVE  Map!Append
<1>1. WindowInv' /\ Len(items') = Len(items) + 1
  BY AppendInv
<1>2. /\ begin' = begin /\ end' = Following(end) /\ items' = Append(items, Blank)
      /\ begin \in SeqNums /\ end \in SeqNums /\ Len(items) \in Nat
      /\ items \in Seq(Values) /\ Len(items) = Distance(begin, end)
  BY DEF AppendItem, WindowInv, WindowTypeOK
<1>3. \A n \in SeqNums : Distance(begin, n) \in Nat
                         /\ (Distance(begin, n) = Len(items) <=> n = end)
  BY <1>2, WindowPlaces, DistanceAdvance
<1>4. \A n \in SeqNums : n \in Held' <=> n \in Held \/ n = end
  BY <1>1, <1>2, <1>3, SlotsValues, SlotsValuesNext
<1>5. Held' = Held \cup {end} /\ end \notin Held
  BY <1>1, <1>2, <1>3, <1>4, SlotsValues, SlotsValuesNext DEF Held
<1>6. \A i \in 1 .. Len(items) + 1 : items'[i] = IF i = Len(items) + 1 THEN Blank ELSE items[i]
  BY <1>2, WindowAssumption
<1>7. \A n \in Held' : Slots'[n] = IF n = end THEN Blank ELSE Slots[n]
  <2> SUFFICES ASSUME NEW n \in Held' PROVE Slots'[n] = IF n = end THEN Blank ELSE Slots[n]
    OBVIOUS
  <2>1. n \in SeqNums /\ Slots'[n] = items'[Distance(begin, n) + 1]
    BY Zenon, <1>1, <1>2, SlotsValuesNext
  <2>2. CASE n = end
    BY <2>1, <2>2, <1>2, <1>6
  <2>3. CASE n # end
    <3>1. n \in Held /\ Distance(begin, n) < Len(items) /\ Distance(begin, n) \in Nat
      BY Zenon, <2>1, <2>3, <1>3, <1>5, SlotsValues
    <3>2. Slots[n] = items[Distance(begin, n) + 1]
      BY Zenon, <3>1, SlotsValues
    <3>3. items'[Distance(begin, n) + 1] = items[Distance(begin, n) + 1]
      BY <3>1, <1>2, <1>6
    <3> QED
      BY Zenon, <2>1, <2>3, <3>2, <3>3
  <2> QED
    BY Zenon, <2>2, <2>3
<1>8. DOMAIN Slots = Held /\ Slots' = [n \in Held' |-> Slots'[n]]
  BY Zenon, <1>1, SlotsValues, SlotsValuesNext
<1> QED
  BY <1>2, <1>5, <1>7, <1>8 DEF Map!Append, Map!Following, Following

LEMMA RemoveMaps ==
  ASSUME WindowInv, Remove
  PROVE  Map!Remove
<1>1. /\ WindowInv' /\ begin # end /\ Len(items') = Len(items) - 1
      /\ \A i \in 1 .. Len(items) - 1 : items'[i] = items[i + 1]
  BY RemoveInv
<1>2. /\ begin' = Following(begin) /\ end' = end
      /\ begin \in SeqNums /\ end \in SeqNums /\ Len(items) \in Nat
  BY DEF Remove, WindowInv, WindowTypeOK
<1>3. \A n \in SeqNums : n # begin => Distance(begin', n) = Distance(begin, n) - 1
  BY Zenon, <1>2, FollowingDistance
<1>4. \A n \in SeqNums : Distance(begin, n) \in Nat /\ (Distance(begin, n) = 0 <=> n = begin)
  BY <1>2, WindowPlaces, FollowingDistance
<1>5. /\ Len(items') \in Nat /\ Distance(begin', begin) \in Nat
      /\ Distance(begin', begin) >= Len(items')
  <2>1. Distance(Following(begin), begin) = kMaxSequenceNumber
    BY <1>2, WindowTypes DEF SeqNums, Distance, Following
  <2>2. Len(items') \in Nat /\ Len(items') <= maximum_window_size
    BY <1>1 DEF WindowInv, WindowTypeOK
  <2> QED
    BY <2>1, <2>2, <1>2, WindowTypes
<1>6. \A n \in SeqNums : n \in Held' <=> n \in Held /\ n # begin
  <2> SUFFICES ASSUME NEW n \in SeqNums PROVE n \in Held' <=> n \in Held /\ n # begin
    OBVIOUS
  <2>1. CASE n = begin
    <3>1. n \in Held' <=> Distance(begin', begin) < Len(items')
      BY Zenon, <1>1, <2>1, SlotsValuesNext
    <3> QED
      BY <1>5, <2>1, <3>1
  <2>2. CASE n # begin
    BY <2>2, <1>1, <1>2, <1>3, <1>4, SlotsValues, SlotsValuesNext
  <2> QED
    BY <2>1, <2>2
<1>7. Held' = Held \ {begin} /\ begin \in Held
  <2>1. Distance(begin, begin) = 0 /\ Len(items) # 0
    BY <1>1, <1>2, FollowingDistance DEF WindowInv
  <2>2. begin \in Held
    BY <2>1, <1>2, SlotsValues
  <2> QED
    BY Zenon, <1>1, <1>6, <2>2, SlotsValues, SlotsValuesNext
<1>8. \A n \in Held' : Slots'[n] = Slots[n]
  <2> SUFFICES ASSUME NEW n \in Held' PROVE Slots'[n] = Slots[n]
    OBVIOUS
  <2>1. n \in SeqNums /\ n \in Held /\ n # begin
    BY Zenon, <1>7, SlotsValues
  <2>2. Distance(begin', n) = Distance(begin, n) - 1
    BY Zenon, <2>1, <1>3
  <2>3. Distance(begin, n) \in 1 .. Len(items) - 1
    BY <2>1, <1>2, <1>4, SlotsValues
  <2>4. items'[Distance(begin, n)] = items[Distance(begin, n) + 1]
    BY <2>3, <1>1
  <2>5. Slots[n] = items[Distance(begin, n) + 1]
    BY Zenon, <2>1, SlotsValues
  <2>6. Slots'[n] = items'[Distance(begin', n) + 1]
    BY Zenon, <1>1, SlotsValuesNext
  <2>7. Distance(begin', n) + 1 = Distance(begin, n)
    BY <2>2, <2>3, <1>2
  <2> QED
    BY Zenon, <2>4, <2>5, <2>6, <2>7
<1>9. DOMAIN Slots = Held /\ Slots' = [n \in Held' |-> Slots'[n]]
  BY Zenon, <1>1, SlotsValues, SlotsValuesNext
<1> QED
  BY Zenon, <1>2, <1>7, <1>8, <1>9 DEF Map!Remove, Map!Following, Following

LEMMA WriteMaps ==
  ASSUME WindowInv, NEW n \in SeqNums, NEW v \in Values, Write(n, v)
  PROVE  Map!Write
<1>1. /\ WindowInv' /\ Place(n) \in 1 .. Len(items) /\ Len(items') = Len(items)
      /\ \A i \in 1 .. Len(items) : items'[i] = IF i = Place(n) THEN v ELSE items[i]
  BY Zenon, WriteInv
<1>2. begin' = begin /\ end' = end /\ n \in Held
  BY Zenon DEF Write, Held
<1>3. Held' = Held
  BY Zenon, <1>1, <1>2, SlotsValues, SlotsValuesNext
<1>4. \A m \in Held : Slots'[m] = IF m = n THEN v ELSE Slots[m]
  <2> SUFFICES ASSUME NEW m \in Held PROVE Slots'[m] = IF m = n THEN v ELSE Slots[m]
    OBVIOUS
  <2>1. m \in SeqNums /\ Contains(m) /\ Contains(n)
    BY Zenon, <1>2 DEF Held
  <2>2. /\ Place(m) = Distance(begin, m) + 1 /\ Place(m) \in 1 .. Len(items)
        /\ Place(n) = Distance(begin, n) + 1
        /\ Distance(begin, m) \in Nat /\ Distance(begin, n) \in Nat
        /\ begin \in SeqNums
    BY <2>1, WindowPlaces
  <2>3. Place(m) = Place(n) => m = n
    BY <2>1, <2>2, DistanceAdvance
  <2>4. Slots'[m] = items'[Place(m)] /\ Slots[m] = items[Place(m)]
    BY Zenon, <1>1, <1>2, <1>3, <2>2, SlotsValues, SlotsValuesNext
  <2>5. items'[Place(m)] = IF Place(m) = Place(n) THEN v ELSE items[Place(m)]
    BY Zenon, <1>1, <2>2
  <2> QED
    BY Zenon, <2>3, <2>4, <2>5
<1>5. DOMAIN Slots = Held /\ Slots = [m \in Held |-> Slots[m]]
      /\ Slots' = [m \in Held |-> Slots'[m]]
  BY Zenon, <1>1, <1>3, SlotsValues, SlotsValuesNext
<1>6. Slots' = [Slots EXCEPT ![n] = v]
  BY Zenon, <1>2, <1>4, <1>5
<1> QED
  BY Zenon, <1>2, <1>5, <1>6 DEF Map!Write

\* The class RudpSlidingWindow implements the map from sequence numbers to
\* items that the sender and the receiver use.
THEOREM WindowRefinement == WindowSpec => ImplementsMap
<1>1. WindowInit => Map!Init
  <2> SUFFICES ASSUME WindowInit PROVE Map!Init
    OBVIOUS
  <2>1. WindowInv /\ Len(items) = 0
    BY Zenon, InitInv DEF WindowInit
  <2> QED
    BY Zenon, <2>1, EmptySlots DEF WindowInit, Map!Init, EmptyShown, SeqNums, Map!SeqNums
<1>2. WindowInv /\ [WindowNext]_windowVars => [Map!Next]_(Map!vars)
  <2> SUFFICES ASSUME WindowInv, [WindowNext]_windowVars PROVE [Map!Next]_(Map!vars)
    BY Zenon
  <2>1. ASSUME items' = items, begin' = begin, end' = end
        PROVE  UNCHANGED Map!vars
    BY Zenon, <2>1 DEF Map!vars, Slots, Contains, Place
  <2>2. CASE UNCHANGED windowVars
    BY Zenon, <2>1, <2>2 DEF windowVars
  <2>3. ASSUME NEW size \in 0 .. maximum_window_size + 1, SetMaximumSize(size)
        PROVE  UNCHANGED Map!vars
    BY Zenon, <2>1, <2>3 DEF SetMaximumSize
  <2> QED
    BY Zenon, <2>2, <2>3, ResetMaps, AppendMaps, RemoveMaps, WriteMaps DEF WindowNext, Map!Next
<1> QED
  BY <1>1, <1>2, WindowInvariance, PTL DEF WindowSpec, ImplementsMap, Map!Spec

-----------------------------------------------------------------------------
(* The sizes and the round trip time of RudpCongestionControl, for all     *)
(* sizes, buffers and round trip times.                                    *)

\* A size that shrinks by a tenth or grows by a half stays between its bounds.
LEMMA DataSizeStays ==
  ASSUME SizesInBounds PROVE SendDataSize \in DefaultData..MaxData
<1> USE SizesAssumption
<1> DEFINE d == send_data_size_
<1>1. d \in Nat /\ DefaultData <= d /\ d <= MaxData
  BY DEF SizesInBounds
<1>2. (9 * d) \div 10 \in Nat /\ (9 * d) \div 10 <= d
  BY <1>1
<1>3. (3 * d) \div 2 \in Nat /\ d <= (3 * d) \div 2
  BY <1>1
<1>4. Greater(DefaultData, (9 * d) \div 10) \in DefaultData..MaxData
  BY <1>1, <1>2 DEF Greater
<1>5. Lesser(MaxData, (3 * d) \div 2) \in DefaultData..MaxData
  BY <1>1, <1>3 DEF Lesser
<1>. QED
  BY Zenon, <1>4, <1>5 DEF SendDataSize

\* The same for the window, whatever room the peer reports.
LEMMA WindowStays ==
  ASSUME SizesInBounds, NEW b \in Nat, NEW s
  PROVE  SendWindowSize(b, s) \in DefaultWindow..MaximumWindow
<1> USE SizesAssumption
<1> DEFINE w == send_window_size_
           q == (b + 1) \div MaxData
<1>1. w \in Nat /\ DefaultWindow <= w /\ w <= MaximumWindow
  BY DEF SizesInBounds
<1>2. q \in Nat
  OBVIOUS
<1>3. (9 * w) \div 10 \in Nat /\ (9 * w) \div 10 <= w
  BY <1>1
<1>4. Lesser(MaximumWindow, w + q) \in DefaultWindow..MaximumWindow
  <2> HIDE DEF q
  <2>. QED BY <1>1, <1>2 DEF Lesser
<1>5. Greater(DefaultWindow, (9 * w) \div 10) \in DefaultWindow..MaximumWindow
  BY <1>1, <1>3 DEF Greater
<1>. QED
  BY Zenon, <1>4, <1>5 DEF SendWindowSize

\* The send window and the size of a packet's data stay between their default and their
\* maximum in every order of acks, losses and reported buffer sizes.
THEOREM SizesStayInBounds == Spec => []SizesInBounds
<1>1. Init => SizesInBounds
  BY SizesAssumption DEF Init, SizesInBounds
<1>2. SizesInBounds /\ [Next]_vars => SizesInBounds'
  <2>. SUFFICES ASSUME SizesInBounds, [Next]_vars PROVE SizesInBounds'
    OBVIOUS
  <2>1. CASE OnAnyAck
    <3>1. PICK rtt, variance \in Rtts, b \in Buffers, rate, capacity \in Rates :
            OnAck(rtt, variance, b, rate, capacity)
      BY Zenon, <2>1 DEF OnAnyAck
    <3>2. b \in Nat
      BY Zenon, SizesAssumption
    <3>3. /\ send_data_size_' = SendDataSize
          /\ send_window_size_' = SendWindowSize(b, send_data_size_')
      BY Zenon, <3>1 DEF OnAck
    <3>. QED
      BY Zenon, <3>2, <3>3, DataSizeStays, WindowStays DEF SizesInBounds
  <2>2. CASE UNCHANGED sizeVars
    BY Zenon, <2>2 DEF SizesInBounds, sizeVars
  <2>3. [Next]_vars => OnAnyAck \/ UNCHANGED sizeVars
    BY DEF Next, vars, OnOpen, OnClose, OnGenerateAck, OnNegativeAck, OnSendTimeout,
           OnDataPacketReceived, OnAckOfAck, IsSlowTransmission
  <2>. QED
    BY Zenon, <2>1, <2>2, <2>3
<1>. QED
  BY <1>1, <1>2, PTL DEF Spec

-----------------------------------------------------------------------------
\* A number that is small enough is its own remainder.
LEMMA SmallRemainder ==
  ASSUME NEW w \in Nat \ {0}, NEW x \in 0..(w - 1) PROVE x % w = x
  OBVIOUS

\* A weighted mean lies between the two values, and its sum does not wrap.
LEMMA AverageBetween ==
  ASSUME NEW old \in Nat, NEW new \in Nat, 8 * old < Word, 8 * new < Word
  PROVE  /\ Average(old, new, 7) \in Nat
         /\ 8 * Average(old, new, 7) < Word
         /\ Average(old, new, 7) \in (Lesser(new, old) - 1)..Greater(new, old)
<1> USE RttAssumption
<1>0. 7 * old \in 0..(Word - 1) /\ 7 * old + new \in 0..(Word - 1)
  OBVIOUS
<1>1. (7 * old) % Word = 7 * old
  BY Zenon, SmallRemainder, <1>0
<1>2. (7 * old + new) % Word = 7 * old + new
  BY Zenon, SmallRemainder, <1>0
<1>3. Average(old, new, 7) = (7 * old + new) \div 8
  BY <1>1, <1>2 DEF Average
<1>4. PICK a \in Nat : a = (7 * old + new) \div 8 /\ 8 * a <= 7 * old + new /\ 7 * old + new < 8 * a + 8
  OBVIOUS
<1>. QED
  BY <1>3, <1>4 DEF Lesser, Greater

\* The estimate is one that eight fold fits into 32 bits: so the sum that OnAckOfAck
\* forms does not wrap.
RttInv == round_trip_time_ \in Nat /\ 8 * round_trip_time_ < Word

\* The estimate of the round trip time stays within 32 bits, and each ack of an ack moves
\* it towards the new value and not past it, if no round trip takes an eighth of the 32
\* bits of microseconds (nine minutes).
THEOREM RttStaysBetween == Spec => RttBetween
<1>1. Init => RttInv
  BY RttAssumption DEF Init, RttInv
<1>2. ASSUME RttInv, NEW rtt \in Rtts, OnAckOfAck(rtt)
      PROVE  /\ RttInv'
             /\ round_trip_time_' \in (Lesser(rtt, round_trip_time_) - 1)..Greater(rtt, round_trip_time_)
  <2>1. rtt \in Nat /\ 8 * rtt < Word
    BY RttAssumption
  <2>2. round_trip_time_' = Average(round_trip_time_, rtt, 7)
    BY Zenon, <1>2 DEF OnAckOfAck
  <2>. QED
    BY Zenon, <1>2, <2>1, <2>2, AverageBetween DEF RttInv
<1>3. RttInv /\ [Next]_vars => RttInv'
  <2>. SUFFICES ASSUME RttInv, [Next]_vars PROVE RttInv'
    OBVIOUS
  <2>1. CASE OnAnyAck
    <3>1. PICK rtt \in Rtts : round_trip_time_' = rtt
      BY Zenon, <2>1 DEF OnAnyAck, OnAck
    <3>. QED
      BY Zenon, <3>1, RttAssumption DEF RttInv
  <2>2. CASE \E rtt \in Rtts : OnAckOfAck(rtt)
    BY Zenon, <1>2, <2>2
  <2>3. CASE UNCHANGED rttVars
    BY Zenon, <2>3 DEF RttInv, rttVars
  <2>4. [Next]_vars => OnAnyAck \/ (\E rtt \in Rtts : OnAckOfAck(rtt)) \/ UNCHANGED rttVars
    BY Zenon DEF Next, vars, OnOpen, OnClose, OnGenerateAck, OnNegativeAck, OnSendTimeout,
           OnDataPacketReceived, IsSlowTransmission
  <2>. QED
    BY Zenon, <2>1, <2>2, <2>3, <2>4
<1>4. RttInv /\ [Next]_vars =>
        [\A rtt \in Rtts : OnAckOfAck(rtt) =>
           round_trip_time_' \in (Lesser(rtt, round_trip_time_) - 1)..Greater(rtt, round_trip_time_)]_vars
  BY Zenon, <1>2
<1>. QED
  BY <1>1, <1>3, <1>4, PTL DEF Spec, RttBetween

-----------------------------------------------------------------------------
(* RudpConnection, for all bounds.  Each member function is shown to keep  *)
(* the invariant, then each handler that calls it.                         *)

\* The fields of a connection; TypeOK bounds remaining and errors further.
Connections ==
  [role : {"server", "client", "simple"}, started : BOOLEAN,
   attached : BOOLEAN, orphan : BOOLEAN,
   timeout_state : {"none", "sending", "receiving"},
   timer : {"running", "expired", "infinite"},
   check : {"idle", "waiting", "posted"},
   sock : {"closed", "opening", "connected"},
   op : [Ops -> {"idle", "pending", "posted"}],
   aborted : [Ops -> BOOLEAN], clean : BOOLEAN,
   remaining : Int,
   dispatch : {"none", "posted", "close", "write"},
   immediate : BOOLEAN, reads : 0 .. MaxSocketReads, progress : 0 .. MaxProgress,
   errors : Nat, messages : Nat, called : BOOLEAN]

\* The states of timer_.
Timers == {"running", "expired", "infinite"}

\* The operations that follow one another: all but the flush.
Chain == {"connect", "write", "size", "data"}

\* The least that data_size_ - data_received_ can be once so many reads are
\* left.
Least(n) == -MaxSize * (MaxSocketReads - n)

\* One thing at a time: a connection has at most one operation of the chain or
\* a dispatch outstanding, none before it was started, and signals one error at
\* most, detaching as it does.
Safe(c) ==
  /\ c.attached => c.errors = 0
  /\ c.errors <= 1
  /\ ~c.started => c.sock = "closed" /\ c.dispatch = "none" /\ \A o \in Chain : c.op[o] = "idle"
  /\ c.sock = "opening" => c.op["connect"] = "pending"
  /\ \A o \in Chain : c.op[o] # "idle" =>
       c.dispatch = "none" /\ \A q \in Chain : c.op[q] # "idle" => q = o

\* The timer of an open socket is infinite only while DispatchMessage waits for
\* the application.
Timed(c) == c.sock # "closed" /\ c.timer = "infinite" => c.dispatch # "none" /\ c.attached

\* A handler of the chain is running: nothing of the chain is outstanding.
Free(c) == c.dispatch = "none" /\ \A o \in Chain : c.op[o] = "idle"

\* What the application hears of a connection that has detached: nothing.
Quiet(c, d) ==
  ~c.attached => d.errors = c.errors /\ d.messages = c.messages /\ ~d.attached

\* data_size_ - data_received_ is bounded by the reads that were done; a
\* handler of a read is posted only if the read was counted.
Bounded(c) ==
  /\ Least(c.reads) <= c.remaining /\ c.remaining <= MaxSize
  /\ c.sock # "closed" =>
       /\ c.op["size"] = "posted" => c.reads < MaxSocketReads
       /\ c.op["data"] = "posted" => c.reads < MaxSocketReads /\ Least(c.reads + 1) <= c.remaining

\* The part of the invariant that does not depend on the timers.
Sound(c) == c \in Connections /\ Safe(c) /\ Bounded(c)

\* An open socket has a CheckTimeout waiting or posted.
Watching(c) == c.sock # "closed" => c.check # "idle"

\* Each read lowers the bound on what HandleReadData leaves by a message at
\* most.
LEMMA LeastSteps ==
  ASSUME ConnectionAssumption
  PROVE  \A r \in 0 .. MaxSocketReads :
           /\ Least(r) \in Int /\ Least(r) <= 0
           /\ -MaxSize * MaxSocketReads - MaxSize <= Least(r)
           /\ r < MaxSocketReads => Least(r + 1) \in Int /\ Least(r) = Least(r + 1) - MaxSize
                              /\ Least(r + 1) <= 0
<1> SUFFICES ASSUME NEW r \in 0 .. MaxSocketReads
             PROVE  /\ Least(r) \in Int /\ Least(r) <= 0
                    /\ -MaxSize * MaxSocketReads - MaxSize <= Least(r)
                    /\ r < MaxSocketReads => Least(r + 1) \in Int /\ Least(r) = Least(r + 1) - MaxSize
                                       /\ Least(r + 1) <= 0
  OBVIOUS
<1> USE DEF Least, ConnectionAssumption
<1> DEFINE k == MaxSocketReads - r
<1>1. k \in Nat /\ k <= MaxSocketReads /\ MaxSize \in Nat /\ MaxSocketReads \in Nat
  OBVIOUS
<1>2. MaxSize * k \in Nat /\ MaxSize * k <= MaxSize * MaxSocketReads
  BY <1>1
<1>3. r < MaxSocketReads => k - 1 \in Nat /\ MaxSize * (k - 1) \in Nat /\ MaxSize * k = MaxSize * (k - 1) + MaxSize
  BY <1>1
<1>4. r < MaxSocketReads => MaxSocketReads - (r + 1) = k - 1
  BY <1>1
<1> QED BY <1>1, <1>2, <1>3, <1>4

-----------------------------------------------------------------------------
(* Types.                                                                  *)

\* Setting timer_ keeps the types.
LEMMA SetTimerType ==
  ASSUME NEW c \in Connections, NEW t \in Timers
  PROVE  SetTimer(c, t) \in Connections
BY ZenonT(60) DEF Connections, SetTimer, Timers

\* Starting or finishing an operation keeps the types.
LEMMA OpType ==
  ASSUME NEW c \in Connections, NEW o \in Ops, NEW s \in {"idle", "pending", "posted"}
  PROVE  [c EXCEPT !.op[o] = s] \in Connections
<1>1. [c.op EXCEPT ![o] = s] \in [Ops -> {"idle", "pending", "posted"}]
  BY DEF Connections
<1>. QED BY <1>1 DEF Connections

\* An operation that completes at once keeps the types.
LEMMA CompleteType ==
  ASSUME NEW c \in Connections, NEW o \in Ops
  PROVE  Complete(c, o) \in Connections
<1>1. [c.op EXCEPT ![o] = "posted"] \in [Ops -> {"idle", "pending", "posted"}]
  BY Zenon DEF Connections
<1>2. [c.aborted EXCEPT ![o] = FALSE] \in [Ops -> BOOLEAN]
  BY DEF Connections
<1>. QED BY Zenon, <1>1, <1>2 DEF Connections, Complete

\* socket_.Close, which aborts all operations, keeps the types.
LEMMA SocketCloseType ==
  ASSUME NEW c \in Connections
  PROVE  SocketClose(c) \in Connections
<1>1. [o \in Ops |-> IF c.op[o] = "pending" THEN "posted" ELSE c.op[o]]
        \in [Ops -> {"idle", "pending", "posted"}]
  BY DEF Connections
<1>2. [o \in Ops |-> TRUE] \in [Ops -> BOOLEAN]
  OBVIOUS
<1>. QED BY ZenonT(60), <1>1, <1>2 DEF Connections, SocketClose

\* DoClose keeps the types.
LEMMA DoCloseType ==
  ASSUME NEW c \in Connections
  PROVE  DoClose(c) \in Connections
<1>1. [c EXCEPT !.attached = FALSE] \in Connections
  BY Zenon DEF Connections
<1>2. AsyncFlush([c EXCEPT !.attached = FALSE]) \in Connections
  BY Zenon, <1>1, CompleteType, OpType DEF AsyncFlush, Ops
<1>3. c.timer \in Timers
  BY DEF Connections, Timers
<1>. QED BY <1>2, <1>3, SocketCloseType, SetTimerType DEF DoClose, Timers

\* CloseOnError keeps the types.
LEMMA CloseOnErrorType ==
  ASSUME NEW c \in Connections
  PROVE  CloseOnError(c) \in Connections
<1>1. [c EXCEPT !.errors = IF c.attached THEN @ + 1 ELSE @] \in Connections
  BY DEF Connections
<1>. QED BY Zenon, <1>1, DoCloseType DEF CloseOnError

-----------------------------------------------------------------------------
(* The members keep the invariant.                                         *)

\* DoClose keeps the invariant and signals nothing; the connection has
\* detached.
LEMMA DoCloseKeeps ==
  ASSUME NEW c, Sound(c)
  PROVE  /\ Sound(DoClose(c)) /\ Timed(DoClose(c)) /\ Quiet(c, DoClose(c))
         /\ Watching(c) => Watching(DoClose(c))
         /\ DoClose(c).sock \in {c.sock, "closed"}
         /\ ~DoClose(c).attached
<1> USE DEF Sound
<1>1. DoClose(c) \in Connections
  BY Zenon, DoCloseType
<1>2. Safe(DoClose(c))
  BY DEF Connections, Safe, DoClose, SetTimer, SocketClose, AsyncFlush, Complete, Ops, Chain
<1>3. Bounded(DoClose(c))
  BY Zenon DEF Connections, Bounded, DoClose, SetTimer, SocketClose, AsyncFlush, Complete, Ops
<1>4. /\ Timed(DoClose(c)) /\ Quiet(c, DoClose(c))
      /\ Watching(c) => Watching(DoClose(c))
  BY DEF Connections, Timed, Quiet, Watching, DoClose, SetTimer, SocketClose, AsyncFlush, Complete
<1>5. DoClose(c).sock \in {c.sock, "closed"} /\ ~DoClose(c).attached
  BY Zenon DEF Connections, DoClose, SetTimer, SocketClose, AsyncFlush, Complete
<1>. QED BY Zenon, <1>1, <1>2, <1>3, <1>4, <1>5

\* CloseOnError keeps the invariant: it signals an error only on a connection
\* that is attached, which has signalled none, and detaches it.
LEMMA CloseOnErrorKeeps ==
  ASSUME NEW c, Sound(c)
  PROVE  /\ Sound(CloseOnError(c)) /\ Timed(CloseOnError(c)) /\ Quiet(c, CloseOnError(c))
         /\ Watching(c) => Watching(CloseOnError(c))
         /\ CloseOnError(c).sock \in {c.sock, "closed"}
         /\ CloseOnError(c).dispatch = c.dispatch
         /\ ~CloseOnError(c).attached
<1> USE DEF Sound
<1>1. CloseOnError(c) \in Connections
  BY CloseOnErrorType
<1>2. Safe(CloseOnError(c))
  <2> DEFINE e == CloseOnError(c)
  <2>1. /\ ~e.attached /\ e.started = c.started /\ e.dispatch = c.dispatch
        /\ e.sock \in {c.sock, "closed"}
        /\ e.errors = IF c.attached THEN c.errors + 1 ELSE c.errors
    BY Zenon DEF Connections, CloseOnError, DoClose, SetTimer, SocketClose, AsyncFlush, Complete
  <2>2. \A o \in Chain : \/ e.op[o] = c.op[o]
                         \/ e.sock = "closed" /\ (e.op[o] = "idle" <=> c.op[o] = "idle")
    BY DEF Connections, CloseOnError, DoClose, SetTimer, SocketClose, AsyncFlush, Complete, Ops,
       Chain
  <2>3. e.sock = "opening" => e.op["connect"] = c.op["connect"]
    BY Zenon, <2>2 DEF Chain
  <2> HIDE DEF e
  <2>4. e.errors <= 1
    BY <2>1 DEF Safe, Connections
  <2>. QED BY Zenon, <2>1, <2>2, <2>3, <2>4 DEF Safe, e
<1>3. Bounded(CloseOnError(c))
  BY DEF Connections, Bounded, CloseOnError, DoClose, SetTimer, SocketClose, AsyncFlush,
     Complete, Ops
<1>4. /\ Timed(CloseOnError(c)) /\ Quiet(c, CloseOnError(c))
      /\ Watching(c) => Watching(CloseOnError(c))
  BY DEF Connections, Timed, Quiet, Watching, CloseOnError, DoClose, SetTimer, SocketClose,
     AsyncFlush, Complete
<1>5. /\ CloseOnError(c).sock \in {c.sock, "closed"} /\ CloseOnError(c).dispatch = c.dispatch
      /\ ~CloseOnError(c).attached
  BY Zenon DEF Connections, CloseOnError, DoClose, SetTimer, SocketClose, AsyncFlush, Complete
<1>. QED BY Zenon, <1>1, <1>2, <1>3, <1>4, <1>5

\* CheckTimeout waits again unless the socket has been closed.
LEMMA CheckTimeoutKeeps ==
  ASSUME NEW c, Sound(c), Timed(c)
  PROVE  /\ Sound(CheckTimeout(c)) /\ Timed(CheckTimeout(c)) /\ Quiet(c, CheckTimeout(c))
         /\ Watching(CheckTimeout(c))
<1> DEFINE d == IF c.timer = "expired" THEN CloseOnError(c) ELSE c
<1>1. CASE c.sock = "closed"
  BY Zenon, <1>1, CloseOnErrorKeeps DEF CheckTimeout, Watching, Quiet
<1>2. CASE c.sock # "closed"
  <2>1. CheckTimeout(c) = [d EXCEPT !.check = "waiting"]
    BY Zenon, <1>2 DEF CheckTimeout
  <2>2. Sound(d) /\ Timed(d) /\ Quiet(c, d)
    BY Zenon, CloseOnErrorKeeps DEF Quiet
  <2> HIDE DEF d
  <2>3. [d EXCEPT !.check = "waiting"] \in Connections
    BY Zenon, <2>2 DEF Sound, Connections
  <2>4. Safe([d EXCEPT !.check = "waiting"]) /\ Bounded([d EXCEPT !.check = "waiting"])
    BY <2>2 DEF Sound, Safe, Bounded, Connections
  <2>5. Timed([d EXCEPT !.check = "waiting"]) /\ Quiet(c, [d EXCEPT !.check = "waiting"])
        /\ Watching([d EXCEPT !.check = "waiting"])
    BY <2>2 DEF Sound, Connections, Timed, Quiet, Watching
  <2>. QED BY Zenon, <2>1, <2>3, <2>4, <2>5 DEF Sound
<1>. QED BY Zenon, <1>1, <1>2

\* StartReadSize, run when nothing else is outstanding, keeps the invariant.
LEMMA StartReadSizeKeeps ==
  ASSUME NEW c, Sound(c), Free(c), c.started, c.sock # "opening"
  PROVE  /\ Sound(StartReadSize(c)) /\ Timed(StartReadSize(c)) /\ Quiet(c, StartReadSize(c))
         /\ Watching(c) => Watching(StartReadSize(c))
<1> USE DEF Sound
<1>1. StartReadSize(c) \in Connections
  <2>1. SetTimer([c EXCEPT !.op["size"] = "pending"], "running") \in Connections
    BY Zenon, OpType, SetTimerType DEF Ops, Timers
  <2>. QED BY Zenon, <2>1 DEF StartReadSize, Connections
<1>2. Safe(StartReadSize(c)) /\ Bounded(StartReadSize(c))
  BY DEF Connections, Safe, Free, Bounded, StartReadSize, SetTimer, Ops, Chain
<1>3. /\ Timed(StartReadSize(c)) /\ Quiet(c, StartReadSize(c))
      /\ Watching(c) => Watching(StartReadSize(c))
  BY Zenon DEF Connections, Timed, Quiet, Watching, StartReadSize, SetTimer
<1>. QED BY Zenon, <1>1, <1>2, <1>3

\* StartWrite, run when nothing else is outstanding, keeps the invariant, also
\* if it finds the connection stopped.
LEMMA StartWriteKeeps ==
  ASSUME ConnectionAssumption, NEW c, Sound(c), Free(c), c.started, c.sock # "opening"
  PROVE  /\ Sound(StartWrite(c)) /\ Timed(StartWrite(c)) /\ Quiet(c, StartWrite(c))
         /\ Watching(c) => Watching(StartWrite(c))
<1> DEFINE d == [c EXCEPT !.op["write"] = "pending", !.clean = FALSE]
           e == [SetTimer(d, "running") EXCEPT !.timeout_state = "sending", !.progress = MaxProgress]
<1>1. CASE Stopped(c)
  BY Zenon, <1>1, CloseOnErrorKeeps DEF StartWrite
<1>2. CASE ~Stopped(c)
  <2> USE DEF Sound
  <2>1. d \in Connections
    <3> DEFINE b == [c EXCEPT !.op["write"] = "pending"]
    <3>1. b \in Connections
      BY Zenon, OpType DEF Ops
    <3>2. d = [b EXCEPT !.clean = FALSE]
      OBVIOUS
    <3> HIDE DEF b, d
    <3>. QED BY ZenonT(60), <3>1, <3>2 DEF Connections
  <2>2. e \in Connections
    <3> DEFINE f == SetTimer(d, "running")
    <3>1. f \in Connections
      BY Zenon, <2>1, SetTimerType DEF Timers
    <3>2. e = [f EXCEPT !.timeout_state = "sending", !.progress = MaxProgress]
      BY Zenon
    <3>3. MaxProgress \in 0 .. MaxProgress
      BY DEF ConnectionAssumption
    <3> HIDE DEF f, e
    <3>. QED BY ZenonT(60), <3>1, <3>2, <3>3 DEF Connections
  <2>3. Safe(e) /\ Bounded(e)
    BY DEF Connections, Safe, Free, Bounded, SetTimer, Ops, Chain
  <2>4. Timed(e) /\ Quiet(c, e) /\ (Watching(c) => Watching(e))
    BY DEF Connections, Timed, Quiet, Watching, SetTimer
  <2>5. StartWrite(c) = e
    BY Zenon, <1>2 DEF StartWrite
  <2>. QED BY Zenon, <2>2, <2>3, <2>4, <2>5
<1>. QED BY Zenon, <1>1, <1>2

\* StartReadData, run when nothing else is outstanding, keeps the invariant,
\* also if it asks for no bytes and completes at once.
LEMMA StartReadDataKeeps ==
  ASSUME ConnectionAssumption, NEW c, Sound(c), Timed(c), Free(c), c.started, c.sock # "opening",
         c.sock # "closed" => c.reads < MaxSocketReads
  PROVE  /\ Sound(StartReadData(c)) /\ Timed(StartReadData(c)) /\ Quiet(c, StartReadData(c))
         /\ Watching(c) => Watching(StartReadData(c))
<1>1. CASE Stopped(c)
  BY Zenon, <1>1, CloseOnErrorKeeps DEF StartReadData
<1> DEFINE d == Complete(c, "data")
           e == [c EXCEPT !.op["data"] = "pending"]
<1>2. CASE ~Stopped(c) /\ c.remaining = 0
  <2>1. d \in Connections
    BY Zenon, CompleteType DEF Sound, Ops
  <2>2. Safe(d)
    BY DEF Sound, Connections, Safe, Free, Complete, Ops, Chain
  <2>3. Bounded(d)
    <3>1. /\ d.op["data"] = "posted" /\ d.op["size"] = "idle" /\ d.remaining = 0
          /\ d.reads = c.reads /\ c.reads \in 0 .. MaxSocketReads
      BY Zenon, <1>2 DEF Sound, Connections, Free, Chain, Complete, Ops
    <3>2. Least(c.reads) <= 0 /\ (c.reads < MaxSocketReads => Least(c.reads + 1) <= 0)
      BY Zenon, <3>1, LeastSteps
    <3>3. d.sock = c.sock
      BY Zenon DEF Sound, Connections, Complete
    <3>4. MaxSize \in Nat
      BY DEF ConnectionAssumption
    <3> HIDE DEF d
    <3>. QED BY <1>2, <3>1, <3>2, <3>3, <3>4 DEF Bounded, Stopped
  <2>4. Timed(d) /\ Quiet(c, d) /\ (Watching(c) => Watching(d))
    BY DEF Sound, Connections, Timed, Quiet, Watching, Complete
  <2>5. StartReadData(c) = d
    BY Zenon, <1>2 DEF StartReadData
  <2>. QED BY Zenon, <2>1, <2>2, <2>3, <2>4, <2>5 DEF Sound
<1>3. CASE ~Stopped(c) /\ c.remaining # 0
  <2>1. e \in Connections
    BY Zenon, OpType DEF Sound, Ops
  <2>2. Safe(e) /\ Bounded(e)
    BY DEF Sound, Connections, Safe, Free, Bounded, Ops, Chain
  <2>3. Timed(e) /\ Quiet(c, e) /\ (Watching(c) => Watching(e))
    BY DEF Sound, Connections, Timed, Quiet, Watching
  <2>4. StartReadData(c) = e
    BY Zenon, <1>3 DEF StartReadData
  <2>. QED BY Zenon, <2>1, <2>2, <2>3, <2>4 DEF Sound
<1>. QED BY Zenon, <1>1, <1>2, <1>3

\* DoStartSending, DoStartReceiving and DoConnect leave a socket that
\* connects and a CheckTimeout that waits.
LEMMA DoStartKeeps ==
  ASSUME NEW c, Sound(c), ~c.started
  PROVE  /\ Sound(DoStart(c)) /\ Timed(DoStart(c)) /\ Quiet(c, DoStart(c))
         /\ Watching(DoStart(c))
<1> DEFINE b == [c EXCEPT !.op["connect"] = "pending"]
           d == [c EXCEPT !.started = TRUE, !.sock = "opening", !.op["connect"] = "pending",
                          !.timeout_state = "sending"]
           e == SetTimer(d, "running")
<1>1. d \in Connections
  <2>1. b \in Connections
    BY Zenon, OpType DEF Sound, Ops
  <2>2. d = [b EXCEPT !.started = TRUE, !.sock = "opening", !.timeout_state = "sending"]
    BY Zenon DEF Sound, Connections
  <2> HIDE DEF b, d
  <2>. QED BY ZenonT(60), <2>1, <2>2 DEF Connections
<1>2. e \in Connections
  BY <1>1, SetTimerType DEF Timers
<1>3. Safe(e) /\ Bounded(e)
  BY DEF Sound, Connections, Safe, Bounded, SetTimer, Ops, Chain
<1>4. Timed(e) /\ Quiet(c, e)
  BY DEF Sound, Connections, Timed, Quiet, SetTimer
<1>5. DoStart(c) = CheckTimeout(e)
  BY Zenon DEF DoStart
<1> HIDE DEF e
<1>. QED BY Zenon, <1>2, <1>3, <1>4, <1>5, CheckTimeoutKeeps DEF Sound, Quiet

-----------------------------------------------------------------------------
(* The handlers keep it.                                                   *)

\* A handler took the connection from c to d.
Keeps(c, d) == Sound(d) /\ Timed(d) /\ Quiet(c, d) /\ (Watching(c) => Watching(d))

\* A handler of the chain that starts to run leaves nothing of the chain
\* outstanding, and the socket is not opening any more.
LEMMA RanKeeps ==
  ASSUME Sound(conn), Timed(conn), NEW o \in Chain, conn.op[o] = "posted"
  PROVE  /\ Keeps(conn, Ran(o)) /\ Free(Ran(o)) /\ Ran(o).started /\ Ran(o).sock # "opening"
         /\ Ran(o).remaining = conn.remaining /\ Ran(o).reads = conn.reads
         /\ Ran(o).sock = conn.sock
         /\ conn.attached = Ran(o).attached
         /\ conn.errors = Ran(o).errors /\ conn.messages = Ran(o).messages
         /\ conn.check = Ran(o).check
<1> DEFINE d == Ran(o)
<1>1. o \in Ops
  BY DEF Chain, Ops
<1>2. d \in Connections
  BY Zenon, <1>1, OpType DEF Sound, Ran
<1>3. /\ d.op = [conn.op EXCEPT ![o] = "idle"]
      /\ d.remaining = conn.remaining /\ d.reads = conn.reads /\ d.sock = conn.sock
      /\ d.dispatch = conn.dispatch /\ d.started = conn.started /\ d.attached = conn.attached
      /\ d.errors = conn.errors /\ d.messages = conn.messages /\ d.check = conn.check
      /\ d.timer = conn.timer
  BY Zenon DEF Sound, Connections, Ran
<1>4. conn.op \in [Ops -> {"idle", "pending", "posted"}] /\ Chain \subseteq Ops
  BY Zenon DEF Sound, Connections, Chain, Ops
<1> HIDE DEF d
<1>5. /\ \A q \in Chain : d.op[q] = "idle"
      /\ d.dispatch = "none" /\ d.started
  BY <1>3, <1>4 DEF Sound, Safe
<1>6. d.sock # "opening"
  <2>1. conn.op["connect"] # "idle" => o = "connect"
    BY Zenon DEF Sound, Safe, Chain
  <2>. QED BY Zenon, <1>3, <2>1 DEF Sound, Safe
<1>7. Safe(d)
  BY Zenon, <1>3, <1>5, <1>6 DEF Sound, Safe
<1>8. Bounded(d)
  BY Zenon, <1>3, <1>5 DEF Sound, Bounded, Chain
<1>9. Timed(d) /\ Quiet(conn, d) /\ (Watching(conn) => Watching(d))
  BY Zenon, <1>3 DEF Timed, Quiet, Watching
<1>. QED BY Zenon, <1>2, <1>3, <1>5, <1>6, <1>7, <1>8, <1>9 DEF Keeps, Sound, Free, d

\* HandleConnect keeps the invariant, also for a connection made by DoConnect.
LEMMA HandleConnectKeeps ==
  ASSUME ConnectionAssumption, NEW c, Sound(c), Timed(c), Free(c), c.started, c.sock # "opening"
  PROVE  Keeps(c, HandleConnect(c))
<1> USE DEF Keeps
<1>1. CASE Stopped(c)
  BY <1>1 DEF HandleConnect, Quiet
<1>2. CASE ~Stopped(c) /\ c.role = "simple"
  <2> DEFINE d == [c EXCEPT !.called = ~c.aborted["connect"]]
  <2>1. d \in Connections
    BY ZenonT(60) DEF Sound, Connections
  <2>2. Safe(d) /\ Bounded(d)
    BY DEF Sound, Connections, Safe, Bounded
  <2>3. Timed(d) /\ Quiet(c, d) /\ (Watching(c) => Watching(d))
    BY DEF Sound, Connections, Timed, Quiet, Watching
  <2>4. HandleConnect(c) = d
    BY <1>2 DEF HandleConnect
  <2>. QED BY Zenon, <2>1, <2>2, <2>3, <2>4 DEF Sound
<1>3. CASE ~Stopped(c) /\ c.role # "simple"
  BY Zenon, <1>3, CloseOnErrorKeeps, StartReadSizeKeeps, StartWriteKeeps DEF HandleConnect
<1>. QED BY Zenon, <1>1, <1>2, <1>3

\* HandleReadSize keeps the invariant for every size that is read.
LEMMA HandleReadSizeKeeps ==
  ASSUME ConnectionAssumption, NEW c, Sound(c), Timed(c), Free(c), c.started, c.sock # "opening",
         c.sock # "closed" => c.reads < MaxSocketReads, NEW size \in 0 .. MaxSize
  PROVE  Keeps(c, HandleReadSize(c, size))
<1> USE DEF Keeps
<1>1. CASE Stopped(c) \/ c.aborted["size"]
  BY <1>1, CloseOnErrorKeeps DEF HandleReadSize
<1>2. CASE ~(Stopped(c) \/ c.aborted["size"])
  <2> DEFINE d == SetTimer([c EXCEPT !.remaining = size], "running")
  <2>1. d \in Connections
    <3>1. [c EXCEPT !.remaining = size] \in Connections
      BY DEF Sound, Connections
    <3>. QED BY <3>1, SetTimerType DEF Timers
  <2>2. /\ d.op = c.op /\ d.remaining = size /\ d.reads = c.reads /\ d.sock = c.sock
        /\ d.dispatch = c.dispatch /\ d.started = c.started /\ d.attached = c.attached
        /\ d.errors = c.errors /\ d.messages = c.messages /\ (c.check # "idle" => d.check # "idle")
        /\ d.timer = "running"
    BY Zenon DEF Sound, Connections, SetTimer
  <2>3. HandleReadSize(c, size) = StartReadData(d)
    BY Zenon, <1>2 DEF HandleReadSize
  <2> HIDE DEF d
  <2>4. Safe(d)
    BY Zenon, <2>2 DEF Sound, Safe
  <2>5. Bounded(d)
    <3>1. c.reads \in 0 .. MaxSocketReads
      BY Zenon DEF Sound, Connections
    <3>2. Least(c.reads) \in Int /\ Least(c.reads) <= 0 /\ MaxSize \in Nat
      BY Zenon, <3>1, LeastSteps DEF ConnectionAssumption
    <3>. QED BY <2>2, <3>2 DEF Free, Chain, Bounded
  <2>6. Timed(d) /\ Free(d) /\ Quiet(c, d) /\ (Watching(c) => Watching(d))
    BY Zenon, <2>2 DEF Timed, Free, Quiet, Watching
  <2>. QED BY ZenonT(60), <2>1, <2>2, <2>3, <2>4, <2>5, <2>6, StartReadDataKeeps DEF Sound, Quiet
<1>. QED BY Zenon, <1>1, <1>2

\* HandleReadData keeps the invariant: what is left stays in its bounds, and
\* the timer is infinite only as DispatchMessage is posted.
LEMMA HandleReadDataKeeps ==
  ASSUME ConnectionAssumption, NEW c, Sound(c), Timed(c), Free(c), c.started, c.sock # "opening",
         c.sock # "closed" => c.reads < MaxSocketReads /\ Least(c.reads + 1) <= c.remaining,
         NEW n \in 1 .. MaxSize, NEW slow \in BOOLEAN, c.remaining > 0 => n <= c.remaining
  PROVE  Keeps(c, HandleReadData(c, n, slow))
<1> USE DEF Keeps
<1>1. CASE Stopped(c) \/ c.aborted["data"]
  BY Zenon, <1>1, CloseOnErrorKeeps DEF HandleReadData
<1>2. CASE ~(Stopped(c) \/ c.aborted["data"]) /\ c.remaining - n = 0
  <2> DEFINE b == SetTimer(c, "infinite")
             d == [b EXCEPT !.remaining = 0, !.dispatch = "posted"]
  <2>1. b \in Connections
    BY SetTimerType DEF Sound, Timers
  <2>2. d \in Connections
    <3> HIDE DEF b
    <3>1. 0 \in Int
      OBVIOUS
    <3>. QED BY ZenonT(60), <2>1, <3>1 DEF Connections
  <2>3. /\ d.op = c.op /\ d.remaining = 0 /\ d.reads = c.reads /\ d.sock = c.sock
        /\ d.dispatch = "posted" /\ d.started = c.started /\ d.attached = c.attached
        /\ d.errors = c.errors /\ d.messages = c.messages /\ (c.check # "idle" => d.check # "idle")
    BY Zenon DEF Sound, Connections, SetTimer
  <2>4. HandleReadData(c, n, slow) = d
    BY <1>2 DEF HandleReadData
  <2> HIDE DEF d
  <2>5. Safe(d)
    BY <2>3 DEF Sound, Safe, Free, Chain
  <2>6. Bounded(d)
    <3>1. c.reads \in 0 .. MaxSocketReads
      BY Zenon DEF Sound, Connections
    <3>2. Least(c.reads) \in Int /\ Least(c.reads) <= 0 /\ MaxSize \in Nat
      BY Zenon, <3>1, LeastSteps DEF ConnectionAssumption
    <3>. QED BY <2>3, <3>2 DEF Free, Chain, Bounded
  <2>7. Timed(d) /\ Quiet(c, d) /\ (Watching(c) => Watching(d))
    BY Zenon, <1>2, <2>3 DEF Timed, Quiet, Watching, Stopped
  <2>. QED BY Zenon, <2>2, <2>4, <2>5, <2>6, <2>7 DEF Sound
<1>3. CASE ~(Stopped(c) \/ c.aborted["data"]) /\ c.remaining - n # 0
  <2> DEFINE d == SetTimer([c EXCEPT !.remaining = c.remaining - n], "running")
  <2>1. d \in Connections
    <3>1. [c EXCEPT !.remaining = c.remaining - n] \in Connections
      BY DEF Sound, Connections
    <3>. QED BY Zenon, <3>1, SetTimerType DEF Timers
  <2>2. /\ d.op = c.op /\ d.remaining = c.remaining - n /\ d.reads = c.reads /\ d.sock = c.sock
        /\ d.dispatch = c.dispatch /\ d.started = c.started /\ d.attached = c.attached
        /\ d.errors = c.errors /\ d.messages = c.messages /\ (c.check # "idle" => d.check # "idle")
        /\ d.timer = "running"
    BY Zenon DEF Sound, Connections, SetTimer
  <2>3. HandleReadData(c, n, slow) = StartReadData(IF slow THEN CloseOnError(d) ELSE d)
    BY <1>3 DEF HandleReadData
  <2> HIDE DEF d
  <2>4. Safe(d)
    BY <2>2 DEF Sound, Safe
  <2>5. Bounded(d)
    <3>1. c.reads \in 0 .. MaxSocketReads /\ c.remaining \in Int
      BY Zenon DEF Sound, Connections
    <3>2. c.reads < MaxSocketReads /\ Least(c.reads + 1) <= c.remaining /\ c.remaining <= MaxSize
      BY Zenon, <1>3 DEF Stopped, Sound, Bounded
    <3>3. Least(c.reads) \in Int /\ Least(c.reads) = Least(c.reads + 1) - MaxSize /\ MaxSize \in Nat
          /\ Least(c.reads + 1) \in Int
      BY Zenon, <3>1, <3>2, LeastSteps DEF ConnectionAssumption
    <3>4. Least(c.reads) <= c.remaining - n /\ c.remaining - n <= MaxSize
      BY <3>1, <3>2, <3>3
    <3>. QED BY Zenon, <2>2, <3>4 DEF Free, Chain, Bounded
  <2>6. Sound(d) /\ Timed(d) /\ Free(d) /\ Quiet(c, d) /\ (Watching(c) => Watching(d))
    BY Zenon, <2>1, <2>2, <2>4, <2>5 DEF Sound, Timed, Free, Quiet, Watching
  <2>7. CASE slow
    <3>1. /\ Sound(CloseOnError(d)) /\ Quiet(d, CloseOnError(d)) /\ ~CloseOnError(d).attached
          /\ Watching(d) => Watching(CloseOnError(d))
      BY Zenon, <2>6, CloseOnErrorKeeps
    <3>2. StartReadData(CloseOnError(d)) = CloseOnError(CloseOnError(d))
      BY Zenon, <3>1 DEF StartReadData, Stopped
    <3>3. /\ Sound(CloseOnError(CloseOnError(d))) /\ Timed(CloseOnError(CloseOnError(d)))
          /\ Quiet(CloseOnError(d), CloseOnError(CloseOnError(d)))
          /\ Watching(CloseOnError(d)) => Watching(CloseOnError(CloseOnError(d)))
      BY Zenon, <3>1, CloseOnErrorKeeps
    <3>. QED BY Zenon, <2>3, <2>6, <2>7, <3>1, <3>2, <3>3 DEF Quiet
  <2>8. CASE ~slow
    BY Zenon, <1>3, <2>2, <2>3, <2>6, <2>8, StartReadDataKeeps DEF Quiet, Stopped
  <2>. QED BY Zenon, <2>7, <2>8
<1>. QED BY Zenon, <1>1, <1>2, <1>3

\* The application's answer is posted in the place of the dispatch.
LEMMA AnsweredKeeps ==
  ASSUME NEW d, Sound(d), Timed(d), d.dispatch = "posted", NEW next \in {"close", "write"},
         NEW immediate \in BOOLEAN
  PROVE  /\ Sound([d EXCEPT !.immediate = immediate, !.dispatch = next])
         /\ Timed([d EXCEPT !.immediate = immediate, !.dispatch = next])
         /\ Watching(d) => Watching([d EXCEPT !.immediate = immediate, !.dispatch = next])
<1> DEFINE e == [d EXCEPT !.immediate = immediate, !.dispatch = next]
<1>1. e \in Connections
  BY Zenon DEF Sound, Connections
<1>2. Safe(e) /\ Bounded(e)
  BY Zenon DEF Sound, Connections, Safe, Bounded
<1>3. Timed(e) /\ (Watching(d) => Watching(e))
  BY Zenon DEF Sound, Connections, Timed, Watching
<1>. QED BY Zenon, <1>1, <1>2, <1>3 DEF Sound

\* DispatchMessage keeps the invariant whatever the application answers, and
\* signals nothing on a connection that has detached.
LEMMA DispatchMessageKeeps ==
  ASSUME NEW c, Sound(c), Timed(c), c.dispatch = "posted", NEW reply \in Replies,
         NEW immediate \in BOOLEAN
  PROVE  Keeps(c, DispatchMessage(c, reply, immediate))
<1> USE DEF Keeps
<1> DEFINE told == [c EXCEPT !.messages = @ + 1]
<1>1. CASE ~c.attached
  <2> DEFINE d == [c EXCEPT !.dispatch = "none"]
  <2>1. d \in Connections
    BY Zenon DEF Sound, Connections
  <2>2. Safe(d) /\ Bounded(d)
    BY DEF Sound, Connections, Safe, Bounded
  <2>3. Timed(d) /\ Quiet(c, d) /\ (Watching(c) => Watching(d))
    BY Zenon, <1>1 DEF Sound, Connections, Timed, Quiet, Watching
  <2>4. DispatchMessage(c, reply, immediate) = d
    BY Zenon, <1>1 DEF DispatchMessage
  <2>. QED BY Zenon, <2>1, <2>2, <2>3, <2>4 DEF Sound
<1>2. told \in Connections /\ Safe(told) /\ Bounded(told) /\ Timed(told)
      /\ (Watching(c) => Watching(told)) /\ told.dispatch = "posted"
  <2>1. told \in Connections /\ told.dispatch = "posted"
    BY DEF Sound, Connections
  <2>2. Safe(told) /\ Bounded(told)
    BY DEF Sound, Connections, Safe, Bounded
  <2>3. Timed(told) /\ (Watching(c) => Watching(told))
    BY Zenon DEF Sound, Connections, Timed, Watching
  <2>. QED BY Zenon, <2>1, <2>2, <2>3
<1>3. CASE c.attached /\ reply = "none"
  <2> DEFINE d == [told EXCEPT !.immediate = c.immediate, !.dispatch = "close"]
  <2>1. DispatchMessage(c, reply, immediate) = d
    BY Zenon, <1>3 DEF DispatchMessage, Sound, Connections
  <2>2. c.immediate \in BOOLEAN
    BY DEF Sound, Connections
  <2>3. Sound(d) /\ Timed(d) /\ (Watching(told) => Watching(d))
    <3> HIDE DEF told
    <3>. QED BY Zenon, <1>2, <2>2, AnsweredKeeps DEF Sound
  <2>4. Quiet(c, d)
    BY Zenon, <1>3 DEF Quiet
  <2> HIDE DEF told, d
  <2>. QED BY Zenon, <1>2, <2>1, <2>3, <2>4
<1>4. CASE c.attached /\ reply # "none"
  <2> DEFINE f == IF reply = "large" THEN CloseOnError(told) ELSE told
             d == [f EXCEPT !.immediate = immediate, !.dispatch = "write"]
  <2>1. DispatchMessage(c, reply, immediate) = d
    BY Zenon, <1>4 DEF DispatchMessage
  <2>2. Sound(f) /\ Timed(f) /\ f.dispatch = "posted" /\ (Watching(c) => Watching(f))
    <3> HIDE DEF told
    <3>. QED BY Zenon, <1>2, CloseOnErrorKeeps DEF Sound
  <2>3. Sound(d) /\ Timed(d) /\ (Watching(f) => Watching(d))
    <3> HIDE DEF told, f
    <3>. QED BY Zenon, <2>2, AnsweredKeeps
  <2>4. Quiet(c, d)
    BY Zenon, <1>4 DEF Quiet
  <2> HIDE DEF told, f, d
  <2>. QED BY Zenon, <2>1, <2>2, <2>3, <2>4
<1>. QED BY Zenon, <1>1, <1>3, <1>4

\* HandleWrite keeps the invariant whether a response is awaited or not.
LEMMA HandleWriteKeeps ==
  ASSUME ConnectionAssumption, NEW c, Sound(c), Timed(c), Free(c), c.started, c.sock # "opening"
  PROVE  Keeps(c, HandleWrite(c))
<1> USE DEF Keeps
<1>1. CASE Stopped(c) \/ c.aborted["write"]
  BY Zenon, <1>1, CloseOnErrorKeeps DEF HandleWrite
<1>2. CASE ~(Stopped(c) \/ c.aborted["write"])
  <2> DEFINE b == SetTimer(c, "infinite")
             d == [b EXCEPT !.timeout_state = "none"]
  <2>1. b \in Connections
    BY SetTimerType DEF Sound, Timers
  <2>2. d \in Connections
    <3> HIDE DEF b
    <3>. QED BY <2>1 DEF Connections
  <2>3. /\ d.op = c.op /\ d.remaining = c.remaining /\ d.reads = c.reads /\ d.sock = c.sock
        /\ d.dispatch = c.dispatch /\ d.started = c.started /\ d.attached = c.attached
        /\ d.errors = c.errors /\ d.messages = c.messages /\ (c.check # "idle" => d.check # "idle")
    BY Zenon DEF Sound, Connections, SetTimer
  <2>4. HandleWrite(c) = IF c.immediate THEN DoClose(d) ELSE StartReadSize(d)
    BY <1>2 DEF HandleWrite
  <2> HIDE DEF d
  <2>5. Sound(d) /\ Free(d) /\ Quiet(c, d) /\ (Watching(c) => Watching(d))
    BY Zenon, <2>2, <2>3 DEF Sound, Safe, Bounded, Free, Quiet, Watching
  <2>. QED BY ZenonT(60), <2>3, <2>4, <2>5, DoCloseKeeps, StartReadSizeKeeps DEF Quiet
<1>. QED BY Zenon, <1>1, <1>2

\* HandleTick, which extends the timer of a message that makes progress, keeps
\* the invariant; it never makes the timer infinite.
LEMMA HandleTickKeeps ==
  ASSUME ConnectionAssumption, NEW c, Sound(c), Timed(c),
         NEW sent \in BOOLEAN, NEW slow \in BOOLEAN, sent => c.progress > 0
  PROVE  Keeps(c, HandleTick(c, sent, slow))
<1> USE DEF Keeps
<1>1. CASE c.timeout_state # "sending"
  BY Zenon, <1>1 DEF HandleTick, Quiet
<1>2. CASE c.timeout_state = "sending"
  <2> DEFINE b == SetTimer(c, "running")
             e == [b EXCEPT !.progress = @ - 1]
             d == IF sent THEN e ELSE c
  <2>1. sent => e \in Connections
    <3>1. b \in Connections
      BY Zenon, SetTimerType DEF Sound, Timers
    <3>2. b.progress = c.progress
      BY Zenon DEF Sound, SetTimer, Connections
    <3>3. c.progress \in 0 .. MaxProgress
      BY Zenon DEF Sound, Connections
    <3>4. sent => b.progress - 1 \in 0 .. MaxProgress
      BY <3>2, <3>3 DEF ConnectionAssumption
    <3> HIDE DEF b
    <3>. QED BY Zenon, <3>1, <3>4 DEF Connections
  <2>2. /\ e.op = c.op /\ e.remaining = c.remaining /\ e.reads = c.reads /\ e.sock = c.sock
        /\ e.dispatch = c.dispatch /\ e.started = c.started /\ e.attached = c.attached
        /\ e.errors = c.errors /\ e.messages = c.messages /\ (c.check # "idle" => e.check # "idle")
        /\ e.timer = "running"
    BY DEF Sound, Connections, SetTimer
  <2>3. HandleTick(c, sent, slow) = IF slow THEN CloseOnError(d) ELSE d
    BY Zenon, <1>2 DEF HandleTick
  <2> HIDE DEF e
  <2>4. sent => Sound(e) /\ Timed(e) /\ Quiet(c, e) /\ (Watching(c) => Watching(e))
    BY Zenon, <2>1, <2>2 DEF Sound, Safe, Bounded, Timed, Quiet, Watching
  <2>5. Sound(d) /\ Timed(d) /\ Quiet(c, d) /\ (Watching(c) => Watching(d))
    BY Zenon, <2>4 DEF Quiet
  <2> HIDE DEF d
  <2>. QED BY Zenon, <2>3, <2>5, CloseOnErrorKeeps DEF Quiet
<1>. QED BY Zenon, <1>1, <1>2

-----------------------------------------------------------------------------
(* Steps.                                                                  *)

\* The inductive invariant.
IInv == Sound(conn) /\ Timed(conn) /\ Watching(conn)

\* Each handler keeps the invariant, and signals nothing once detached.
LEMMA HandlersKeep ==
  ASSUME ConnectionAssumption, IInv, Handlers
  PROVE  IInv' /\ Quiet(conn, conn')
<1>1. ASSUME NEW large \in BOOLEAN, Start(large) PROVE IInv' /\ Quiet(conn, conn')
  <2> DEFINE c == IF large THEN CloseOnError(conn) ELSE conn
  <2>1. ~conn.started /\ conn' = DoStart(c)
    BY Zenon, <1>1 DEF Start
  <2>2. Sound(c) /\ Quiet(conn, c)
    BY Zenon, CloseOnErrorKeeps DEF IInv, Quiet
  <2>3. ~c.started
    BY Zenon, <2>1 DEF CloseOnError, DoClose, SetTimer, SocketClose, AsyncFlush, Complete, IInv,
       Sound, Connections
  <2> HIDE DEF c
  <2>. QED BY Zenon, <2>1, <2>2, <2>3, DoStartKeeps DEF IInv, Quiet
<1>2. ASSUME NEW o \in Chain, conn.op[o] = "posted", Keeps(Ran(o), conn')
      PROVE IInv' /\ Quiet(conn, conn')
  BY Zenon, <1>2, RanKeeps DEF IInv, Keeps, Quiet
<1>3. CASE Connected
  BY Zenon, <1>2, <1>3, RanKeeps, HandleConnectKeeps DEF Connected, IInv, Keeps, Chain
<1>4. ASSUME NEW size \in 0 .. MaxSize, SizeRead(size) PROVE IInv' /\ Quiet(conn, conn')
  <2>1. conn.op["size"] = "posted" /\ "size" \in Chain /\ conn' = HandleReadSize(Ran("size"), size)
    BY Zenon, <1>4 DEF SizeRead, Chain
  <2>2. Ran("size").sock # "closed" => Ran("size").reads < MaxSocketReads
    <3>1. Ran("size").reads = conn.reads /\ Ran("size").sock = conn.sock
      BY Zenon, <2>1, RanKeeps DEF IInv
    <3>2. conn.sock # "closed" => conn.reads < MaxSocketReads
      BY Zenon, <2>1 DEF IInv, Sound, Bounded
    <3>. QED BY Zenon, <3>1, <3>2
  <2>. QED BY Zenon, <1>2, <2>1, <2>2, RanKeeps, HandleReadSizeKeeps DEF IInv, Keeps
<1>5. ASSUME NEW n \in 1 .. MaxSize, NEW slow \in BOOLEAN, DataRead(n, slow)
      PROVE IInv' /\ Quiet(conn, conn')
  <2>1. conn.op["data"] = "posted" /\ "data" \in Chain /\ conn' = HandleReadData(Ran("data"), n, slow)
    BY Zenon, <1>5 DEF DataRead, Chain
  <2>2. /\ Ran("data").sock # "closed" =>
             Ran("data").reads < MaxSocketReads /\ Least(Ran("data").reads + 1) <= Ran("data").remaining
        /\ Ran("data").remaining > 0 => n <= Ran("data").remaining
    BY Zenon, <1>5, <2>1, RanKeeps DEF DataRead, IInv, Sound, Bounded
  <2>. QED BY Zenon, <1>2, <2>1, <2>2, RanKeeps, HandleReadDataKeeps DEF IInv, Keeps
<1>6. CASE Written
  BY Zenon, <1>2, <1>6, RanKeeps, HandleWriteKeeps DEF Written, IInv, Keeps, Chain
<1>7. CASE Flushed
  <2> DEFINE c == Ran("flush")
  <2>1. c \in Connections
    BY Zenon, OpType DEF IInv, Sound, Ran, Ops
  <2>2. Safe(c) /\ Bounded(c) /\ Watching(c) /\ Quiet(conn, c)
    BY DEF IInv, Sound, Connections, Safe, Bounded, Watching, Quiet, Ran, Chain, Ops
  <2> HIDE DEF c
  <2>. QED BY Zenon, <1>7, <2>1, <2>2, DoCloseKeeps DEF Flushed, IInv, Sound, Quiet, c
<1>8. ASSUME NEW reply \in Replies, NEW immediate \in BOOLEAN, Dispatch(reply, immediate)
      PROVE IInv' /\ Quiet(conn, conn')
  BY Zenon, <1>8, DispatchMessageKeeps DEF Dispatch, IInv, Keeps
<1>9. CASE Dispatched
  <2> DEFINE c == [conn EXCEPT !.dispatch = "none"]
  <2>1. conn' = DoClose(c) \/ conn' = StartWrite(c)
    BY Zenon, <1>9 DEF Dispatched
  <2>2. c \in Connections
    BY DEF IInv, Sound, Connections
  <2>3. /\ c.op = conn.op /\ c.remaining = conn.remaining /\ c.reads = conn.reads
        /\ c.sock = conn.sock /\ c.started = conn.started /\ c.attached = conn.attached
        /\ c.errors = conn.errors /\ c.messages = conn.messages /\ c.check = conn.check
        /\ c.dispatch = "none" /\ conn.dispatch # "none"
    BY Zenon, <1>9 DEF Dispatched, IInv, Sound, Connections
  <2> HIDE DEF c
  <2>4. Free(c) /\ c.started /\ c.sock # "opening"
    BY Zenon, <2>3 DEF IInv, Sound, Safe, Free, Chain
  <2>5. Sound(c) /\ Watching(c) /\ Quiet(conn, c)
    BY Zenon, <2>2, <2>3, <2>4 DEF IInv, Sound, Safe, Bounded, Watching, Quiet
  <2>. QED BY <2>1, <2>4, <2>5, DoCloseKeeps, StartWriteKeeps DEF IInv, Quiet
<1>10. CASE Check
  <2> DEFINE c == [conn EXCEPT !.check = "idle"]
  <2>1. conn' = CheckTimeout(c)
    BY Zenon, <1>10 DEF Check
  <2>2. c \in Connections
    BY Zenon DEF IInv, Sound, Connections
  <2>3. Safe(c) /\ Bounded(c) /\ Timed(c) /\ Quiet(conn, c)
    BY DEF IInv, Sound, Connections, Safe, Bounded, Timed, Quiet
  <2> HIDE DEF c
  <2>. QED BY Zenon, <2>1, <2>2, <2>3, CheckTimeoutKeeps DEF IInv, Sound, Quiet
<1>. QED
  BY Zenon, <1>1, <1>3, <1>4, <1>5, <1>6, <1>7, <1>8, <1>9, <1>10 DEF Handlers

\* What the socket, the timer and the transport do by themselves.
LEMMA EnvironmentKeeps ==
  ASSUME ConnectionAssumption, IInv,
         \/ \E sent, slow \in BOOLEAN : Tick(sent, slow)
         \/ Expire \/ TransportDestroyed \/ SocketConnects \/ PeerShutdown
         \/ \E o \in {"write", "size", "data"} : SocketCompletes(o)
         \/ \E clean \in BOOLEAN : SocketFlushes(clean)
  PROVE  IInv' /\ Quiet(conn, conn')
<1> USE DEF IInv, Sound
<1>1. ASSUME NEW sent \in BOOLEAN, NEW slow \in BOOLEAN, Tick(sent, slow)
      PROVE IInv' /\ Quiet(conn, conn')
  BY Zenon, <1>1, HandleTickKeeps DEF Tick, Keeps
<1>2. CASE Expire
  <2>1. conn' \in Connections
    BY Zenon, <1>2 DEF Expire, Connections
  <2>. QED
    BY <1>2, <2>1 DEF Expire, Connections, Safe, Bounded, Timed, Watching, Quiet
<1>3. CASE TransportDestroyed
  <2> DEFINE c == [conn EXCEPT !.attached = FALSE, !.orphan = TRUE]
  <2>1. conn' = DoClose(c) /\ conn.attached
    BY <1>3 DEF TransportDestroyed
  <2>2. c \in Connections
    BY Zenon DEF Connections
  <2>3. Safe(c) /\ Bounded(c) /\ Watching(c)
    BY DEF Connections, Safe, Bounded, Watching
  <2> HIDE DEF c
  <2>. QED BY Zenon, <2>1, <2>2, <2>3, DoCloseKeeps DEF Quiet
<1>4. CASE SocketConnects
  <2> DEFINE c == Complete(conn, "connect")
  <2>1. c \in Connections
    BY Zenon, CompleteType DEF Ops
  <2>2. /\ conn.op["connect"] = "pending" /\ conn.sock = "opening"
        /\ conn' = [c EXCEPT !.sock = "connected", !.clean = TRUE]
    BY Zenon, <1>4 DEF SocketConnects, Safe
  <2>3. /\ c.op = [conn.op EXCEPT !["connect"] = "posted"] /\ c.remaining = conn.remaining
        /\ c.reads = conn.reads /\ c.dispatch = conn.dispatch /\ c.started = conn.started
        /\ c.attached = conn.attached /\ c.errors = conn.errors /\ c.messages = conn.messages
        /\ c.check = conn.check /\ c.timer = conn.timer
    BY Zenon DEF Complete, Connections
  <2>4. conn.op \in [Ops -> {"idle", "pending", "posted"}]
    BY DEF Connections
  <2> HIDE DEF c
  <2>5. conn' \in Connections
    BY ZenonT(60), <2>1, <2>2 DEF Connections
  <2>6. /\ conn'.op = c.op /\ conn'.remaining = c.remaining /\ conn'.reads = c.reads
        /\ conn'.dispatch = c.dispatch /\ conn'.started = c.started /\ conn'.timer = c.timer
        /\ conn'.attached = c.attached /\ conn'.errors = c.errors /\ conn'.messages = c.messages
        /\ conn'.check = c.check /\ conn'.sock = "connected"
    BY <2>1, <2>2 DEF Connections
  <2>7. \A o \in Ops : conn'.op[o] = IF o = "connect" THEN "posted" ELSE conn.op[o]
    <3> DEFINE ops == conn.op
    <3>1. conn'.op = [ops EXCEPT !["connect"] = "posted"] /\ DOMAIN ops = Ops
      BY Zenon, <2>3, <2>4, <2>6
    <3> HIDE DEF ops
    <3>2. \A o \in Ops : conn'.op[o] = IF o = "connect" THEN "posted" ELSE ops[o]
      BY Zenon, <3>1
    <3>. QED BY Zenon, <3>2 DEF ops
  <2>. QED
    BY <2>2, <2>3, <2>5, <2>6, <2>7 DEF Safe, Bounded, Timed, Watching, Quiet, Chain, Ops
<1>5. ASSUME NEW o \in {"write", "size", "data"}, SocketCompletes(o)
      PROVE IInv' /\ Quiet(conn, conn')
  <2> DEFINE c == Complete(conn, o)
             r == IF o = "write" THEN conn.reads ELSE conn.reads - 1
  <2>1. c \in Connections
    BY CompleteType DEF Ops
  <2>2. /\ c.op = [conn.op EXCEPT ![o] = "posted"] /\ c.remaining = conn.remaining
        /\ c.reads = conn.reads /\ c.dispatch = conn.dispatch /\ c.started = conn.started
        /\ c.attached = conn.attached /\ c.errors = conn.errors /\ c.messages = conn.messages
        /\ c.check = conn.check /\ c.timer = conn.timer /\ c.sock = conn.sock
    BY DEF Complete, Connections
  <2>3. /\ conn.op[o] = "pending" /\ conn.sock = "connected" /\ (o # "write" => conn.reads > 0)
        /\ conn' = [c EXCEPT !.reads = r]
    BY <1>5, <2>2 DEF SocketCompletes
  <2>4. conn.op \in [Ops -> {"idle", "pending", "posted"}] /\ conn.reads \in 0 .. MaxSocketReads
        /\ conn.remaining \in Int
    BY Zenon DEF Connections
  <2>5. r \in 0 .. MaxSocketReads /\ (o # "write" => r = conn.reads - 1 /\ r < MaxSocketReads)
    BY <2>3, <2>4 DEF ConnectionAssumption
  <2> HIDE DEF c
  <2>6. conn' \in Connections
    BY Zenon, <2>1, <2>3, <2>5 DEF Connections
  <2>7. /\ conn'.op = c.op /\ conn'.remaining = c.remaining /\ conn'.reads = r
        /\ conn'.dispatch = c.dispatch /\ conn'.started = c.started /\ conn'.timer = c.timer
        /\ conn'.attached = c.attached /\ conn'.errors = c.errors /\ conn'.messages = c.messages
        /\ conn'.check = c.check /\ conn'.sock = c.sock
    BY Zenon, <2>1, <2>3 DEF Connections
  <2>8. \A q \in Ops : conn'.op[q] = IF q = o THEN "posted" ELSE conn.op[q]
    BY Zenon, <2>2, <2>4, <2>7
  <2>9. Safe(conn)'
    BY <2>2, <2>3, <2>7, <2>8 DEF Safe, Chain, Ops
  <2>10. Bounded(conn)'
    <3>1. Least(conn.reads) <= conn.remaining /\ conn.remaining <= MaxSize
      BY Zenon DEF Bounded
    <3>2. CASE o = "write"
      <4>1. conn'.op["size"] = conn.op["size"] /\ conn'.op["data"] = conn.op["data"]
        BY Zenon, <2>8, <3>2 DEF Ops
      <4>. QED BY Zenon, <2>2, <2>7, <3>2, <4>1 DEF Bounded
    <3>3. CASE o # "write"
      <4>2. Least(r) <= Least(r + 1) /\ Least(r) \in Int /\ Least(r + 1) \in Int
        <5> HIDE DEF r
        <5>1. Least(r) \in Int /\ Least(r + 1) \in Int /\ Least(r) = Least(r + 1) - MaxSize
          BY Zenon, <2>5, <3>3, LeastSteps
        <5>2. MaxSize \in Nat
          BY Zenon DEF ConnectionAssumption
        <5>. QED BY <5>1, <5>2
      <4>3. r \in Int /\ conn.reads \in Int /\ conn.remaining \in Int /\ r = conn.reads - 1
            /\ r < MaxSocketReads
        BY <2>4, <2>5, <3>3
      <4> HIDE DEF r
      <4>1. r + 1 = conn.reads
        BY <4>3
      <4>4. Least(r) <= conn.remaining /\ Least(r + 1) <= conn.remaining
        BY <3>1, <4>1, <4>2, <4>3
      <4>. QED BY Zenon, <2>2, <2>7, <3>1, <4>3, <4>4 DEF Bounded
    <3>. QED BY Zenon, <3>2, <3>3
  <2>. QED
    BY <2>2, <2>3, <2>6, <2>7, <2>9, <2>10 DEF Timed, Watching, Quiet
<1>6. ASSUME NEW clean \in BOOLEAN, SocketFlushes(clean)
      PROVE IInv' /\ Quiet(conn, conn')
  <2> DEFINE c == [conn EXCEPT !.clean = clean]
  <2>1. c \in Connections
    BY DEF Connections
  <2>2. Safe(c) /\ Bounded(c) /\ Timed(c) /\ Watching(c) /\ Quiet(conn, c)
    BY DEF Connections, Safe, Bounded, Timed, Watching, Quiet
  <2>3. conn' = c \/ conn' = Complete(c, "flush")
    BY Zenon, <1>6 DEF SocketFlushes
  <2> HIDE DEF c
  <2>4. Complete(c, "flush") \in Connections
    BY Zenon, <2>1, CompleteType DEF Ops
  <2>5. /\ Safe(Complete(c, "flush")) /\ Bounded(Complete(c, "flush")) /\ Timed(Complete(c, "flush"))
        /\ Watching(Complete(c, "flush")) /\ Quiet(conn, Complete(c, "flush"))
    BY <2>1, <2>2 DEF Complete, Connections, Safe, Bounded, Timed, Watching, Quiet, Chain, Ops
  <2>. QED BY Zenon, <2>1, <2>2, <2>3, <2>4, <2>5
<1>7. CASE PeerShutdown
  <2>1. conn' = SocketClose(conn) /\ conn' \in Connections
    BY Zenon, <1>7, SocketCloseType DEF PeerShutdown
  <2>2. conn.started
    BY Zenon, <1>7 DEF PeerShutdown, Safe
  <2>3. \A o \in Ops : conn'.op[o] # "idle" => conn.op[o] # "idle"
    BY ZenonT(60), <2>1 DEF SocketClose, Connections
  <2>4. /\ conn'.remaining = conn.remaining /\ conn'.reads = conn.reads /\ conn'.sock = "closed"
        /\ conn'.dispatch = conn.dispatch /\ conn'.started = conn.started
        /\ conn'.attached = conn.attached /\ conn'.errors = conn.errors
        /\ conn'.messages = conn.messages
    <3> DEFINE ops == [o \in Ops |-> IF conn.op[o] = "pending" THEN "posted" ELSE conn.op[o]]
               all == [o \in Ops |-> TRUE]
    <3>1. conn' = [conn EXCEPT !.sock = "closed", !.op = ops, !.aborted = all]
      BY <2>1 DEF SocketClose
    <3> HIDE DEF ops, all
    <3>. QED BY <3>1 DEF Connections
  <2>. QED
    <3>1. Bounded(conn') /\ Timed(conn') /\ Watching(conn') /\ Quiet(conn, conn')
      BY Zenon, <2>4 DEF Bounded, Timed, Watching, Quiet
    <3>2. Chain \subseteq Ops
      BY Zenon DEF Chain, Ops
    <3>3. Safe(conn')
      BY Zenon, <2>2, <2>3, <2>4, <3>2 DEF Safe
    <3>. QED BY Zenon, <2>1, <3>1, <3>3
<1>. QED BY Zenon, <1>1, <1>2, <1>3, <1>4, <1>5, <1>6, <1>7

-----------------------------------------------------------------------------
(* The theorems.                                                           *)

\* A connection that was just made satisfies the invariant.
LEMMA InitIInv ==
  ASSUME ConnectionAssumption, ConnectionInit
  PROVE  IInv
<1>1. PICK role \in {"server", "client", "simple"}, immediate \in BOOLEAN :
        conn = [role |-> role, started |-> FALSE, attached |-> TRUE, orphan |-> FALSE,
            timeout_state |-> "none", timer |-> "infinite", check |-> "idle",
            sock |-> "closed", op |-> [o \in Ops |-> "idle"],
            aborted |-> [o \in Ops |-> FALSE], clean |-> FALSE,
            remaining |-> 0, dispatch |-> "none", immediate |-> immediate,
            reads |-> MaxSocketReads, progress |-> 0,
            errors |-> 0, messages |-> 0, called |-> FALSE]
  BY Zenon DEF ConnectionInit
<1>2. conn \in Connections
  <2>1. MaxSocketReads \in 0 .. MaxSocketReads /\ 0 \in Nat /\ 0 \in Int /\ 0 \in 0 .. MaxProgress
    BY DEF ConnectionAssumption
  <2>. QED BY Zenon, <1>1, <2>1 DEF Connections
<1>3. Safe(conn) /\ Timed(conn) /\ Watching(conn)
  <2>1. /\ conn.sock = "closed" /\ conn.dispatch = "none" /\ conn.errors = 0
        /\ conn.op = [o \in Ops |-> "idle"]
    BY Zenon, <1>1
  <2>2. \A o \in Chain : conn.op[o] = "idle"
    BY Zenon, <2>1 DEF Chain, Ops
  <2>3. conn.errors <= 1
    BY <2>1
  <2>. QED BY Zenon, <2>1, <2>2, <2>3 DEF Safe, Timed, Watching
<1>4. Bounded(conn)
  <2>1. MaxSocketReads \in 0 .. MaxSocketReads /\ MaxSize \in Nat
    BY DEF ConnectionAssumption
  <2>2. Least(MaxSocketReads) <= 0
    BY Zenon, <2>1, LeastSteps
  <2>3. /\ conn.remaining = 0 /\ conn.reads = MaxSocketReads /\ conn.sock = "closed"
    BY Zenon, <1>1
  <2>4. 0 <= MaxSize
    BY <2>1
  <2>. QED BY Zenon, <2>2, <2>3, <2>4 DEF Bounded
<1>. QED BY <1>2, <1>3, <1>4 DEF IInv, Sound

\* Every step keeps the invariant and the silence of a detached connection.
LEMMA StepKeeps ==
  ASSUME ConnectionAssumption, IInv, [ConnectionNext]_conn
  PROVE  IInv' /\ Quiet(conn, conn')
<1>1. CASE ConnectionNext
  BY Zenon, <1>1, HandlersKeep, EnvironmentKeeps DEF ConnectionNext
<1>2. CASE UNCHANGED conn
  BY <1>2 DEF IInv, Sound, Safe, Bounded, Timed, Watching, Quiet
<1>. QED BY Zenon, <1>1, <1>2

\* The invariant holds throughout, for all sizes of messages and numbers of
\* reads and timer extensions.
THEOREM Invariance ==
  ASSUME ConnectionAssumption
  PROVE  ConnectionSpec => []IInv
<1>1. ConnectionInit => IInv
  BY Zenon, InitIInv
<1>2. IInv /\ [ConnectionNext]_conn => IInv'
  BY StepKeeps
<1>. QED BY <1>1, <1>2, PTL DEF ConnectionSpec

\* ConnectionIsWatched for all bounds: an open socket always has a CheckTimeout
\* to come and a deadline unless the application is at work on its message, and
\* operations of the connection never overlap.
THEOREM IsWatched ==
  ASSUME ConnectionAssumption
  PROVE  ConnectionSpec => []ConnectionIsWatched
<1>1. IInv => ConnectionIsWatched
  <2> SUFFICES ASSUME IInv PROVE ConnectionIsWatched
    BY Zenon
  <2>1. ConnectionTypeOK
    <3>1. conn \in Connections /\ conn.errors \in 0 .. 1
      BY DEF IInv, Sound, Connections, Safe
    <3>2. conn.remaining \in -MaxSize * MaxSocketReads - MaxSize .. MaxSize
      <4>1. conn.remaining \in Int /\ conn.reads \in 0 .. MaxSocketReads
        BY Zenon, <3>1 DEF Connections
      <4>2. /\ Least(conn.reads) \in Int /\ -MaxSize * MaxSocketReads - MaxSize <= Least(conn.reads)
            /\ -MaxSize * MaxSocketReads - MaxSize \in Int /\ MaxSize \in Int
        <5>1. Least(conn.reads) \in Int /\ -MaxSize * MaxSocketReads - MaxSize <= Least(conn.reads)
          BY Zenon, <4>1, LeastSteps
        <5>2. -MaxSize * MaxSocketReads - MaxSize \in Int /\ MaxSize \in Int
          BY DEF ConnectionAssumption
        <5>. QED BY Zenon, <5>1, <5>2
      <4>3. Least(conn.reads) <= conn.remaining /\ conn.remaining <= MaxSize
        BY Zenon DEF IInv, Sound, Bounded
      <4> DEFINE low == -MaxSize * MaxSocketReads - MaxSize
      <4>4. low \in Int /\ low <= Least(conn.reads)
        BY Zenon, <4>2
      <4> HIDE DEF low
      <4>5. conn.remaining \in low .. MaxSize
        BY <4>1, <4>2, <4>3, <4>4
      <4>. QED BY Zenon, <4>5 DEF low
    <3>. QED BY Zenon, <3>1, <3>2 DEF ConnectionTypeOK, Connections
  <2>2. Watched
    BY Zenon DEF IInv, Timed, Watching, Watched
  <2>3. OneAtATime
    BY DEF IInv, Sound, Safe, OneAtATime, Chain
  <2>. QED BY Zenon, <2>1, <2>2, <2>3 DEF ConnectionIsWatched
<1>. QED BY <1>1, Invariance, PTL

\* SignalsEnd for all bounds: a connection that has detached from its
\* transport, as CloseOnError and DoClose make it, signals neither a message
\* nor an error ever after.
THEOREM DetachedIsQuiet ==
  ASSUME ConnectionAssumption
  PROVE  ConnectionSpec => SignalsEnd
<1>1. IInv /\ [ConnectionNext]_conn =>
        [~conn.attached => /\ conn'.errors = conn.errors
                           /\ conn'.messages = conn.messages
                           /\ ~conn'.attached]_conn
  BY StepKeeps DEF Quiet
<1>. QED BY <1>1, Invariance, PTL DEF ConnectionSpec, SignalsEnd
=============================================================================
