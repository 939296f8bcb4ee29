------------------------- MODULE RudpSlidingWindow --------------------------
(***************************************************************************)
(* The class RudpSlidingWindow: items in a deque, numbered by sequence     *)
(* numbers that wrap.  The operations are those its users call, under the  *)
(* preconditions that the class states for them.                           *)
(***************************************************************************)
EXTENDS RudpSequenceNumbers, Sequences

CONSTANTS
  Values,  \* what the users store in an item
  Blank    \* the item T() that Append puts in

ASSUME WindowAssumption == Blank \in Values

VARIABLES items, maximum_size, begin, end

windowVars == <<items, maximum_size, begin, end>>

Contains(n) == IsInRange(begin, end, n)
IsFull == Len(items) >= maximum_size
IsEmpty == items = <<>>

\* The element that operator[] reaches; TLA+ counts the deque from 1.
Place(n) == SequenceNumberToIndex(begin, end, n) + 1

WindowInit ==
  /\ items = <<>>
  /\ maximum_size = default_window_size
  /\ begin \in SeqNums \ {0}
  /\ end = begin

Reset(n) ==
  /\ maximum_size' = default_window_size
  /\ begin' = n
  /\ end' = n
  /\ items' = <<>>

SetMaximumSize(size) ==
  /\ maximum_size' = IF size < maximum_window_size THEN size ELSE maximum_window_size
  /\ UNCHANGED <<items, begin, end>>

\* Faulty variant of Append: the last number before the wrap is skipped.
WrongAppend ==
  /\ ~IsFull
  /\ items' = Append(items, Blank)
  /\ end' = IF end >= kMaxSequenceNumber - 1 THEN 0 ELSE end + 1
  /\ UNCHANGED <<maximum_size, begin>>

AppendItem ==
  /\ ~IsFull
  /\ items' = Append(items, Blank)
  /\ end' = Following(end)
  /\ UNCHANGED <<maximum_size, begin>>

\* Faulty variant of Remove: the newest item goes instead of the oldest.
WrongRemove ==
  /\ ~IsEmpty
  /\ items' = SubSeq(items, 1, Len(items) - 1)
  /\ begin' = Following(begin)
  /\ UNCHANGED <<maximum_size, end>>

Remove ==
  /\ ~IsEmpty
  /\ items' = Tail(items)
  /\ begin' = Following(begin)
  /\ UNCHANGED <<maximum_size, end>>

\* (*this)[n] = v
Write(n, v) ==
  /\ Contains(n)
  /\ items' = [items EXCEPT ![Place(n)] = v]
  /\ UNCHANGED <<maximum_size, begin, end>>

WindowNext ==
  \/ \E n \in SeqNums : Reset(n)
  \/ \E size \in 0 .. maximum_window_size + 1 : SetMaximumSize(size)
  \/ AppendItem
  \/ Remove
  \/ \E n \in SeqNums, v \in Values : Write(n, v)

WindowSpec == WindowInit /\ [][WindowNext]_windowVars

\* The non-const Back(), the one that a non-const window such as acks_ calls.
Back == Head(items)

-----------------------------------------------------------------------------
\* Type invariant.
WindowTypeOK ==
  /\ items \in Seq(Values)
  /\ maximum_size \in 0 .. maximum_window_size
  /\ begin \in SeqNums
  /\ end \in SeqNums

\* The deque and the two numbers agree: there is one item for each number from
\* begin_ to end_, also when the numbers wrap, and operator[] maps the contained
\* numbers one to one onto the deque without leaving it.
Aligned ==
  /\ Len(items) = Distance(begin, end)
  /\ Len(items) <= maximum_window_size
  /\ \A n \in SeqNums : Contains(n) => Place(n) \in 1 .. Len(items)
  /\ \A m, n \in SeqNums : Contains(m) /\ Contains(n) /\ Place(m) = Place(n) => m = n

\* The window implements the map from sequence numbers to items: an item is
\* found under the number that Append returned for it until it is removed.
Slots == [n \in {m \in SeqNums : Contains(m)} |-> items[Place(n)]]

Map == INSTANCE RudpWindowMap WITH slots <- Slots

ImplementsMap == Map!Spec

\* Back() gives the newest item, as the comment on it says.
BackIsNewest == ~IsEmpty => Back = items[Len(items)]
=============================================================================
