------------------------ MODULE RudpSequenceNumbers ------------------------
(***************************************************************************)
(* The arithmetic of RUDP sequence numbers: the static and const members   *)
(* of RudpSlidingWindow that only look at the two ends of a window.        *)
(* Numbers run from 0 to kMaxSequenceNumber and then start again from 0.   *)
(***************************************************************************)
EXTENDS Integers

CONSTANTS
  kMaxSequenceNumber,    \* 0x7fffffff in the code
  maximum_window_size,   \* RudpParameters::maximum_window_size, 512
  default_window_size    \* RudpParameters::default_window_size, 16

ASSUME SequenceAssumption ==
  /\ kMaxSequenceNumber \in Nat
  /\ maximum_window_size \in Nat
  /\ default_window_size \in Nat
  /\ 1 <= default_window_size
  /\ default_window_size <= maximum_window_size
  /\ maximum_window_size <= kMaxSequenceNumber

SeqNums == 0 .. kMaxSequenceNumber

\* RudpSlidingWindow::Next
Following(n) == IF n = kMaxSequenceNumber THEN 0 ELSE n + 1

IsInRange(begin, end, n) ==
  IF begin <= end
    THEN begin <= n /\ n < end
    ELSE n < end \/ (n >= begin /\ n <= kMaxSequenceNumber)

\* A number within one maximum window past the end.
IsComingSoon(end, n) ==
  IsInRange(end, (end + maximum_window_size) % (kMaxSequenceNumber + 1), n)

SequenceNumberToIndex(begin, end, n) ==
  IF begin <= end THEN n - begin
  ELSE IF n < end THEN kMaxSequenceNumber - begin + n + 1
  ELSE n - begin

\* The steps of Following that lead from one number to another: what
\* items_.size() is for the two ends of a window.
Distance(from, to) ==
  IF from <= to THEN to - from ELSE kMaxSequenceNumber + 1 - from + to

\* k steps of Following, k <= kMaxSequenceNumber.
Advance(n, k) ==
  IF n + k <= kMaxSequenceNumber THEN n + k ELSE n + k - kMaxSequenceNumber - 1
=============================================================================
