----------------------------- MODULE RudpTicks ------------------------------
(***************************************************************************)
(* The timing of one connected RudpSocket: one RudpTickTimer shared by its *)
(* RudpSender and its RudpReceiver.  Times are relative to now: the timer  *)
(* counts down, the age of a packet counts up.  What the peer sends is     *)
(* free.  UDP sends succeed here; RudpStream has the failing ones.         *)
(***************************************************************************)
EXTENDS Integers, Sequences

CONSTANTS
  SendDelay,       \* RudpParameters::default_send_delay
  SendTimeout,     \* RudpParameters::default_send_timeout
  ReceiveDelay,    \* RudpParameters::default_receive_delay
  ReceiveTimeout,  \* RudpParameters::default_receive_timeout
  Late,            \* bound: how late a timer handler runs
  Window,          \* bound: packets in a window
  MaxWrite         \* bound: packets' worth of data in one write

TicksAssumption ==
  /\ SendDelay \in Nat /\ SendTimeout \in Nat
  /\ ReceiveDelay \in Nat /\ ReceiveTimeout \in Nat
  /\ Late \in Nat /\ Window \in Nat /\ MaxWrite \in Nat
  /\ 0 < ReceiveDelay /\ ReceiveDelay <= SendDelay

VARIABLES
  expires,       \* time until tick_timer_ expires; below 0 it is late
  send_timeout,  \* time until RudpSender::send_timeout_
  unacked,       \* RudpSender::unacked_packets_: lost, and age since last sent
  waiting,       \* packets' worth of data left in waiting_write_buffer_
  unread         \* RudpReceiver::unread_packets_: lost, and age since reserved

ticksVars == <<expires, send_timeout, unacked, waiting, unread>>

Infinity == SendDelay + SendTimeout + 1   \* pos_infin
Oldest(timeout) == timeout + 1            \* ages above a timeout are alike

Minimum(a, b) == IF a <= b THEN a ELSE b

-----------------------------------------------------------------------------
(* RudpTickTimer.                                                          *)

Expired == expires = Infinity \/ expires <= 0

\* TickAt and TickAfter: only ever earlier.
TickAfter(timer, d) == IF d < timer THEN d ELSE timer

-----------------------------------------------------------------------------
(* RudpSender.                                                             *)

\* A packet new in a window, and one just sent or received.
Fresh == [lost |-> TRUE, age |-> 0]
Done == [lost |-> FALSE, age |-> 0]

LostIn(w) == {i \in DOMAIN w : w[i].lost}

\* DoSend: one lost packet goes out and the timer is set, or none is lost and
\* the send timeout is set, without the timer.
Outcome(w, timer, timeout) == [w |-> w, timer |-> timer, timeout |-> timeout]

\* Faulty variant of DoSend: after sending, the timer is left alone.
WrongDoSend(w, timer, timeout) ==
  IF LostIn(w) # {}
    THEN LET n == CHOOSE i \in LostIn(w) : \A j \in LostIn(w) : i <= j
         IN  Outcome([w EXCEPT ![n] = Done], timer, timeout)
    ELSE Outcome(w, timer, IF w = <<>> THEN timeout ELSE SendTimeout - w[1].age)

DoSend(w, timer, timeout) ==
  IF LostIn(w) # {}
    THEN LET n == CHOOSE i \in LostIn(w) : \A j \in LostIn(w) : i <= j
         IN  Outcome([w EXCEPT ![n] = Done],
                     TickAfter(timer, SendDelay), timeout)
    ELSE Outcome(w, timer, IF w = <<>> THEN timeout ELSE SendTimeout - w[1].age)

\* AddData: the packets that the window still takes.
Added(w, data) == Minimum(data, Window - Len(w))

\* RudpSocket::ProcessWrite with data packets' worth of data waiting, after a
\* step of the sender with that outcome: AddData fills the window and sends.
ProcessWrite(step, data) ==
  \E o \in {step} :
    LET c == Added(o.w, data)
        filled == o.w \o [i \in 1 .. c |-> Fresh]
    IN  \E r \in {IF data = 0 THEN o ELSE DoSend(filled, o.timer, o.timeout)} :
          /\ unacked' = r.w
          /\ expires' = r.timer
          /\ send_timeout' = r.timeout
          /\ waiting' = data - c

Unchanged == Outcome(unacked, expires, send_timeout)

\* RudpSocket::StartWrite.
Write(k) ==
  /\ waiting = 0
  /\ ProcessWrite(Unchanged, k)
  /\ UNCHANGED unread

MarkLost(w, ns) == [i \in DOMAIN w |-> [w[i] EXCEPT !.lost = @ \/ i \in ns]]

-----------------------------------------------------------------------------
(* RudpReceiver.                                                           *)

\* ReadData takes k packets before the first lost one.
Readable(w) == {k \in 0 .. Len(w) : \A i \in 1 .. k : ~w[i].lost}

ProcessRead(window) ==
  \E w \in {window} : \E k \in Readable(w) : unread' = SubSeq(w, k + 1, Len(w))

\* RudpSocket::HandleAck: the first k packets are acknowledged.
HandleAck(k) ==
  /\ k \in 0 .. Len(unacked)
  /\ ProcessWrite(DoSend(SubSeq(unacked, k + 1, Len(unacked)), expires, send_timeout),
                  waiting)
  /\ ProcessRead(unread)

\* RudpSocket::HandleNegativeAck.
HandleNegativeAck(ns) ==
  /\ ns \subseteq DOMAIN unacked
  /\ \E r \in {DoSend(MarkLost(unacked, ns), expires, send_timeout)} :
       /\ unacked' = r.w
       /\ expires' = r.timer
       /\ send_timeout' = r.timeout
  /\ UNCHANGED <<waiting, unread>>

\* HandleData makes sure that a tick follows.
DataTimer == IF Expired THEN TickAfter(expires, ReceiveDelay) ELSE expires

\* RudpSocket::HandleData: a packet for slot n of the window, the slots up to n
\* reserved as lost; n = 0 for a packet that is not in the window.
HandleData(n) ==
  /\ n \in 0 .. Window
  /\ ProcessRead([i \in 1 .. (IF n <= Len(unread) THEN Len(unread) ELSE n) |->
                    IF i = n THEN Done
                    ELSE IF i <= Len(unread) THEN unread[i] ELSE Fresh])
  /\ ProcessWrite(Outcome(unacked, DataTimer, send_timeout), waiting)

\* RudpSocket::HandleAckOfAck, or HandleAck of a number outside the window, which
\* the sender ignores: what waits is processed.
HandleAckOfAck ==
  /\ ProcessRead(unread)
  /\ ProcessWrite(Unchanged, waiting)

\* RudpSocket::StartRead.
Read ==
  /\ ProcessRead(unread)
  /\ UNCHANGED <<expires, send_timeout, unacked, waiting>>

-----------------------------------------------------------------------------
(* The tick.                                                               *)

\* Packets not acknowledged within the timeout, once it has passed.
TimedOut == {i \in DOMAIN unacked : send_timeout <= 0 /\ SendTimeout < unacked[i].age}

\* Slots that have been empty for the receive timeout are asked for and then
\* wait again.
Asked ==
  [i \in DOMAIN unread |->
     IF unread[i].lost /\ ReceiveTimeout < unread[i].age THEN Fresh ELSE unread[i]]

\* RudpTickOp, RudpSocket::HandleTick: the timer is reset, then the sender and
\* the receiver set it again as they need it.
Tick ==
  /\ expires <= 0
  /\ LET timeout == IF send_timeout <= 0 THEN Infinity ELSE send_timeout
         s == DoSend(MarkLost(unacked, TimedOut), Infinity, timeout)
         timer == IF unread = <<>> THEN s.timer ELSE TickAfter(s.timer, ReceiveDelay)
     IN  ProcessWrite(Outcome(s.w, timer, s.timeout), waiting)
  /\ ProcessRead(Asked)

Passed(t) == IF t = Infinity THEN t ELSE t - 1
Aged(w, timeout) ==
  [i \in DOMAIN w |-> [w[i] EXCEPT !.age = Minimum(@ + 1, Oldest(timeout))]]

\* Time passes; handlers are at most Late behind.
Elapse ==
  /\ expires > -Late
  /\ expires' = Passed(expires)
  /\ send_timeout' = IF send_timeout < 0 THEN send_timeout ELSE Passed(send_timeout)
  /\ unacked' = Aged(unacked, SendTimeout)
  /\ unread' = Aged(unread, ReceiveTimeout)
  /\ UNCHANGED waiting

-----------------------------------------------------------------------------
\* A send timeout that was never set, not_a_date_time, counts as passed.
TicksInit ==
  /\ expires = Infinity
  /\ send_timeout = 0
  /\ unacked = <<>>
  /\ waiting = 0
  /\ unread = <<>>

TicksNext ==
  \/ \E k \in 1 .. MaxWrite : Write(k)
  \/ \E k \in 0 .. Window : HandleAck(k)
  \/ \E ns \in SUBSET (1 .. Window) : HandleNegativeAck(ns)
  \/ \E n \in 0 .. Window : HandleData(n)
  \/ HandleAckOfAck
  \/ Read
  \/ Tick
  \/ Elapse

TicksSpec == TicksInit /\ [][TicksNext]_ticksVars

-----------------------------------------------------------------------------
(* Properties.                                                             *)

\* Type invariant.
Slots(timeout) == [lost : BOOLEAN, age : 0 .. Oldest(timeout)]

TicksTypeOK ==
  /\ expires \in -Late .. Infinity
  /\ send_timeout \in -1 .. Infinity
  /\ unacked \in Seq(Slots(SendTimeout)) /\ Len(unacked) <= Window
  /\ waiting \in 0 .. MaxWrite
  /\ unread \in Seq(Slots(ReceiveTimeout)) /\ Len(unread) <= Window

Armed == expires # Infinity

\* While a packet waits to be sent, or a slot of the receive window is occupied
\* or missing, the tick timer is set: DoSend and HandleData never leave work
\* behind without a tick to continue it.
WorkIsArmed == (LostIn(unacked) # {} \/ unread # <<>>) => Armed

\* A packet marked lost does not stay so: tick by tick DoSend reaches it, unless
\* it is acknowledged.
LostIsSent ==
  \A i \in 1 .. Window :
    (i \in LostIn(unacked)) ~> (i \notin DOMAIN unacked \/ ~unacked[i].lost)

\* "... with the timer set to expire at the time of the next interesting
\* time-based event": while packets are unacknowledged the timer is set, so that
\* the send timeout can mark them lost.
TimeoutIsArmed == unacked # <<>> => Armed
=============================================================================
