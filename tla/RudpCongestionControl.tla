----------------------- MODULE RudpCongestionControl ------------------------
(***************************************************************************)
(* RudpCongestionControl: what a socket measures (the round trip time, the *)
(* rate at which packets arrive, the speed of the transmission) and the    *)
(* sizes it derives from that (the send window and the data of a packet).  *)
(* Its methods are called by the sender, the receiver and the connection   *)
(* in any order.                                                           *)
(***************************************************************************)
EXTENDS Integers, Sequences, FiniteSets, Functions

CONSTANTS
  DefaultWindow, MaximumWindow, DefaultData, MaxData,   \* RudpParameters, in packets and bytes
  SlowSpeed, SpeedInterval,
  MaxArrivalTimes, MaxPacketPairIntervals,
  Enough,        \* the number of packets and of intervals that is too few (8)
  Second,        \* ticks of the clock
  Syn,           \* kSynPeriod
  Word, Wide,    \* the ranges of uint32_t and of uint64_t
  LocalType, Wireless, E1, Gigabit, Types,   \* connection types, from the worst to the best
  Rtts, Buffers, Rates, Lengths,             \* what the network and the peer bring
  Steps, Backs,  \* how far the clock moves on, or is set back, between two events
  MaxPackets, MaxAcks, MaxReports, MaxReads  \* bounds: events

ASSUME SizesAssumption ==
  /\ DefaultWindow \in Nat /\ MaximumWindow \in Nat /\ DefaultWindow <= MaximumWindow
  /\ DefaultData \in Nat \ {0} /\ MaxData \in Nat /\ DefaultData <= MaxData
  /\ Buffers \subseteq Nat

\* A new estimate of the round trip time does not leave its 32 bits.
ASSUME RttAssumption == Word \in Nat \ {0} /\ Rtts \subseteq Nat /\ \A r \in Rtts : 8 * r < Word

VARIABLES
  round_trip_time_, round_trip_time_variance_, ack_delay_,
  packets_receiving_rate_, estimated_link_capacity_, arrival_times_, packet_pair_intervals_,
  send_window_size_, receive_window_size_, send_data_size_,
  lost_packets_, corrupted_packets_, allowed_lost_,
  transmitted_bits_, last_record_transmit_time_, transmission_speed_,
  now,       \* RudpTickTimer::Now() at the last event
  acks,      \* history: acks received, and the room that the last one reported
  reports,   \* history: packets reported as lost or corrupted
  packets,   \* history: data packets received
  measured,  \* history: the intervals of the last measurement
  reads      \* history: the reads, the bits since the last record, and the last answer

rttVars == <<round_trip_time_, round_trip_time_variance_, ack_delay_>>
rateVars == <<packets_receiving_rate_, estimated_link_capacity_>>
arrivalVars == <<arrival_times_, packet_pair_intervals_, receive_window_size_, packets, measured>>
lossVars == <<lost_packets_, corrupted_packets_, reports>>
sizeVars == <<send_window_size_, send_data_size_>>
speedVars == <<transmitted_bits_, last_record_transmit_time_, transmission_speed_, reads>>
vars == <<rttVars, rateVars, arrivalVars, lossVars, sizeVars, speedVars, allowed_lost_, now, acks>>

Now == {now + d : d \in Steps} \cup {now - d : d \in Backs}

Lesser(a, b) == IF a < b THEN a ELSE b
Greater(a, b) == IF a > b THEN a ELSE b
\* push_back, then pop_front while there are more than n.
Last(s, n) == IF Len(s) > n THEN SubSeq(s, Len(s) - n + 1, Len(s)) ELSE s
Count(S) == Cardinality(S)

\* The value at the middle of the sorted sequence.
Median(s) == CHOOSE m \in {s[i] : i \in DOMAIN s} :
               /\ Count({i \in DOMAIN s : s[i] < m}) <= Len(s) \div 2
               /\ Count({i \in DOMAIN s : s[i] <= m}) > Len(s) \div 2

-----------------------------------------------------------------------------
Init ==
  /\ round_trip_time_ = 0 /\ round_trip_time_variance_ = 0 /\ ack_delay_ = Syn
  /\ packets_receiving_rate_ = 0 /\ estimated_link_capacity_ = 0
  /\ arrival_times_ = <<>> /\ packet_pair_intervals_ = <<>>
  /\ send_window_size_ = DefaultWindow /\ receive_window_size_ = DefaultWindow
  /\ send_data_size_ = DefaultData
  /\ lost_packets_ = 0 /\ corrupted_packets_ = 0 /\ allowed_lost_ = 0
  /\ transmitted_bits_ = 0 /\ last_record_transmit_time_ = 0 /\ transmission_speed_ = 0
  /\ now = 0 /\ acks = [number |-> 0, room |-> 0] /\ reports = 0 /\ packets = 0 /\ measured = <<>>
  /\ reads = [number |-> 0, bits |-> 0, duration |-> 0, slow |-> FALSE]

\* RudpSocket::HandleHandshake, when the connection is open.
OnOpen(type) ==
  /\ reads.number = 0 /\ allowed_lost_ = 0
  /\ transmitted_bits_' = 0
  /\ allowed_lost_' = LET worst == Lesser(type, LocalType)
                      IN  IF worst <= Wireless THEN 5 ELSE IF worst <= E1 THEN 2
                          ELSE IF worst <= Gigabit THEN 1 ELSE allowed_lost_
  /\ UNCHANGED <<rttVars, rateVars, arrivalVars, lossVars, sizeVars, now, acks,
                 last_record_transmit_time_, transmission_speed_, reads>>

OnClose ==
  /\ transmitted_bits_ > 0 /\ transmitted_bits_' = 0
  /\ reads' = [reads EXCEPT !.bits = 0, !.duration = 0, !.slow = FALSE]
  /\ UNCHANGED <<rttVars, rateVars, arrivalVars, lossVars, sizeVars, allowed_lost_, now, acks,
                 last_record_transmit_time_, transmission_speed_>>

\* A packet that is the second of a pair gives an interval, too.
OnDataPacketReceived(second) ==
  /\ packets < MaxPackets
  /\ now' \in Now
  /\ packet_pair_intervals_' =
       IF second /\ arrival_times_ # <<>>
       THEN Last(Append(packet_pair_intervals_, now' - arrival_times_[Len(arrival_times_)]), MaxPacketPairIntervals)
       ELSE packet_pair_intervals_
  /\ arrival_times_' = Last(Append(arrival_times_, now'), MaxArrivalTimes)
  /\ packets' = packets + 1
  /\ UNCHANGED <<rttVars, rateVars, receive_window_size_, measured, lossVars, sizeVars, speedVars, allowed_lost_, acks>>

\* total_microseconds() as a uint64_t.
Intervals == [i \in 1..(Len(arrival_times_) - 1) |-> (arrival_times_[i + 1] - arrival_times_[i]) % Wide]

\* Faulty variant of Valid: intervals of any length count.
WrongValid(s) == s

\* The intervals not too far from the median.
Valid(s) == LET m == Median(s) IN SelectSeq(s, LAMBDA x : m \div 8 <= x /\ x <= (m * 8) % Wide)

ReceivingRate(valid) ==
  IF SumFunction(valid) > 0 /\ Len(valid) > Enough THEN (Second * Len(valid)) \div SumFunction(valid) ELSE 0

LinkCapacity ==
  IF packet_pair_intervals_ = <<>> THEN estimated_link_capacity_
  ELSE LET m == Median([i \in DOMAIN packet_pair_intervals_ |-> packet_pair_intervals_[i] % Wide])
       IN  IF m > 0 THEN Second \div m ELSE 0

OnGenerateAck ==
  /\ Len(arrival_times_) > Enough
  /\ \E valid \in {Valid(Intervals)} :
       /\ packets_receiving_rate_' = ReceivingRate(valid)
       /\ measured' = valid
  /\ estimated_link_capacity_' = LinkCapacity
  /\ receive_window_size_' = MaximumWindow
  /\ UNCHANGED <<rttVars, arrival_times_, packet_pair_intervals_, packets, lossVars, sizeVars, speedVars,
                 allowed_lost_, now, acks>>

\* Faulty variant of SendDataSize: the size is not limited.
EndlessSendDataSize ==
  IF corrupted_packets_ + lost_packets_ > allowed_lost_
  THEN Greater(DefaultData, (9 * send_data_size_) \div 10)
  ELSE (3 * send_data_size_) \div 2

\* The data of a packet grows as long as the peer reports few losses.
SendDataSize ==
  IF corrupted_packets_ + lost_packets_ > allowed_lost_
  THEN Greater(DefaultData, (9 * send_data_size_) \div 10)
  ELSE Lesser(MaxData, (3 * send_data_size_) \div 2)

\* Faulty variant of SendWindowSize: the window never grows.
StuckSendWindowSize(available_buffer_size, data_size) ==
  IF available_buffer_size > 8 * data_size THEN send_window_size_
  ELSE Greater(DefaultWindow, (9 * send_window_size_) \div 10)

\* The window grows as long as the peer has room for eight packets.
SendWindowSize(available_buffer_size, data_size) ==
  IF available_buffer_size > 8 * data_size
  THEN Lesser(MaximumWindow, send_window_size_ + ((available_buffer_size + 1) \div MaxData))
  ELSE Greater(DefaultWindow, (9 * send_window_size_) \div 10)

AckDelay(rtt, variance) == 4 * rtt + variance + Syn

\* A new value counts for an eighth, zero for nothing.
Smooth(old, new) == IF new = 0 THEN old ELSE (7 * old + new) \div 8

\* An ack with the optional fields.
OnAck(rtt, variance, available_buffer_size, rate, capacity) ==
  /\ round_trip_time_' = rtt /\ round_trip_time_variance_' = variance
  /\ ack_delay_' = AckDelay(rtt, variance)
  /\ packets_receiving_rate_' = Smooth(packets_receiving_rate_, rate)
  /\ estimated_link_capacity_' = Smooth(estimated_link_capacity_, capacity)
  /\ send_data_size_' = SendDataSize
  /\ corrupted_packets_' = 0 /\ lost_packets_' = 0
  /\ send_window_size_' = SendWindowSize(available_buffer_size, send_data_size_')
  /\ acks' = [number |-> IF acks.number < MaxAcks THEN acks.number + 1 ELSE MaxAcks,
              room |-> available_buffer_size]
  /\ UNCHANGED <<arrivalVars, reports, speedVars, allowed_lost_, now>>

OnNegativeAck ==
  /\ reports < MaxReports /\ reports' = reports + 1
  /\ corrupted_packets_' = corrupted_packets_ + 1
  /\ UNCHANGED <<rttVars, rateVars, arrivalVars, lost_packets_, sizeVars, speedVars, allowed_lost_, now, acks>>

OnSendTimeout ==
  /\ reports < MaxReports /\ reports' = reports + 1
  /\ lost_packets_' = lost_packets_ + 1
  /\ UNCHANGED <<rttVars, rateVars, arrivalVars, corrupted_packets_, sizeVars, speedVars, allowed_lost_, now, acks>>

\* Faulty variant of Average: eight eighths of the old value.
WrongAverage(old, new, weight) == ((weight + 1) * old + new) \div (weight + 1)

\* Both steps are done in 32 bits.
Average(old, new, weight) == ((((weight * old) % Word) + new) % Word) \div (weight + 1)

OnAckOfAck(rtt) ==
  /\ acks.number < MaxAcks /\ acks' = [acks EXCEPT !.number = @ + 1]
  /\ round_trip_time_' = Average(round_trip_time_, rtt, 7)
  /\ round_trip_time_variance_' =
       Average(round_trip_time_variance_,
               Greater(rtt, round_trip_time_) - Lesser(rtt, round_trip_time_), 3)
  /\ ack_delay_' = AckDelay(round_trip_time_', round_trip_time_variance_')
  /\ UNCHANGED <<rateVars, arrivalVars, lossVars, sizeVars, speedVars, allowed_lost_, now>>

\* In bits per second; the product has 32 bits.
Speed(bits, duration) == ((Second * bits) % Word) \div duration

\* The connection asks for each piece that it has read or sent.
IsSlowTransmission(length) ==
  /\ reads.number < MaxReads
  /\ now' \in Now
  /\ \E duration \in {now' - last_record_transmit_time_},
        total \in {(transmitted_bits_ + 8 * length) % Word},
        since \in {IF reads.duration > 0 THEN 0 ELSE reads.bits} :
       IF transmitted_bits_ = 0
       THEN /\ transmitted_bits_' = total /\ last_record_transmit_time_' = now'
            /\ reads' = [number |-> reads.number + 1, bits |-> 8 * length, duration |-> 0, slow |-> FALSE]
            /\ UNCHANGED transmission_speed_
       ELSE IF duration > SpeedInterval
       THEN /\ transmission_speed_' = Speed(total, duration)
            /\ transmitted_bits_' = 1 /\ last_record_transmit_time_' = now'
            /\ reads' = [number |-> reads.number + 1, bits |-> since + 8 * length,
                         duration |-> duration, slow |-> transmission_speed_' < SlowSpeed]
       ELSE /\ transmitted_bits_' = total
            /\ reads' = [number |-> reads.number + 1,
                         bits |-> since + 8 * length,
                         duration |-> 0, slow |-> FALSE]
            /\ UNCHANGED <<last_record_transmit_time_, transmission_speed_>>
  /\ UNCHANGED <<rttVars, rateVars, arrivalVars, lossVars, sizeVars, allowed_lost_, acks>>

OnAnyAck == \E rtt, variance \in Rtts, b \in Buffers, rate, capacity \in Rates :
              OnAck(rtt, variance, b, rate, capacity)

Next ==
  \/ \E type \in Types : OnOpen(type)
  \/ OnClose \/ OnGenerateAck \/ OnNegativeAck \/ OnSendTimeout \/ OnAnyAck
  \/ \E second \in BOOLEAN : OnDataPacketReceived(second)
  \/ \E rtt \in Rtts : OnAckOfAck(rtt)
  \/ \E length \in Lengths : IsSlowTransmission(length)

Spec == Init /\ [][Next]_vars

-----------------------------------------------------------------------------
(* Properties.                                                             *)

\* Type invariant.
TypeOK ==
  /\ {round_trip_time_, round_trip_time_variance_, packets_receiving_rate_,
      estimated_link_capacity_, transmitted_bits_, transmission_speed_} \subseteq 0..(Word - 1)
  /\ allowed_lost_ \in {0, 1, 2, 5} /\ lost_packets_ + corrupted_packets_ <= reports
  /\ Len(arrival_times_) <= MaxArrivalTimes /\ Len(packet_pair_intervals_) <= MaxPacketPairIntervals

\* However acks, losses and reported buffer sizes follow each other, the window and the
\* data of a packet stay between their default and their maximum (a packet of more than
\* max_data_size bytes would not fit into the peer's buffer).
SizesInBounds ==
  /\ send_window_size_ \in DefaultWindow..MaximumWindow
  /\ send_data_size_ \in DefaultData..MaxData

\* OnAckOfAck moves the estimate of the round trip time towards the new value and not
\* past it (down to the rounding of the division).
RttBetween ==
  [][\A rtt \in Rtts : OnAckOfAck(rtt) =>
       round_trip_time_' \in (Lesser(rtt, round_trip_time_) - 1)..Greater(rtt, round_trip_time_)]_vars

\* The measured rate is that of no interval that was left out: it lies between the rates
\* of the shortest and of the longest of the intervals that count, and an interval over
\* which the clock was set back does not count when most are regular.
RateIsPlausible ==
  measured # <<>> =>
    /\ \A i, j \in DOMAIN measured : measured[i] <= 64 * (measured[j] + 1)
    /\ ReceivingRate(measured) > 0 =>
         /\ \E i \in DOMAIN measured : measured[i] * ReceivingRate(measured) <= Second
         /\ \E i \in DOMAIN measured : Second < (ReceivingRate(measured) + 1) * measured[i]

\* After losses and a full buffer, the window and the packets grow back to their maximum
\* once the peer keeps reporting room and no more losses are reported.
Recovers ==
  <>[](acks.room > 8 * MaxData)
    => <>(send_window_size_ = MaximumWindow /\ send_data_size_ = MaxData)

\* "If transmission speed is too slow, the socket shall be forced closed": whenever
\* IsSlowTransmission takes a record, fewer bits than the threshold asks for make it
\* answer slow, whatever wraps (one bit more is counted, transmitted_bits_ = 1).  The
\* answer slow is wrong only where 1000 * transmitted_bits_ has left its 32 bits.
SlowIsSlow ==
  /\ reads.duration > 0 /\ Second * (reads.bits + 1) < SlowSpeed * reads.duration => reads.slow
  /\ reads.slow => \/ Second * reads.bits < SlowSpeed * reads.duration
                   \/ Second * (reads.bits + 1) >= Word
=============================================================================
