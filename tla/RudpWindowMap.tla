--------------------------- MODULE RudpWindowMap ----------------------------
(***************************************************************************)
(* What the users of RudpSlidingWindow rely on: a map from the sequence    *)
(* numbers of the window to items, which grows by the number after its     *)
(* newest and shrinks by its oldest.  RudpStream uses windows in this view.*)
(***************************************************************************)
EXTENDS RudpSequenceNumbers

CONSTANTS Values, Blank

VARIABLES begin, end, slots

vars == <<begin, end, slots>>

Init ==
  /\ begin \in SeqNums
  /\ end = begin
  /\ slots = [n \in {} |-> Blank]

Reset ==
  /\ begin' \in SeqNums
  /\ end' = begin'
  /\ slots' = [n \in {} |-> Blank]

Append ==
  /\ end \notin DOMAIN slots
  /\ end' = Following(end)
  /\ slots' = [n \in DOMAIN slots \cup {end} |-> IF n = end THEN Blank ELSE slots[n]]
  /\ UNCHANGED begin

Remove ==
  /\ begin \in DOMAIN slots
  /\ begin' = Following(begin)
  /\ slots' = [n \in DOMAIN slots \ {begin} |-> slots[n]]
  /\ UNCHANGED end

Write ==
  /\ \E n \in DOMAIN slots, v \in Values : slots' = [slots EXCEPT ![n] = v]
  /\ UNCHANGED <<begin, end>>

Next == Reset \/ Append \/ Remove \/ Write

Spec == Init /\ [][Next]_vars
=============================================================================
