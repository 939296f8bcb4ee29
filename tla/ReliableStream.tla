--------------------------- MODULE ReliableStream ---------------------------
(***************************************************************************)
(* What one direction of an RUDP connection promises to the two            *)
(* applications: chunks 1, 2, 3, ... are written at one end, arrive at the *)
(* other end in any order, are confirmed to the writer only after they     *)
(* have arrived, and are read in the order in which they were written.     *)
(***************************************************************************)
EXTENDS Integers, Sequences

VARIABLES
  written,    \* number of chunks the writing socket has accepted
  arrived,    \* the chunks that the reading socket holds or has handed over
  confirmed,  \* the writing socket has dropped chunks 1 .. confirmed
  delivered   \* what the reading application was given

vars == <<written, arrived, confirmed, delivered>>

Init ==
  /\ written = 0
  /\ arrived = {}
  /\ confirmed = 0
  /\ delivered = <<>>

Writer ==
  /\ written' >= written
  /\ confirmed' >= confirmed
  /\ \A i \in 1 .. confirmed' : i \in arrived
  /\ UNCHANGED <<arrived, delivered>>

Reader ==
  /\ arrived \subseteq arrived'
  /\ \A i \in arrived' : i <= written
  /\ Len(delivered') >= Len(delivered)
  /\ \A i \in 1 .. Len(delivered') : delivered'[i] = i /\ i \in arrived'
  /\ UNCHANGED <<written, confirmed>>

Next == Writer \/ Reader

Spec == Init /\ [][Next]_vars
=============================================================================
