------------------------- MODULE NatDetectionClient -------------------------
(***************************************************************************)
(* The node that wants to know its NAT: NatDetection::Detect, which asks   *)
(* its directly connected contacts one after the other (NatDetectionRpcs), *)
(* and NatTraversal, which keeps the hole to one of them open.             *)
(*                                                                         *)
(* The handlers of the message handler's signals run in another thread.    *)
(* Each request connects two more of them, and none is ever disconnected.  *)
(***************************************************************************)
EXTENDS Naturals, Sequences

CONSTANTS
  Contacts,     \* the number of contacts
  TypesTold,    \* the NAT types that are reported
  MaxRequests   \* bound: requests

ASSUME ClientAssumption ==
  Contacts \in Nat \ {0} /\ MaxRequests \in Nat \ {0} /\ "none" \notin TypesTold

VARIABLES
  candidates,  \* directly_connected_contacts
  up,          \* [1..Contacts -> BOOLEAN]: the contact answers
  detect,      \* Detect: "idle", "asked", "waiting", "notified", "returned"
  out,         \* what it has written for its caller: [type, rendezvous]
  details,     \* transport_details_.rendezvous_endpoint
  requests,    \* the requests on their way: a sequence of indices of candidates
  tried,       \* history: the candidates that were asked, in this order
  slots,       \* the slots that are connected: the indices they are bound to
  emission,    \* the signal that runs: the slots still to be called
  result,      \* history: what Detect's caller finds when it returns
  keep         \* NatTraversal: "off", "pinging" or "failed" (the last ping; the timer is set)

clientVars == <<candidates, up, detect, out, details, requests, tried, slots, emission, result, keep>>
contacts == <<candidates, up>>
caller == <<detect, result>>

None == 0
Silence == [condition |-> "none", slots |-> <<>>, type |-> "none"]

\* What Detect can pass on: the contacts that are directly connected, in their order.
\* (There must be one.)
Selections ==
  {s \in UNION {[1..n -> 1..Contacts] : n \in 1..Contacts} :
     \A i, j \in DOMAIN s : i < j => s[i] < s[j]}

-----------------------------------------------------------------------------
ClientInit ==
  /\ candidates \in Selections
  /\ up \in [1..Contacts -> BOOLEAN]
  /\ detect = "idle" /\ out = [type |-> "none", rendezvous |-> None] /\ details = None
  /\ requests = <<>> /\ tried = <<>> /\ slots = <<>> /\ emission = Silence
  /\ result = out
  /\ keep = "off"

\* Faulty variant of DoNatDetection: the candidate after the next.
WrongDoNatDetection(index) ==
  LET i == IF index < Len(candidates) THEN index + 1 ELSE index
  IN  /\ slots' = Append(slots, i) /\ requests' = Append(requests, i) /\ tried' = Append(tried, i)

DoNatDetection(index) ==
  /\ slots' = Append(slots, index)
  /\ requests' = Append(requests, index)
  /\ tried' = Append(tried, index)

\* Up to the wait.
Detect ==
  /\ detect = "idle" /\ detect' = "asked"
  /\ DoNatDetection(1)
  /\ UNCHANGED <<contacts, out, details, emission, result, keep>>

WaitForResult ==
  /\ detect = "asked" /\ detect' = "waiting"
  /\ UNCHANGED <<contacts, out, details, requests, tried, slots, emission, result, keep>>

\* Faulty variant of Return: without a time limit.
EndlessReturn ==
  /\ detect = "notified" /\ detect' = "returned" /\ result' = out
  /\ UNCHANGED <<contacts, out, details, requests, tried, slots, emission, keep>>

\* timed_wait ends: notified, or after the time.
Return ==
  /\ detect \in {"waiting", "notified"} /\ detect' = "returned"
  /\ result' = out
  /\ UNCHANGED <<contacts, out, details, requests, tried, slots, emission, keep>>

\* A signal is emitted: the slots that are connected now are called, one after the other.
Emit(condition, type) ==
  emission' = [condition |-> condition, slots |-> slots, type |-> type]

\* The outcome of a request: a response, or an error when the contact is down (or slow).
Response ==
  /\ requests # <<>> /\ emission.slots = <<>> /\ up[candidates[Head(requests)]]
  /\ \E type \in TypesTold : Emit("kSuccess", type)
  /\ requests' = Tail(requests)
  /\ UNCHANGED <<contacts, detect, out, details, tried, slots, result, keep>>

Error ==
  /\ requests # <<>> /\ emission.slots = <<>> /\ ~up[candidates[Head(requests)]]
  /\ Emit("kSendTimeout", "none")
  /\ requests' = Tail(requests)
  /\ UNCHANGED <<contacts, detect, out, details, tried, slots, result, keep>>

Notify == IF detect = "waiting" THEN "notified" ELSE detect

\* Run with the type of a response.  (With kError it does nothing.)
DetectCallback(type, rendezvous) ==
  /\ out' = [type |-> type, rendezvous |-> rendezvous]
  /\ details' = IF type = "kPortRestricted" THEN rendezvous ELSE details
  /\ detect' = Notify

\* There is a candidate after this one.
HasNext(index) == index + 1 <= Len(candidates)

\* A slot of the signal that runs: bound to the index of its own request.
NatDetectionCallback ==
  /\ emission.slots # <<>>
  /\ emission' = [emission EXCEPT !.slots = Tail(@)]
  /\ \E index \in {Head(emission.slots)} :
       \/ /\ emission.condition = "kSuccess"
          /\ DetectCallback(emission.type, candidates[index])
          /\ UNCHANGED <<requests, tried, slots>>
       \/ /\ emission.condition # "kSuccess"
          /\ IF HasNext(index) /\ Len(tried) < MaxRequests
             THEN DoNatDetection(index + 1)
             ELSE UNCHANGED <<requests, tried, slots>>
          /\ UNCHANGED <<detect, out, details>>
  /\ UNCHANGED <<contacts, result, keep>>

-----------------------------------------------------------------------------
(* NatTraversal, when the caller knows its rendezvous.                     *)

KeepAlive ==
  /\ detect = "returned" /\ result.rendezvous # None /\ keep = "off"
  /\ keep' = "pinging"
  /\ UNCHANGED <<contacts, caller, out, details, requests, tried, slots, emission>>

\* The timer.  KeepAliveCallback has no effect: the code it is bound to is no error.
DoKeepAlive ==
  /\ keep # "off" /\ keep' = "pinging"
  /\ UNCHANGED <<contacts, caller, out, details, requests, tried, slots, emission>>

\* A ping fails: the signal is the one that the slots of the detection are connected to.
PingFails ==
  /\ keep = "pinging" /\ emission.slots = <<>> /\ ~up[result.rendezvous]
  /\ Emit("kSendTimeout", "none") /\ keep' = "failed"
  /\ UNCHANGED <<contacts, caller, out, details, requests, tried, slots>>

\* A contact that has told the node its type goes down.
GoDown(c) ==
  /\ up[c] /\ result.rendezvous = c
  /\ up' = [up EXCEPT ![c] = FALSE]
  /\ UNCHANGED <<candidates, caller, out, details, requests, tried, slots, emission, keep>>

Handlers == Response \/ Error \/ NatDetectionCallback

ClientNext == \/ Detect \/ WaitForResult \/ Return \/ Handlers
              \/ KeepAlive \/ DoKeepAlive \/ PingFails
              \/ \E c \in 1..Contacts : GoDown(c)

ClientSpec == ClientInit /\ [][ClientNext]_clientVars

-----------------------------------------------------------------------------
(* Properties.                                                             *)

\* Type invariant.
ClientTypeOK ==
  /\ detect \in {"idle", "asked", "waiting", "notified", "returned"}
  /\ out.type \in TypesTold \cup {"none"}
  /\ \A i \in DOMAIN slots : slots[i] \in 1..Len(candidates)
  /\ keep \in {"off", "pinging", "failed"}

\* Nobody is passed over, however many slots an error runs, the failure of a ping
\* included: a candidate is asked after the one before it, and none but the first as
\* long as that one is up.  (A later one may be asked while the one before it has not
\* answered yet: an error runs its slot, too.)
InOrder ==
  \A i \in DOMAIN tried : tried[i] # 1 =>
    /\ \E j \in 1..(i - 1) : tried[j] = tried[i] - 1
    /\ ~up[candidates[1]]

\* However many slots a response runs, the transport of a port restricted node has the
\* rendezvous that was written for the caller.
RendezvousAgree == out.type = "kPortRestricted" => details = out.rendezvous

\* NatDetectionRpcs passes nobody over: a candidate is asked after the one before it,
\* however many slots an error runs, and none but the first as long as that one is up;
\* a failed ping of NatTraversal asks none that is not behind one that is down; and the
\* transport of a port restricted node has the rendezvous that was written for Detect's
\* caller.
AskedInOrder == ClientTypeOK /\ InOrder /\ RendezvousAgree

\* Detect returns, whoever is down and whenever the answer comes.
EndsInReturn == detect # "idle" ~> detect = "returned"
=============================================================================
