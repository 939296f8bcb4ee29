-------------------------- MODULE NatClientProofs ---------------------------
(***************************************************************************)
(* Proofs about the clients of NatDetectionClient and NatPmpClient: the    *)
(* contacts are asked in order whatever answers come and however many      *)
(* contacts there are, and the answers of an orderly NAT-PMP gateway meet  *)
(* their requests whatever is mapped.                                      *)
(***************************************************************************)
EXTENDS NatDetectionClient, NatPmpClient, TLAPS

-----------------------------------------------------------------------------
(* The contacts.                                                           *)

Indices == 1 .. Len(candidates)

\* The candidate with this index was asked.
Tried(i) == \E j \in DOMAIN tried : tried[j] = i
AllTried(s) == \A i \in DOMAIN s : Tried(s[i])

\* What an index is drawn from: directly_connected_contacts, and the sequences of the
\* requests, of the slots and of the signal that runs.
ClientTypes ==
  /\ candidates \in Seq(1 .. Contacts) /\ Len(candidates) > 0
  /\ up \in [1 .. Contacts -> BOOLEAN]
  /\ detect \in {"idle", "asked", "waiting", "notified", "returned"}
  /\ out.type \in TypesTold \cup {"none"}
  /\ requests \in Seq(Indices) /\ tried \in Seq(Indices) /\ slots \in Seq(Indices)
  /\ emission \in [condition : {"none", "kSuccess", "kSendTimeout"}, slots : Seq(Indices),
                   type : TypesTold \cup {"none"}]
  /\ keep \in {"off", "pinging", "failed"}

\* Whatever is on its way, connected or being called belongs to a request that was made;
\* and an error is about a contact that is down, or was asked because of such an error.
ClientTracks ==
  /\ AllTried(requests)
  /\ AllTried(slots)
  /\ AllTried(emission.slots)
  /\ emission.condition = "none" => emission.slots = <<>>
  /\ emission.condition = "kSendTimeout" => ~up[candidates[1]]

\* A rendezvous that is written, or pinged, is a candidate that was asked.
OfTried(c) == c # None => \E i \in Indices : Tried(i) /\ candidates[i] = c
ClientKnows ==
  /\ OfTried(out.rendezvous) /\ OfTried(result.rendezvous)
  /\ keep # "off" => detect = "returned" /\ result.rendezvous # None

\* The inductive invariant of the contacts, together with ClientKnows.
ClientInv == ClientTypes /\ ClientTracks /\ InOrder /\ RendezvousAgree

\* What Append and Tail do, place by place.
LEMMA Appended ==
  ASSUME NEW S, NEW s \in Seq(S), NEW x \in S
  PROVE  /\ Append(s, x) \in Seq(S) /\ Append(s, x) # <<>>
         /\ DOMAIN s = 1 .. Len(s) /\ DOMAIN Append(s, x) = 1 .. Len(s) + 1 /\ Len(s) \in Nat
         /\ \A i \in DOMAIN s : Append(s, x)[i] = s[i]
         /\ Append(s, x)[Len(s) + 1] = x
  OBVIOUS

LEMMA HeadTail ==
  ASSUME NEW S, NEW s \in Seq(S), s # <<>>
  PROVE  /\ Head(s) \in S /\ Tail(s) \in Seq(S)
         /\ 1 \in DOMAIN s /\ s[1] = Head(s)
         /\ DOMAIN s = 1 .. Len(s) /\ DOMAIN Tail(s) = 1 .. Len(s) - 1 /\ Len(s) \in Nat \ {0}
         /\ \A i \in DOMAIN Tail(s) : i + 1 \in DOMAIN s /\ Tail(s)[i] = s[i + 1]
  OBVIOUS

\* A request to a candidate that may be asked: the first, or one after a candidate that
\* was asked, when the first is down.
LEMMA DoNatDetectionKeeps ==
  ASSUME ClientInv, NEW index \in Indices, DoNatDetection(index), UNCHANGED contacts,
         index # 1 => Tried(index - 1) /\ ~up[candidates[1]]
  PROVE  /\ requests' \in Seq(Indices) /\ tried' \in Seq(Indices) /\ slots' \in Seq(Indices)
         /\ \A i : Tried(i) => Tried(i)'
         /\ AllTried(requests)' /\ AllTried(slots)'
         /\ InOrder'
<1>1. /\ requests \in Seq(Indices) /\ tried \in Seq(Indices) /\ slots \in Seq(Indices)
      /\ candidates' = candidates /\ up' = up
  BY DEF ClientInv, ClientTypes, contacts
<1>2. /\ requests' = Append(requests, index) /\ tried' = Append(tried, index)
      /\ slots' = Append(slots, index)
  BY DEF DoNatDetection
<1>3. requests' \in Seq(Indices) /\ tried' \in Seq(Indices) /\ slots' \in Seq(Indices)
  BY <1>1, <1>2, Appended
<1>4. /\ DOMAIN tried = 1 .. Len(tried) /\ DOMAIN tried' = 1 .. Len(tried) + 1 /\ Len(tried) \in Nat
      /\ \A i \in DOMAIN tried : tried'[i] = tried[i]
      /\ tried'[Len(tried) + 1] = index
  BY <1>1, <1>2, Appended
<1>5. \A i : Tried(i) => Tried(i)'
  BY <1>4 DEF Tried
<1>6. Tried(index)'
  BY <1>4 DEF Tried
<1>7. AllTried(requests)'
  <2>1. /\ DOMAIN requests = 1 .. Len(requests) /\ DOMAIN requests' = 1 .. Len(requests) + 1
        /\ Len(requests) \in Nat
        /\ \A i \in DOMAIN requests : requests'[i] = requests[i]
        /\ requests'[Len(requests) + 1] = index
    BY <1>1, <1>2, Appended
  <2>. QED BY <2>1, <1>5, <1>6 DEF ClientInv, ClientTracks, AllTried
<1>8. AllTried(slots)'
  <2>1. /\ DOMAIN slots = 1 .. Len(slots) /\ DOMAIN slots' = 1 .. Len(slots) + 1
        /\ Len(slots) \in Nat
        /\ \A i \in DOMAIN slots : slots'[i] = slots[i]
        /\ slots'[Len(slots) + 1] = index
    BY <1>1, <1>2, Appended
  <2>. QED BY <2>1, <1>5, <1>6 DEF ClientInv, ClientTracks, AllTried
<1>9. InOrder'
  <2> SUFFICES ASSUME NEW i \in DOMAIN tried', tried'[i] # 1
               PROVE  /\ \E j \in 1 .. (i - 1) : tried'[j] = tried'[i] - 1
                      /\ ~up[candidates[1]]
    BY <1>1 DEF InOrder
  <2>1. CASE i \in DOMAIN tried
    <3>1. PICK j \in 1 .. (i - 1) : tried[j] = tried[i] - 1
      BY <1>4, <2>1 DEF ClientInv, InOrder
    <3>2. j \in DOMAIN tried /\ ~up[candidates[1]]
      BY <1>4, <2>1, <3>1 DEF ClientInv, InOrder
    <3>. QED BY <1>4, <2>1, <3>1, <3>2
  <2>2. CASE i \notin DOMAIN tried
    <3>1. i = Len(tried) + 1 /\ tried'[i] = index
      BY <1>4, <2>2
    <3>2. PICK j \in DOMAIN tried : tried[j] = index - 1
      BY <3>1 DEF Tried
    <3>3. j \in 1 .. (i - 1) /\ tried'[j] = tried[j]
      BY <1>4, <3>1, <3>2
    <3>. QED BY <3>1, <3>2, <3>3
  <2>. QED BY <2>1, <2>2
<1>. QED BY <1>3, <1>5, <1>7, <1>8, <1>9

LEMMA ClientInitInv == ASSUME ClientInit PROVE ClientInv
<1>1. PICK n \in 1 .. Contacts : candidates \in [1 .. n -> 1 .. Contacts]
  BY Zenon DEF ClientInit, Selections
<1>2. candidates \in Seq(1 .. Contacts) /\ Len(candidates) > 0
  BY <1>1, ClientAssumption
<1>3. ClientTypes
  BY <1>2, ClientAssumption DEF ClientInit, ClientTypes, Silence, Indices
<1>4. ClientTracks /\ InOrder /\ RendezvousAgree
  BY DEF ClientInit, ClientTracks, AllTried, Silence, InOrder, RendezvousAgree
<1>. QED BY <1>3, <1>4 DEF ClientInv

\* The three that only move on: what was asked stays asked.
LEMMA SameRequests ==
  ASSUME ClientInv, UNCHANGED <<contacts, out, details, requests, tried, slots, emission>>,
         detect' \in {"idle", "asked", "waiting", "notified", "returned"},
         keep' \in {"off", "pinging", "failed"}
  PROVE  ClientInv'
BY DEF ClientInv, ClientTypes, ClientTracks, AllTried, Tried, InOrder, RendezvousAgree, Indices,
       contacts

LEMMA DetectKeeps == ASSUME ClientInv, Detect PROVE ClientInv'
<1>1. 1 \in Indices
  BY DEF ClientInv, ClientTypes, Indices
<1>2. /\ DoNatDetection(1) /\ UNCHANGED contacts /\ UNCHANGED <<out, details, emission, keep>>
      /\ detect' = "asked" /\ candidates' = candidates /\ up' = up
  BY DEF Detect, contacts
<1>3. /\ requests' \in Seq(Indices) /\ tried' \in Seq(Indices) /\ slots' \in Seq(Indices)
      /\ (\A i : Tried(i) => Tried(i)') /\ AllTried(requests)' /\ AllTried(slots)' /\ InOrder'
  BY <1>1, <1>2, DoNatDetectionKeeps
<1>4. ClientTypes'
  BY <1>2, <1>3 DEF ClientInv, ClientTypes, Indices
<1>5. ClientTracks'
  BY <1>2, <1>3 DEF ClientInv, ClientTracks, AllTried
<1>6. RendezvousAgree'
  BY <1>2 DEF ClientInv, RendezvousAgree
<1>. QED BY <1>3, <1>4, <1>5, <1>6 DEF ClientInv

\* The outcome of a request runs all slots that are connected, and an error is about a
\* contact that is down: the first, or one that was asked because the first is down.
LEMMA OutcomeKeeps == ASSUME ClientInv, Response \/ Error PROVE ClientInv'
<1>1. /\ requests # <<>> /\ requests' = Tail(requests)
      /\ UNCHANGED contacts /\ UNCHANGED <<detect, out, details, tried, slots, keep>>
      /\ candidates' = candidates /\ up' = up
  BY DEF Response, Error, contacts
<1>2. /\ requests \in Seq(Indices) /\ slots \in Seq(Indices) /\ AllTried(requests) /\ AllTried(slots)
  BY DEF ClientInv, ClientTypes, ClientTracks
<1>3. /\ Head(requests) \in Indices /\ requests' \in Seq(Indices)
      /\ 1 \in DOMAIN requests /\ requests[1] = Head(requests)
      /\ \A i \in DOMAIN requests' : i + 1 \in DOMAIN requests /\ requests'[i] = requests[i + 1]
  BY <1>1, <1>2, HeadTail
<1>4. AllTried(requests)' /\ AllTried(slots)' /\ InOrder' /\ RendezvousAgree'
  BY <1>1, <1>2, <1>3 DEF ClientInv, AllTried, Tried, InOrder, RendezvousAgree
<1>5. \/ emission' = [condition |-> "kSendTimeout", slots |-> slots, type |-> "none"]
         /\ ~up[candidates[Head(requests)]]
      \/ \E type \in TypesTold :
           emission' = [condition |-> "kSuccess", slots |-> slots, type |-> type]
  BY DEF Response, Error, Emit
<1>6. /\ emission' \in [condition : {"none", "kSuccess", "kSendTimeout"}, slots : Seq(Indices),
                        type : TypesTold \cup {"none"}]
      /\ emission'.slots = slots /\ emission'.condition # "none"
      /\ emission'.condition = "kSendTimeout" => ~up[candidates[Head(requests)]]
  BY <1>2, <1>5
<1>7. emission'.condition = "kSendTimeout" => ~up[candidates[1]]
  <2>1. PICK j \in DOMAIN tried : tried[j] = Head(requests)
    BY <1>2, <1>3 DEF AllTried, Tried
  <2>2. Head(requests) # 1 => ~up[candidates[1]]
    BY <2>1 DEF ClientInv, InOrder
  <2>. QED BY <1>6, <2>2
<1>8. ClientTypes'
  BY <1>1, <1>3, <1>6 DEF ClientInv, ClientTypes, Indices
<1>9. ClientTracks'
  BY <1>1, <1>4, <1>6, <1>7 DEF ClientTracks, AllTried
<1>. QED BY <1>4, <1>8, <1>9 DEF ClientInv

LEMMA NatDetectionCallbackKeeps == ASSUME ClientInv, NatDetectionCallback PROVE ClientInv'
<1> DEFINE index == Head(emission.slots)
<1>1. /\ emission.slots # <<>> /\ emission' = [emission EXCEPT !.slots = Tail(emission.slots)]
      /\ UNCHANGED contacts /\ keep' = keep /\ candidates' = candidates /\ up' = up
  BY DEF NatDetectionCallback, contacts
<1>2. /\ emission \in [condition : {"none", "kSuccess", "kSendTimeout"}, slots : Seq(Indices),
                       type : TypesTold \cup {"none"}]
      /\ emission.slots \in Seq(Indices) /\ AllTried(emission.slots)
      /\ emission.condition \in {"kSuccess", "kSendTimeout"}
      /\ emission.condition = "kSendTimeout" => ~up[candidates[1]]
      /\ Len(candidates) \in Nat
  BY <1>1 DEF ClientInv, ClientTypes, ClientTracks
<1>3. /\ index \in Indices /\ Tail(emission.slots) \in Seq(Indices)
      /\ 1 \in DOMAIN emission.slots /\ emission.slots[1] = index
      /\ \A i \in DOMAIN Tail(emission.slots) :
           i + 1 \in DOMAIN emission.slots /\ Tail(emission.slots)[i] = emission.slots[i + 1]
  BY <1>1, <1>2, HeadTail
<1>4. Tried(index)
  BY <1>2, <1>3 DEF AllTried
<1>5. /\ emission' \in [condition : {"none", "kSuccess", "kSendTimeout"}, slots : Seq(Indices),
                        type : TypesTold \cup {"none"}]
      /\ emission'.slots = Tail(emission.slots) /\ emission'.condition = emission.condition
  BY Zenon, <1>1, <1>2, <1>3
<1>6. AllTried(Tail(emission.slots))
  BY <1>2, <1>3 DEF AllTried
<1> HIDE DEF index
<1>7. CASE emission.condition = "kSuccess"
  <2>1. /\ DetectCallback(emission.type, candidates[index]) /\ UNCHANGED <<requests, tried, slots>>
    BY <1>7 DEF NatDetectionCallback, index
  <2>2. /\ out' = [type |-> emission.type, rendezvous |-> candidates[index]]
        /\ emission.type = "kPortRestricted" => details' = candidates[index]
        /\ detect' \in {detect, "notified"}
    BY <2>1 DEF DetectCallback, Notify
  <2>3. ClientTypes'
    BY Zenon, <1>1, <1>2, <1>5, <2>1, <2>2 DEF ClientInv, ClientTypes, Indices
  <2>4. ClientTracks'
    BY <1>1, <1>2, <1>5, <1>6, <2>1 DEF ClientInv, ClientTracks, AllTried, Tried
  <2>5. InOrder' /\ RendezvousAgree'
    BY <1>1, <2>1, <2>2 DEF ClientInv, InOrder, RendezvousAgree
  <2>. QED BY <2>3, <2>4, <2>5 DEF ClientInv
<1>8. CASE emission.condition = "kSendTimeout" /\ DoNatDetection(index + 1) /\ HasNext(index)
  <2>1. UNCHANGED <<detect, out, details>>
    BY <1>8 DEF NatDetectionCallback
  <2>2. index + 1 \in Indices /\ (index + 1) - 1 = index
    BY <1>2, <1>3, <1>8 DEF HasNext, Indices
  <2>3. /\ requests' \in Seq(Indices) /\ tried' \in Seq(Indices) /\ slots' \in Seq(Indices)
        /\ (\A i : Tried(i) => Tried(i)') /\ AllTried(requests)' /\ AllTried(slots)' /\ InOrder'
    BY <1>1, <1>2, <1>4, <1>8, <2>2, DoNatDetectionKeeps
  <2>4. ClientTypes'
    BY <1>1, <1>5, <2>1, <2>3 DEF ClientInv, ClientTypes, Indices
  <2>5. AllTried(emission.slots)'
    BY <1>5, <1>6, <2>3 DEF AllTried
  <2>6. ClientTracks' /\ RendezvousAgree'
    BY <1>1, <1>2, <1>5, <2>1, <2>3, <2>5 DEF ClientInv, ClientTracks, RendezvousAgree
  <2>. QED BY <2>3, <2>4, <2>6 DEF ClientInv
<1>9. CASE emission.condition = "kSendTimeout" /\ UNCHANGED <<requests, tried, slots>>
  <2>1. UNCHANGED <<detect, out, details>>
    BY <1>9 DEF NatDetectionCallback
  <2>2. ClientTypes'
    BY <1>1, <1>5, <1>9, <2>1 DEF ClientInv, ClientTypes, Indices
  <2>3. ClientTracks'
    BY <1>1, <1>2, <1>5, <1>6, <1>9 DEF ClientInv, ClientTracks, AllTried, Tried
  <2>4. InOrder' /\ RendezvousAgree'
    BY <1>1, <1>9, <2>1 DEF ClientInv, InOrder, RendezvousAgree
  <2>. QED BY <2>2, <2>3, <2>4 DEF ClientInv
<1>. QED BY <1>2, <1>7, <1>8, <1>9 DEF NatDetectionCallback, index

\* A ping fails: its rendezvous is down, so the first candidate is.
LEMMA PingFailsKeeps == ASSUME ClientInv, ClientKnows, PingFails PROVE ClientInv'
<1>1. /\ UNCHANGED <<requests, out, details, tried, slots>> /\ detect' = detect
      /\ candidates' = candidates /\ up' = up /\ keep' = "failed"
      /\ emission' = [condition |-> "kSendTimeout", slots |-> slots, type |-> "none"]
      /\ ~up[result.rendezvous] /\ keep = "pinging"
  BY DEF PingFails, contacts, caller, Emit
<1>2. /\ slots \in Seq(Indices) /\ AllTried(slots)
      /\ emission' \in [condition : {"none", "kSuccess", "kSendTimeout"}, slots : Seq(Indices),
                        type : TypesTold \cup {"none"}]
      /\ emission'.slots = slots /\ emission'.condition = "kSendTimeout"
  BY <1>1 DEF ClientInv, ClientTypes, ClientTracks
<1>3. PICK i \in Indices : Tried(i) /\ candidates[i] = result.rendezvous
  BY <1>1 DEF ClientKnows, OfTried
<1>4. ~up[candidates[1]]
  BY <1>1, <1>3 DEF ClientInv, InOrder, Tried
<1>5. ClientTypes'
  BY Zenon, <1>1, <1>2 DEF ClientInv, ClientTypes, Indices
<1>6. ClientTracks'
  BY <1>1, <1>2, <1>4 DEF ClientInv, ClientTracks, AllTried, Tried
<1>7. InOrder' /\ RendezvousAgree'
  BY Zenon, <1>1 DEF ClientInv, InOrder, RendezvousAgree
<1>. QED BY <1>5, <1>6, <1>7 DEF ClientInv

\* A contact that goes down does not come up again.
LEMMA GoDownKeeps == ASSUME ClientInv, NEW c \in 1 .. Contacts, GoDown(c) PROVE ClientInv'
<1>1. /\ UNCHANGED <<candidates, detect, out, details, requests, tried, slots, emission, keep>>
      /\ up' = [up EXCEPT ![c] = FALSE]
  BY DEF GoDown, caller
<1>2. up' \in [1 .. Contacts -> BOOLEAN] /\ \A d \in 1 .. Contacts : ~up[d] => ~up'[d]
  BY <1>1 DEF ClientInv, ClientTypes
<1>3. candidates[1] \in 1 .. Contacts
  <2>1. candidates \in Seq(1 .. Contacts) /\ Len(candidates) > 0
    BY DEF ClientInv, ClientTypes
  <2>2. 1 \in 1 .. Len(candidates)
    BY <2>1
  <2>3. candidates \in [1 .. Len(candidates) -> 1 .. Contacts]
    BY <2>1, ClientAssumption
  <2>. QED BY Zenon, <2>2, <2>3
<1>4. ClientTypes'
  BY Zenon, <1>1, <1>2 DEF ClientInv, ClientTypes, Indices
<1>5. ClientTracks'
  BY Zenon, <1>1, <1>2, <1>3 DEF ClientInv, ClientTracks, AllTried, Tried
<1>6. InOrder' /\ RendezvousAgree'
  BY Zenon, <1>1, <1>2, <1>3 DEF ClientInv, InOrder, RendezvousAgree
<1>. QED BY <1>4, <1>5, <1>6 DEF ClientInv

LEMMA ClientStep == ASSUME ClientInv, ClientKnows, [ClientNext]_clientVars PROVE ClientInv'
<1>1. /\ detect \in {"idle", "asked", "waiting", "notified", "returned"}
      /\ keep \in {"off", "pinging", "failed"}
  BY DEF ClientInv, ClientTypes
<1>2. ASSUME WaitForResult \/ Return PROVE ClientInv'
  BY <1>1, <1>2, SameRequests DEF WaitForResult, Return
<1>3. ASSUME KeepAlive \/ DoKeepAlive PROVE ClientInv'
  BY <1>1, <1>3, SameRequests DEF KeepAlive, DoKeepAlive, caller
<1>4. CASE UNCHANGED clientVars
  BY <1>1, <1>4, SameRequests DEF clientVars, contacts
<1>. QED
  BY <1>2, <1>3, <1>4, DetectKeeps, OutcomeKeeps, NatDetectionCallbackKeeps, PingFailsKeeps,
    GoDownKeeps DEF ClientNext, Handlers

\* A candidate that was asked stays one.
LEMMA KnowsKept ==
  ASSUME ClientInv, ClientKnows, candidates' = candidates,
         tried' = tried \/ \E index : DoNatDetection(index) /\ index \in Indices,
         out' = out \/ \E i \in Indices : Tried(i) /\ out'.rendezvous = candidates[i],
         result' = result \/ (result' = out /\ keep' = "off"),
         keep' # "off" => detect' = "returned" /\ result'.rendezvous # None
  PROVE  ClientKnows'
<1>1. \A i : Tried(i) => Tried(i)'
  <2>1. CASE tried' = tried
    BY Zenon, <2>1 DEF Tried
  <2>2. ASSUME NEW index \in Indices, DoNatDetection(index) PROVE \A i : Tried(i) => Tried(i)'
    <3>1. tried \in Seq(Indices) /\ tried' = Append(tried, index)
      BY <2>2 DEF ClientInv, ClientTypes, DoNatDetection
    <3>. QED BY <2>2, <3>1, Appended DEF Tried
  <2>. QED BY Zenon, <2>1, <2>2
<1>2. Indices' = Indices
  BY Zenon DEF Indices
<1>3. \A c : OfTried(c) => OfTried(c)'
  BY Zenon, <1>1, <1>2 DEF OfTried
<1>4. OfTried(out.rendezvous)'
  <2>1. PICK c : c = out'.rendezvous
    OBVIOUS
  <2>2. OfTried(c)
    BY Zenon, <2>1 DEF ClientKnows, OfTried
  <2>. QED BY Zenon, <1>3, <2>1, <2>2 DEF OfTried
<1>5. OfTried(result.rendezvous)'
  <2>1. PICK c : c = result'.rendezvous
    OBVIOUS
  <2>2. OfTried(c)
    BY Zenon, <2>1 DEF ClientKnows
  <2>. QED BY Zenon, <1>3, <2>1, <2>2 DEF OfTried
<1>. QED BY Zenon, <1>4, <1>5 DEF ClientKnows

LEMMA KnowsStep == ASSUME ClientInv, ClientKnows, [ClientNext]_clientVars PROVE ClientKnows'
<1>0. keep # "off" => detect = "returned" /\ result.rendezvous # None
  BY Zenon DEF ClientKnows
<1>1. ASSUME Detect PROVE ClientKnows'
  <2>1. 1 \in Indices
    BY DEF ClientInv, ClientTypes, Indices
  <2>2. keep' = "off"
    BY <1>0, <1>1 DEF Detect, ClientInv, ClientTypes
  <2>. QED BY Zenon, <1>1, <2>1, <2>2, KnowsKept DEF Detect, contacts
<1>2. ASSUME Return PROVE ClientKnows'
  <2>1. keep' = keep /\ result' = out /\ candidates' = candidates /\ tried' = tried /\ out' = out
    BY Zenon, <1>2 DEF Return, contacts
  <2>2. keep = "off"
    BY <1>0, <1>2 DEF Return
  <2>. QED BY Zenon, <2>1, <2>2, KnowsKept
<1>3. ASSUME WaitForResult \/ Response \/ Error \/ DoKeepAlive \/ PingFails
             \/ (\E c \in 1 .. Contacts : GoDown(c)) \/ UNCHANGED clientVars
      PROVE  ClientKnows'
  <2>1. /\ candidates' = candidates /\ tried' = tried /\ out' = out /\ result' = result
        /\ keep' # "off" => keep # "off" /\ (detect = "returned" => detect' = "returned")
    BY <1>3 DEF WaitForResult, Response, Error, DoKeepAlive, PingFails, GoDown, clientVars,
                contacts, caller
  <2>. QED BY Zenon, <1>0, <2>1, KnowsKept
<1>4. ASSUME KeepAlive PROVE ClientKnows'
  <2>1. /\ candidates' = candidates /\ tried' = tried /\ out' = out /\ result' = result
        /\ detect' = "returned" /\ result.rendezvous # None
    BY Zenon, <1>4 DEF KeepAlive, contacts, caller
  <2>. QED BY Zenon, <2>1, KnowsKept
<1>5. ASSUME NatDetectionCallback PROVE ClientKnows'
  <2>. DEFINE index == Head(emission.slots)
  <2>1. /\ emission.slots # <<>> /\ UNCHANGED <<result, keep>> /\ candidates' = candidates
        /\ \/ out'.rendezvous = candidates[index] /\ tried' = tried
           \/ /\ out' = out
              /\ tried' = tried \/ (HasNext(index) /\ DoNatDetection(index + 1))
    BY <1>5 DEF NatDetectionCallback, DetectCallback, contacts
  <2>2. index \in Indices /\ Tried(index)
    <3>1. emission.slots \in Seq(Indices) /\ AllTried(emission.slots)
      BY DEF ClientInv, ClientTypes, ClientTracks
    <3>. QED BY <2>1, <3>1, HeadTail DEF AllTried
  <2>3. HasNext(index) => index + 1 \in Indices
    BY <2>2 DEF HasNext, Indices
  <2>. HIDE DEF index
  <2>4. out' = out \/ \E i \in Indices : Tried(i) /\ out'.rendezvous = candidates[i]
    BY Zenon, <2>1, <2>2
  <2>5. tried' = tried \/ \E i : DoNatDetection(i) /\ i \in Indices
    BY Zenon, <2>1, <2>3
  <2>6. detect = "returned" => detect' = "returned"
    BY <1>5 DEF NatDetectionCallback, DetectCallback, Notify
  <2>. QED BY Zenon, <1>0, <2>1, <2>4, <2>5, <2>6, KnowsKept
<1>. QED BY Zenon, <1>1, <1>2, <1>3, <1>4, <1>5 DEF ClientNext, Handlers

\* NatDetectionRpcs::NatDetectionCallback passes nobody over, for any number of contacts
\* and of slots that an error runs: a candidate is asked after the one before it, and none
\* but the first as long as that one is up; and the rendezvous of the transport of a port
\* restricted node is the one that DetectCallback wrote for the caller of Detect.
THEOREM AskedStaysInOrder == ClientSpec => []AskedInOrder
<1>1. ClientInv => AskedInOrder
  BY DEF ClientInv, ClientTypes, Indices, AskedInOrder, ClientTypeOK
<1>2. ClientInv /\ ClientKnows /\ [ClientNext]_clientVars => ClientInv' /\ ClientKnows'
  BY Zenon, ClientStep, KnowsStep
<1>3. ClientInit => ClientInv /\ ClientKnows
  BY ClientInitInv DEF ClientInit, ClientKnows, OfTried
<1>. QED BY <1>1, <1>2, <1>3, PTL DEF ClientSpec

-----------------------------------------------------------------------------
(* The gateway.                                                            *)

\* The types, in full.
PmpTypes ==
  /\ PmpTypeOK
  /\ orderly \in BOOLEAN /\ unsent \subseteq PmpPorts
  /\ data \in Questions \cup {Failure}
  /\ questions \in [Questions -> Nat]

\* Nothing was asked before the socket is connected, and nothing is mapped before the
\* client is started.
PmpQuiet ==
  /\ impl = "none" => unsent = PmpPorts /\ connect = "none"
  /\ connect = "pending" => IsOpen
  /\ impl = "none" \/ connect = "pending" =>
       /\ ~known /\ timer = "none" /\ sends = 0 /\ receives = 0 /\ received = 0
       /\ \A q \in Questions : questions[q] = 0

\* With an orderly gateway there is one question at a time, on its way to the gateway or
\* answered, and the client keeps its socket.
PmpOneQuestion ==
  /\ impl # "destroyed" /\ timer # "expired" /\ ~undefined
  /\ sends > 0 \/ receives > 0 \/ received > 0 => IsOpen
  /\ received <= 1
  /\ \A q \in Questions : questions[q] <= 1
  /\ \A q \in Questions : questions[q] > 0 =>
       received = 0 /\ \A r \in Questions : questions[r] > 0 => r = q
  /\ \A q \in MapRequests :
       questions[q] > 0 \/ (received > 0 /\ data = q) => queue # <<>> /\ Head(queue) = q

\* The inductive invariant of the gateway's client.
PmpInv == PmpTypes /\ PmpQuiet /\ Conserved /\ (orderly => PmpOneQuestion)

\* Requests of mappings are told from the address request and from a failure by the port.
LEMMA QuestionsApart ==
  /\ Address \notin MapRequests /\ Failure \notin Questions
  /\ Address \in Questions /\ MapRequests \subseteq Questions
  /\ \A p \in PmpPorts : Request(p, 0) \in MapRequests /\ Request(p, 1) \in MapRequests
                         /\ Request(p, 1).port = p
  /\ \A q \in MapRequests : q.port \in PmpPorts
<1>1. \A p \in PmpPorts : Request(p, 0) \in MapRequests /\ Request(p, 1) \in MapRequests
  BY DEF MapRequests
<1>2. \A q \in MapRequests : \E p \in PmpPorts : q = Request(p, 0) \/ q = Request(p, 1)
  BY DEF MapRequests
<1>3. \A p : Request(p, 0).port = p /\ Request(p, 1).port = p
  BY DEF Request
<1>4. \A q \in MapRequests : q.port \in PmpPorts
  BY <1>2, <1>3
<1>5. Address.port = 0 /\ Failure.port = 0 /\ Address # Failure /\ 0 \notin PmpPorts
  BY NatPmpAssumption DEF Address, Failure
<1>. QED BY <1>1, <1>3, <1>4, <1>5 DEF Questions

LEMMA PmpInitInv == ASSUME PmpInit PROVE PmpInv
<1>1. PmpTypes
  <2>1. /\ impl \in {"none", "set", "destroyed"} /\ socket \in {"none", "allocated", "open"}
        /\ connect \in {"none", "pending"} /\ timer \in {"none", "waiting", "expired", "aborted"}
        /\ known \in BOOLEAN /\ undefined \in BOOLEAN /\ orderly \in BOOLEAN
    BY Zenon DEF PmpInit
  <2>2. /\ retry_count \in 0 .. Tries /\ sends \in Nat /\ receives \in Nat /\ received \in Nat
        /\ queue \in Seq(MapRequests) /\ posted \in Seq(MapRequests) /\ mappings \in Seq(PmpPorts)
        /\ questions \in [Questions -> Nat]
    BY NatPmpAssumption DEF PmpInit
  <2>3. unsent \subseteq PmpPorts /\ data \in Questions \cup {Failure}
    BY DEF PmpInit
  <2>. QED BY <2>1, <2>2, <2>3 DEF PmpTypes, PmpTypeOK
<1>2. PmpQuiet /\ Conserved
  BY DEF PmpInit, PmpQuiet, Conserved, IsOpen
<1>3. PmpOneQuestion
  BY QuestionsApart DEF PmpInit, PmpOneQuestion, Questions
<1>. QED BY <1>1, <1>2, <1>3 DEF PmpInv

\* What is in a sequence after Append.
LEMMA InAppended ==
  ASSUME NEW S, NEW s \in Seq(S), NEW x \in S
  PROVE  /\ \A y : In(y, s) => In(y, Append(s, x))
         /\ In(x, Append(s, x))
  BY Appended DEF In

\* What Tail leaves in a sequence.
LEMMA InTail ==
  ASSUME NEW S, NEW s \in Seq(S), s # <<>>
  PROVE  \A y : In(y, s) => y = Head(s) \/ In(y, Tail(s))
<1> SUFFICES ASSUME NEW i \in DOMAIN s, s[i] # Head(s) PROVE In(s[i], Tail(s))
  BY DEF In
<1>1. i - 1 \in DOMAIN Tail(s) /\ Tail(s)[i - 1] = s[(i - 1) + 1]
  BY HeadTail
<1>2. (i - 1) + 1 = i
  BY HeadTail
<1>. QED BY <1>1, <1>2 DEF In

\* The steps that leave the socket, the queue and the questions as they are.
LEMMA StartKeeps == ASSUME PmpInv, NEW ok \in BOOLEAN, Start(ok), UNCHANGED orderly PROVE PmpInv'
<1>1. PmpTypes'
  BY DEF PmpInv, Start, PmpTypes, PmpTypeOK, retryVars, queueVars, netVars
<1>2. PmpQuiet'
  BY DEF PmpInv, Start, PmpTypes, PmpTypeOK, PmpQuiet, IsOpen, retryVars, queueVars, netVars
<1>3. Conserved'
  BY DEF PmpInv, Start, PmpQuiet, Conserved, queueVars
<1>4. ASSUME orderly PROVE PmpOneQuestion'
  BY <1>4 DEF PmpInv, Start, PmpQuiet, PmpOneQuestion, IsOpen, retryVars, queueVars, netVars
<1>. QED BY <1>1, <1>2, <1>3, <1>4 DEF PmpInv

LEMMA MapPortKeeps ==
  ASSUME PmpInv, NEW p \in PmpPorts, MapPort(p), UNCHANGED orderly PROVE PmpInv'
<1>1. posted \in Seq(MapRequests) /\ Request(p, 1) \in MapRequests
  BY QuestionsApart DEF PmpInv, PmpTypes, PmpTypeOK
<1>2. posted' = Append(posted, Request(p, 1)) /\ posted' \in Seq(MapRequests)
  BY <1>1 DEF MapPort
<1>3. /\ \A y : In(y, posted) => In(y, posted')
      /\ In(Request(p, 1), posted')
  BY <1>1, <1>2, InAppended
<1>4. PmpTypes'
  BY <1>2 DEF PmpInv, MapPort, PmpTypes, PmpTypeOK, socketVars, retryVars, netVars
<1>5. PmpQuiet'
  BY DEF PmpInv, MapPort, PmpQuiet, IsOpen, socketVars, retryVars, netVars
<1>6. Conserved'
  BY <1>3 DEF PmpInv, MapPort, Conserved, IsOpen, socketVars
<1>7. ASSUME orderly PROVE PmpOneQuestion'
  BY <1>7 DEF PmpInv, MapPort, PmpOneQuestion, IsOpen, socketVars, retryVars, netVars
<1>. QED BY <1>4, <1>5, <1>6, <1>7 DEF PmpInv
LEMMA DoSendMappingRequestKeeps ==
  ASSUME PmpInv, DoSendMappingRequest, UNCHANGED orderly PROVE PmpInv'
<1>1. posted \in Seq(MapRequests) /\ queue \in Seq(MapRequests) /\ posted # <<>>
      /\ posted' = Tail(posted) /\ IsOpen' = IsOpen
  BY DEF PmpInv, PmpTypes, PmpTypeOK, DoSendMappingRequest, IsOpen, socketVars
<1>2. Head(posted) \in MapRequests /\ posted' \in Seq(MapRequests)
      /\ \A y : In(y, posted) => y = Head(posted) \/ In(y, posted')
  BY <1>1, HeadTail, InTail
<1>3. queue' = IF IsOpen THEN Append(queue, Head(posted)) ELSE queue
  BY DEF DoSendMappingRequest
<1>4. /\ queue' \in Seq(MapRequests)
      /\ IsOpen => (\A y : In(y, queue) => In(y, queue')) /\ In(Head(posted), queue')
      /\ queue # <<>> => queue' # <<>> /\ Head(queue') = Head(queue)
  <2>1. CASE IsOpen
    BY <1>1, <1>2, <1>3, <2>1, InAppended
  <2>2. CASE ~IsOpen
    BY <1>1, <1>3, <2>2
  <2>. QED BY <2>1, <2>2
<1>5. undefined' \in BOOLEAN
  BY Zenon DEF DoSendMappingRequest
<1>6. PmpTypes'
  BY Zenon, <1>2, <1>4, <1>5 DEF PmpInv, DoSendMappingRequest, PmpTypes, PmpTypeOK, socketVars,
     retryVars, netVars
<1>7. PmpQuiet'
  BY Zenon DEF PmpInv, DoSendMappingRequest, PmpQuiet, IsOpen, socketVars, retryVars, netVars
<1>8. Conserved'
  BY Zenon, <1>1, <1>2, <1>4 DEF PmpInv, DoSendMappingRequest, Conserved
<1>9. ASSUME orderly PROVE PmpOneQuestion'
  BY Zenon, <1>4, <1>9 DEF PmpInv, DoSendMappingRequest, PmpOneQuestion, IsOpen, socketVars,
     retryVars, netVars
<1>. QED BY <1>6, <1>7, <1>8, <1>9 DEF PmpInv

\* Stop, however it is reached: the removals are posted and the socket is gone.
LEMMA StopImplKeeps ==
  ASSUME PmpInv, StopImpl, ~orderly,
         UNCHANGED <<orderly, known, retry_count, unsent, queue, mappings, sends, received, data,
                     questions>>,
         impl' \in {"none", "set", "destroyed"},
         impl' = "none" => impl = "none" /\ (timer = "none" => timer' = "none"),
         timer' \in {"none", "waiting", "expired", "aborted"}, undefined' \in BOOLEAN
  PROVE  PmpInv'
<1>1. posted \in Seq(MapRequests) /\ mappings \in Seq(PmpPorts)
  BY DEF PmpInv, PmpTypes, PmpTypeOK
<1>2. [i \in DOMAIN mappings |-> Request(mappings[i], 0)] \in Seq(MapRequests)
  BY <1>1, QuestionsApart
<1>3. posted' \in Seq(MapRequests)
  BY <1>1, <1>2 DEF StopImpl
<1>4. ~IsOpen' /\ connect' = "none" /\ socket' \in {"none", "allocated"}
      /\ receives' \in {0, receives}
  BY DEF StopImpl, IsOpen, PmpInv, PmpTypes, PmpTypeOK, PmpQuiet
<1>5. PmpTypes'
  BY <1>3, <1>4 DEF PmpInv, PmpTypes, PmpTypeOK
<1>6. PmpQuiet'
  BY <1>4 DEF PmpInv, PmpQuiet
<1>7. Conserved'
  BY <1>4 DEF Conserved
<1>. QED BY <1>5, <1>6, <1>7 DEF PmpInv

LEMMA StopKeeps ==
  ASSUME PmpInv, Stop \/ ReceiveError, UNCHANGED orderly PROVE PmpInv'
<1>1. impl \in {"none", "set", "destroyed"} /\ timer \in {"none", "waiting", "expired", "aborted"}
      /\ undefined \in BOOLEAN
  BY DEF PmpInv, PmpTypes, PmpTypeOK
<1>2. CASE Stop
  BY <1>1, <1>2, StopImplKeeps DEF Stop
<1>3. CASE ReceiveError
  BY <1>1, <1>3, StopImplKeeps DEF ReceiveError, retryVars
<1>. QED BY <1>2, <1>3

\* A question that is asked.
LEMMA Asked ==
  ASSUME questions \in [Questions -> Nat], sends \in Nat, NEW q \in Questions, SendRequest(q)
  PROVE  /\ questions' \in [Questions -> Nat] /\ sends' \in Nat
         /\ IsOpen => /\ questions'[q] = questions[q] + 1
                      /\ \A r \in Questions : r # q => questions'[r] = questions[r]
         /\ ~IsOpen => questions' = questions /\ sends' = sends
  BY DEF SendRequest, AskGateway

LEMMA HandleConnectKeeps ==
  ASSUME PmpInv, NEW ok \in BOOLEAN, HandleConnect(ok), UNCHANGED orderly PROVE PmpInv'
<1>1. impl \in {"none", "set", "destroyed"} /\ timer \in {"none", "waiting", "expired", "aborted"}
      /\ undefined \in BOOLEAN /\ questions \in [Questions -> Nat] /\ sends \in Nat
  BY DEF PmpInv, PmpTypes, PmpTypeOK
<1>2. CASE ~ok
  BY <1>1, <1>2, StopImplKeeps DEF HandleConnect
<1>3. CASE ok
  <2>1. /\ SendRequest(Address) /\ retry_count' = 1 /\ timer' = "waiting" /\ connect' = "none"
        /\ UNCHANGED <<socket, posted, receives, impl, known, unsent, queue, mappings, received,
                       data, responses, undefined>>
        /\ connect = "pending" /\ IsOpen' = IsOpen
    BY Zenon, <1>3 DEF HandleConnect, SendPublicAddressRequest, IsOpen
  <2>2. /\ IsOpen /\ impl # "none" /\ sends = 0 /\ received = 0 /\ Address \in Questions
        /\ \A q \in Questions : questions[q] = 0
    BY Zenon, <2>1, QuestionsApart DEF PmpInv, PmpQuiet
  <2>3. /\ questions' \in [Questions -> Nat] /\ sends' \in Nat
        /\ questions'[Address] = 1
        /\ \A r \in Questions : r # Address => questions'[r] = 0
    BY <1>1, <2>1, <2>2, Asked
  <2>4. PmpTypes'
    BY <2>1, <2>3, NatPmpAssumption DEF PmpInv, PmpTypes, PmpTypeOK
  <2>5. PmpQuiet' /\ Conserved'
    BY Zenon, <2>1, <2>2 DEF PmpInv, PmpQuiet, Conserved
  <2>6. ASSUME orderly PROVE PmpOneQuestion'
    BY <2>1, <2>2, <2>3, <2>6, QuestionsApart DEF PmpInv, PmpOneQuestion
  <2>. QED BY <2>4, <2>5, <2>6 DEF PmpInv
<1>. QED BY <1>2, <1>3

LEMMA RetransmitKeeps ==
  ASSUME PmpInv, RetransmitPublicAdddressRequest, UNCHANGED orderly PROVE PmpInv'
<1>1. impl \in {"none", "set", "destroyed"} /\ timer \in {"none", "waiting", "expired", "aborted"}
      /\ questions \in [Questions -> Nat] /\ sends \in Nat /\ retry_count \in 0 .. Tries
  BY DEF PmpInv, PmpTypes, PmpTypeOK
<1>2. undefined' \in BOOLEAN
  BY Zenon DEF RetransmitPublicAdddressRequest
<1>3. /\ timer \in {"expired", "aborted"}
      /\ UNCHANGED <<impl, known, unsent, queue, mappings, received, data, responses>>
  BY Zenon DEF RetransmitPublicAdddressRequest
<1>4. CASE timer = "expired" /\ retry_count >= Tries
  <2>1. StopImpl /\ timer' = "none" /\ UNCHANGED <<retry_count, questions, sends>>
    BY <1>4 DEF RetransmitPublicAdddressRequest
  <2>2. ~orderly
    BY <1>4 DEF PmpInv, PmpOneQuestion
  <2>. QED BY Zenon, <1>1, <1>2, <1>3, <2>1, <2>2, StopImplKeeps
<1>5. CASE ~(timer = "expired" /\ retry_count >= Tries) /\ timer = "expired" /\ ~known
  <2>1. /\ UNCHANGED <<socket, posted, connect, receives>>
        /\ retry_count' = retry_count + 1 /\ SendRequest(Address) /\ timer' = "waiting"
        /\ IsOpen' = IsOpen
    BY Zenon, <1>5 DEF RetransmitPublicAdddressRequest, IsOpen
  <2>2. ~orderly /\ retry_count' \in 0 .. Tries
    BY <1>1, <1>5, <2>1, NatPmpAssumption DEF PmpInv, PmpOneQuestion
  <2>3. /\ questions' \in [Questions -> Nat] /\ sends' \in Nat
    BY Zenon, <1>1, <2>1, Asked, QuestionsApart
  <2>4. PmpTypes'
    BY Zenon, <1>2, <1>3, <2>1, <2>2, <2>3 DEF PmpInv, PmpTypes, PmpTypeOK
  <2>6. PmpQuiet'
    BY Zenon, <1>3, <1>5, <2>1 DEF PmpInv, PmpQuiet
  <2>7. Conserved'
    BY <1>3, <2>1 DEF PmpInv, Conserved
  <2>. QED BY Zenon, <2>2, <2>4, <2>6, <2>7 DEF PmpInv
<1>6. CASE ~(timer = "expired" /\ retry_count >= Tries) /\ ~(timer = "expired" /\ ~known)
  <2>1. /\ UNCHANGED <<socket, posted, connect, receives, retry_count, questions, sends>>
        /\ timer' = "none" /\ IsOpen' = IsOpen
    BY Zenon, <1>6 DEF RetransmitPublicAdddressRequest, IsOpen
  <2>2. PmpTypes'
    BY Zenon, <1>2, <1>3, <2>1 DEF PmpInv, PmpTypes, PmpTypeOK
  <2>3. PmpQuiet' /\ Conserved'
    BY Zenon, <1>3, <2>1 DEF PmpInv, PmpQuiet, Conserved
  <2>4. ASSUME orderly PROVE PmpOneQuestion'
    <3>1. undefined' = (impl = "destroyed" /\ timer = "expired") /\ timer # "expired"
      BY <2>4 DEF PmpInv, PmpOneQuestion, RetransmitPublicAdddressRequest
    <3>2. ~undefined'
      BY Zenon, <3>1
    <3>. QED BY Zenon, <1>3, <2>1, <2>4, <3>2 DEF PmpInv, PmpOneQuestion
  <2>. QED BY Zenon, <2>2, <2>3, <2>4 DEF PmpInv
<1>. QED BY Zenon, <1>4, <1>5, <1>6

LEMMA HandleSendKeeps ==
  ASSUME PmpInv, NEW ok \in BOOLEAN, HandleSend(ok), UNCHANGED orderly PROVE PmpInv'
<1>1. sends \in Nat /\ receives \in Nat /\ sends > 0
  BY DEF PmpInv, PmpTypes, PmpTypeOK, HandleSend
<1>2. sends' = sends - 1 /\ sends' \in Nat /\ receives' \in {receives, receives + 1}
      /\ receives' \in Nat
  BY <1>1 DEF HandleSend
<1>3. undefined' \in BOOLEAN
  BY Zenon DEF HandleSend
<1>4. PmpTypes'
  BY Zenon, <1>2, <1>3 DEF PmpInv, HandleSend, PmpTypes, PmpTypeOK, socketVars, retryVars, queueVars
<1>5. PmpQuiet'
  BY <1>1 DEF PmpInv, HandleSend, PmpQuiet, IsOpen, socketVars, retryVars, queueVars
<1>6. Conserved'
  BY Zenon DEF PmpInv, HandleSend, Conserved, IsOpen, socketVars, queueVars
<1>7. ASSUME orderly PROVE PmpOneQuestion'
  <2>1. IsOpen
    BY <1>1, <1>7 DEF PmpInv, PmpOneQuestion
  <2>2. undefined' = (ok /\ socket = "none")
    BY DEF HandleSend
  <2>3. ~undefined'
    BY Zenon, <2>1, <2>2 DEF IsOpen
  <2>. QED
    BY Zenon, <1>7, <2>1, <2>3
    DEF PmpInv, HandleSend, PmpOneQuestion, IsOpen, socketVars, retryVars, queueVars
<1>. QED BY <1>4, <1>5, <1>6, <1>7 DEF PmpInv

\* An answer of an orderly gateway uses its question up.
LEMMA GatewayRespondsKeeps ==
  ASSUME PmpInv, NEW q \in Questions, GatewayResponds(q), UNCHANGED orderly PROVE PmpInv'
<1>1. /\ questions \in [Questions -> Nat] /\ receives \in Nat /\ received \in Nat
      /\ receives > 0 /\ questions[q] > 0
      /\ receives' = receives - 1 /\ received' = received + 1
      /\ data' \in {q, Failure} /\ (orderly => data' = q /\ received = 0)
      /\ questions' = IF orderly THEN [questions EXCEPT ![q] = questions[q] - 1] ELSE questions
      /\ UNCHANGED <<socketVars, retryVars, queueVars, sends, undefined>>
  BY DEF PmpInv, PmpTypes, PmpTypeOK, GatewayResponds
<1>2. questions' \in [Questions -> Nat] /\ receives' \in Nat /\ received' \in Nat
  BY <1>1
<1>3. PmpTypes'
  BY <1>1, <1>2 DEF PmpInv, PmpTypes, PmpTypeOK, socketVars, retryVars, queueVars
<1>4. PmpQuiet' /\ Conserved'
  BY <1>1 DEF PmpInv, PmpQuiet, Conserved, IsOpen, socketVars, retryVars, queueVars
<1>5. ASSUME orderly PROVE PmpOneQuestion'
  <2>1. /\ \A r \in Questions : questions[r] > 0 => r = q
        /\ questions[q] = 1
        /\ q \in MapRequests => queue # <<>> /\ Head(queue) = q
        /\ impl # "destroyed" /\ timer # "expired" /\ ~undefined
    BY <1>1, <1>5 DEF PmpInv, PmpOneQuestion
  <2>2. \A r \in Questions : questions'[r] = 0
    BY <1>1, <1>5, <2>1
  <2>3. IsOpen'
    BY <1>1, <1>5 DEF PmpInv, PmpQuiet, PmpOneQuestion, IsOpen, socketVars
  <2>4. received' = 1 /\ data' = q
    BY <1>1, <1>5
  <2>. QED
    BY <1>1, <2>1, <2>2, <2>3, <2>4, QuestionsApart
    DEF PmpOneQuestion, socketVars, retryVars, queueVars
<1>. QED BY <1>3, <1>4, <1>5 DEF PmpInv

LEMMA ExpireKeeps == ASSUME PmpInv, Expire, UNCHANGED orderly PROVE PmpInv'
<1>1. PmpTypes'
  BY Zenon DEF PmpInv, Expire, PmpTypes, PmpTypeOK, socketVars, queueVars, netVars
<1>2. PmpQuiet' /\ Conserved' /\ ~orderly'
  BY Zenon DEF PmpInv, Expire, PmpQuiet, Conserved, IsOpen, socketVars, queueVars, netVars
<1>. QED BY Zenon, <1>1, <1>2 DEF PmpInv

\* SendQueuedRequests asks for the first of the queue, if there is one.
LEMMA SentQueued ==
  ASSUME questions \in [Questions -> Nat], sends \in Nat, NEW s \in Seq(MapRequests),
         SendQueuedRequests(s)
  PROVE  /\ questions' \in [Questions -> Nat] /\ sends' \in Nat
         /\ \A q \in Questions :
              \/ questions'[q] = questions[q]
              \/ s # <<>> /\ q = Head(s) /\ questions'[q] = questions[q] + 1
<1>1. CASE IsOpen /\ s # <<>>
  <2>1. Head(s) \in MapRequests /\ Head(s) \in Questions /\ SendRequest(Head(s))
    BY <1>1, HeadTail, QuestionsApart DEF SendQueuedRequests
  <2>. QED BY Zenon, <1>1, <2>1, Asked
<1>2. CASE ~(IsOpen /\ s # <<>>)
  BY Zenon, <1>2 DEF SendQueuedRequests
<1>. QED BY Zenon, <1>1, <1>2

\* HandleReceiveFrom starts the next receive, whatever was received.
LEMMA HandleReceiveFromKeeps ==
  ASSUME PmpInv, HandleReceiveFrom, UNCHANGED orderly PROVE PmpInv'
<1>1. /\ questions \in [Questions -> Nat] /\ receives \in Nat /\ received \in Nat /\ sends \in Nat
      /\ queue \in Seq(MapRequests) /\ mappings \in Seq(PmpPorts) /\ undefined \in BOOLEAN
      /\ timer \in {"none", "waiting", "expired", "aborted"} /\ known \in BOOLEAN
  BY DEF PmpInv, PmpTypes, PmpTypeOK
<1>2. /\ received > 0 /\ received' = received - 1 /\ received' \in Nat
      /\ UNCHANGED <<socketVars, retry_count, unsent, posted, data, responses>> /\ IsOpen' = IsOpen
      /\ impl # "none" /\ connect # "pending"
  BY <1>1 DEF HandleReceiveFrom, IsOpen, socketVars, PmpInv, PmpTypes, PmpTypeOK, PmpQuiet
\* What each kind of response may change.
<1>3. ASSUME questions' \in [Questions -> Nat], sends' \in Nat, receives' \in Nat,
             queue' \in Seq(MapRequests), mappings' \in Seq(PmpPorts), undefined' \in BOOLEAN,
             timer' \in {"none", "waiting", "expired", "aborted"}, known' \in BOOLEAN,
             Conserved', orderly => PmpOneQuestion'
      PROVE  PmpInv'
  <2>1. PmpTypes'
    BY Zenon, <1>2, <1>3 DEF PmpInv, PmpTypes, PmpTypeOK, socketVars
  <2>2. PmpQuiet'
    BY <1>2 DEF PmpInv, PmpQuiet, socketVars
  <2>. QED BY <1>3, <2>1, <2>2 DEF PmpInv
<1>4. ASSUME orderly
      PROVE  /\ IsOpen /\ received' = 0 /\ impl # "destroyed" /\ timer # "expired" /\ ~undefined
             /\ \A q \in Questions : questions[q] = 0
             /\ data \in MapRequests => queue # <<>>
  BY <1>1, <1>2, <1>4 DEF PmpInv, PmpOneQuestion
\* One question, that of the first in the queue.
<1>5. ASSUME orderly, questions' \in [Questions -> Nat], ~undefined', timer' # "expired",
             \A q \in Questions :
               \/ questions'[q] = questions[q]
               \/ queue' # <<>> /\ q = Head(queue') /\ questions'[q] = questions[q] + 1
      PROVE  PmpOneQuestion'
  BY <1>2, <1>4, <1>5, QuestionsApart DEF PmpOneQuestion, socketVars
<1>6. CASE ~IsOpen
  <2>1. UNCHANGED <<known, timer, mappings, queue, questions, sends, receives>> /\ undefined' = TRUE
    BY <1>6 DEF HandleReceiveFrom
  <2>2. Conserved'
    BY Zenon, <1>2, <1>6 DEF Conserved
  <2>. QED BY Zenon, <1>1, <1>3, <1>4, <1>6, <2>1, <2>2
<1>7. CASE IsOpen /\ data = Address /\ AddressReceived /\ UNCHANGED undefined /\ receives' = receives + 1
  <2>1. /\ known' = TRUE /\ timer' \in {timer, "aborted"} /\ SendQueuedRequests(queue)
        /\ queue' = queue /\ mappings' = mappings
    BY Zenon, <1>7 DEF AddressReceived
  <2>2. /\ questions' \in [Questions -> Nat] /\ sends' \in Nat
        /\ \A q \in Questions :
              \/ questions'[q] = questions[q]
              \/ queue # <<>> /\ q = Head(queue) /\ questions'[q] = questions[q] + 1
    BY Zenon, <1>1, <2>1, SentQueued
  <2>3. Conserved'
    BY Zenon, <1>2, <2>1 DEF PmpInv, Conserved
  <2>4. orderly => PmpOneQuestion'
    BY Zenon, <1>4, <1>5, <1>7, <2>1, <2>2
  <2>. QED BY <1>1, <1>3, <1>7, <2>1, <2>2, <2>3, <2>4
<1>8. CASE /\ IsOpen /\ data \in MapRequests /\ queue # <<>> /\ MappingReceived
           /\ UNCHANGED undefined /\ receives' = receives + 1
  <2>1. /\ mappings' = Noted(Head(queue).port) /\ queue' = Tail(queue)
        /\ SendQueuedRequests(Tail(queue)) /\ known' = known /\ timer' = timer
    BY Zenon, <1>8 DEF MappingReceived
  <2>2. /\ Head(queue) \in MapRequests /\ Tail(queue) \in Seq(MapRequests)
        /\ \A y : In(y, queue) => y = Head(queue) \/ In(y, Tail(queue))
    BY Zenon, <1>1, <1>8, HeadTail, InTail
  <2>3. /\ questions' \in [Questions -> Nat] /\ sends' \in Nat
        /\ \A q \in Questions :
              \/ questions'[q] = questions[q]
              \/ queue' # <<>> /\ q = Head(queue') /\ questions'[q] = questions[q] + 1
    BY Zenon, <1>1, <2>1, <2>2, SentQueued
  <2>4. Head(queue).port \in PmpPorts
    BY <2>2, QuestionsApart
  <2>5. /\ mappings' \in Seq(PmpPorts)
        /\ \A y : In(y, mappings) => In(y, mappings')
        /\ In(Head(queue).port, mappings')
    <3>1. mappings \in Seq(PmpPorts)
      BY Zenon, <1>1
    <3>2. CASE In(Head(queue).port, mappings)
      BY Zenon, <2>1, <3>1, <3>2 DEF Noted
    <3>3. CASE ~In(Head(queue).port, mappings)
      <4>1. mappings' = Append(mappings, Head(queue).port)
        BY Zenon, <2>1, <3>3 DEF Noted
      <4>. QED BY Zenon, <2>4, <3>1, <4>1, Appended, InAppended
    <3>. QED BY Zenon, <3>2, <3>3
  <2>6. Conserved'
    <3>1. \A p \in PmpPorts : Request(p, 1) = Head(queue) => In(p, mappings')
      BY <2>5, QuestionsApart
    <3>. QED BY <1>2, <2>1, <2>2, <2>5, <3>1 DEF PmpInv, Conserved
  <2>7. orderly => PmpOneQuestion'
    BY Zenon, <1>4, <1>5, <1>8, <2>1, <2>3
  <2>. QED BY <1>1, <1>3, <1>8, <2>1, <2>2, <2>3, <2>5, <2>6, <2>7
<1>9. CASE /\ UNCHANGED <<known, timer, mappings, queue, questions, sends>>
           /\ \/ undefined' = undefined
              \/ undefined' = TRUE /\ data \in MapRequests /\ queue = <<>>
           /\ receives' = receives + 1
  <2>1. Conserved'
    BY Zenon, <1>2, <1>9 DEF PmpInv, Conserved
  <2>2. orderly => PmpOneQuestion'
    BY <1>1, <1>4, <1>5, <1>9
  <2>3. undefined' \in BOOLEAN
    BY <1>1, <1>9, Zenon
  <2>. QED BY <1>1, <1>3, <1>9, <2>1, <2>2, <2>3
<1>. QED BY Zenon, <1>6, <1>7, <1>8, <1>9 DEF HandleReceiveFrom, HandleResponse

LEMMA PmpStep == ASSUME PmpInv, [PmpNext]_pmpVars PROVE PmpInv'
<1>1. CASE UNCHANGED pmpVars
  <2>1. PmpTypes'
    BY Zenon, <1>1 DEF PmpInv, PmpTypes, PmpTypeOK, pmpVars, pmpState, socketVars, retryVars,
       queueVars,
                netVars
  <2>2. PmpQuiet' /\ Conserved'
    BY Zenon, <1>1 DEF PmpInv, PmpQuiet, Conserved, IsOpen, pmpVars, pmpState, socketVars,
       retryVars,
                queueVars, netVars
  <2>3. ASSUME orderly' PROVE PmpOneQuestion'
    BY Zenon, <1>1, <2>3 DEF PmpInv, PmpOneQuestion, IsOpen, pmpVars, pmpState, socketVars,
       retryVars,
                queueVars, netVars
  <2>. QED BY Zenon, <2>1, <2>2, <2>3 DEF PmpInv
<1>2. CASE PmpNext
  <2>1. UNCHANGED orderly
    BY <1>2 DEF PmpNext
  <2>2. ASSUME Posted PROVE PmpInv'
    BY <2>1, <2>2, DoSendMappingRequestKeeps, HandleConnectKeeps, HandleSendKeeps,
       HandleReceiveFromKeeps, RetransmitKeeps DEF Posted
  <2>. QED
    BY Zenon, <1>2, <2>1, <2>2, StartKeeps, StopKeeps, MapPortKeeps, GatewayRespondsKeeps,
       ExpireKeeps
    DEF PmpNext
<1>. QED BY <1>1, <1>2

LEMMA PmpInvariance == PmpSpec => []PmpInv
<1>1. PmpInit => PmpInv
  BY PmpInitInv
<1>2. PmpInv /\ [PmpNext]_pmpVars => PmpInv'
  BY PmpStep
<1>. QED BY <1>1, <1>2, PTL DEF PmpSpec

\* HandleResponse takes an answer for the answer to the first request in request_queue_,
\* and calls front() without a test: with a gateway that answers each request once and in
\* time this is right, and nothing undefined happens, for any ports and any number of
\* tries.  Whatever the gateway does, a port whose request has left the queue is mapped.
THEOREM AnswersMeetRequests == PmpSpec => []AnswerMeetsItsRequest
<1>1. PmpInv => AnswerMeetsItsRequest
  <2> SUFFICES ASSUME PmpInv PROVE AnswerMeetsItsRequest
    OBVIOUS
  <2>1. PmpTypeOK /\ Conserved
    BY Zenon DEF PmpInv, PmpTypes
  <2>2. ASSUME orderly PROVE HeadIsMeant /\ ~undefined
    BY Zenon, <2>2, QuestionsApart DEF PmpInv, PmpOneQuestion, HeadIsMeant
  <2>. QED BY <2>1, <2>2 DEF AnswerMeetsItsRequest
<1>. QED BY <1>1, PmpInvariance, PTL

\* The only steps that ask for the address are those of SendPublicAddressRequest, before
\* anything was received, and of RetransmitPublicAdddressRequest, which tests for it.
LEMMA KnownAsksNoMore ==
  ASSUME PmpInv, PmpNext, known PROVE questions'[Address] <= questions[Address]
<1>1. /\ questions \in [Questions -> Nat] /\ sends \in Nat /\ queue \in Seq(MapRequests)
      /\ connect # "pending" /\ Address \in Questions /\ Address \notin MapRequests
  BY QuestionsApart DEF PmpInv, PmpTypes, PmpTypeOK, PmpQuiet
<1>2. \A s \in Seq(MapRequests) : s # <<>> => Head(s) # Address /\ Tail(s) \in Seq(MapRequests)
  BY <1>1, HeadTail
<1>3. ASSUME NEW s \in Seq(MapRequests), SendQueuedRequests(s)
      PROVE  questions'[Address] = questions[Address]
  BY Zenon, <1>1, <1>2, <1>3, SentQueued
<1>4. ASSUME HandleReceiveFrom PROVE questions'[Address] = questions[Address]
  <2>1. ASSUME AddressReceived PROVE questions'[Address] = questions[Address]
    BY <1>1, <1>3, <2>1 DEF AddressReceived
  <2>2. ASSUME MappingReceived, queue # <<>> PROVE questions'[Address] = questions[Address]
    BY Zenon, <1>1, <1>2, <1>3, <2>2 DEF MappingReceived
  <2>. QED BY Zenon, <1>4, <2>1, <2>2 DEF HandleReceiveFrom, HandleResponse
<1>5. ASSUME RetransmitPublicAdddressRequest PROVE questions' = questions
  BY <1>5 DEF RetransmitPublicAdddressRequest
<1>6. ASSUME NEW q \in Questions, GatewayResponds(q) PROVE questions'[Address] <= questions[Address]
  <2>1. questions' = questions \/ questions' = [questions EXCEPT ![q] = questions[q] - 1]
    BY <1>6 DEF GatewayResponds
  <2>. QED BY <1>1, <2>1
<1>7. ASSUME questions' = questions PROVE questions'[Address] <= questions[Address]
  BY <1>1, <1>7
<1>8. ASSUME Posted PROVE questions'[Address] <= questions[Address]
  <2>1. ASSUME NEW ok \in BOOLEAN, HandleConnect(ok) PROVE FALSE
    BY <1>1, <2>1 DEF HandleConnect
  <2>2. ASSUME NEW ok \in BOOLEAN, HandleSend(ok) PROVE questions' = questions
    BY <2>2 DEF HandleSend
  <2>3. ASSUME DoSendMappingRequest PROVE questions' = questions
    BY <2>3 DEF DoSendMappingRequest, netVars
  <2>. QED BY <1>1, <1>4, <1>5, <1>7, <1>8, <2>1, <2>2, <2>3 DEF Posted
<1>9. ASSUME \/ \E ok \in BOOLEAN : Start(ok)
             \/ \E p \in PmpPorts : MapPort(p)
             \/ Stop \/ ReceiveError \/ Expire
      PROVE  questions' = questions
  BY Zenon, <1>9 DEF Start, MapPort, Stop, ReceiveError, Expire, netVars
<1>. QED BY Zenon, <1>6, <1>7, <1>8, <1>9 DEF PmpNext

\* RetransmitPublicAdddressRequest asks for the address only while it is unknown, although
\* its timer may have expired before the answer was handled.
THEOREM NoQuestionAfterAnswer == PmpSpec => NoQuestionOnceKnown
<1>1. PmpInv /\ [PmpNext]_pmpVars => [known => questions'[Address] <= questions[Address]]_pmpVars
  BY KnownAsksNoMore
<1>. QED BY <1>1, PmpInvariance, PTL DEF PmpSpec, NoQuestionOnceKnown

=============================================================================
