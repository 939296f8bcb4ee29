-------------------------- MODULE UpnpClientProofs --------------------------
(***************************************************************************)
(* Proofs about the two UPnP clients.  UpnpIgdClient: what its lists say   *)
(* of the devices, of the services and of the mappings is right, and no    *)
(* mapping is forgotten, for any devices, services, ports and lease.       *)
(* MiniUpnpClient: its list agrees with the gateway, for any mappings.     *)
(* ValidIgd: a gateway that is connected is chosen first.                  *)
(***************************************************************************)
EXTENDS UpnpIgdClient, MiniUpnpClient, ValidIgd, TLAPS

ServiceStates ==
  [cached : BOOLEAN, enabled : BOOLEAN, status_requested : BOOLEAN, asked : Nat,
   subscription_requested : BOOLEAN, subscribed : BOOLEAN]

MappingStates == [listed : BOOLEAN, enabled : BOOLEAN, age : [Services -> Ages]]

Calls == [port : Ports, service : Services, left : -Threshold .. Lease - Threshold]

Callbacks == {"none", "new", "lost", "failed"}

-----------------------------------------------------------------------------
(* The inductive invariant.                                                *)

\* The devices and their services.
ListInv ==
  /\ phase \in {"none", "initialised", "registered", "cancelled", "unregistered", "finished"}
  /\ downloads \in [Devices -> Nat] /\ root_devices \in Seq(Devices)
  /\ service \in [Services -> ServiceStates]
  /\ RootDevicesUnique /\ CacheIsCurrent

\* A mapping, and the latest callback for it.
Consistent(m, callback) ==
  /\ m.enabled <=> callback = "new"
  /\ ~m.enabled => \A s \in Services : m.age[s] = Never
  /\ ~m.listed => ~m.enabled

\* The call that refreshes a mapping of this age when it has to be.
Due(p, s, age) == [port |-> p, service |-> s, left |-> Lease - Threshold - age]

IsDue(p, m, C) ==
  \A s \in Services : RecentlyRefreshed(m, s) => Due(p, s, m.age[s]) \in C

\* The mappings.  Nothing is mapped before the client is registered, so that no call is
\* missing when it is.
MapInv ==
  /\ mapping \in [Ports -> MappingStates] /\ timers \subseteq Calls /\ told \in [Ports -> Callbacks]
  /\ \A p \in Ports : Consistent(mapping[p], told[p])
  /\ phase = "registered" => \A p \in Ports : IsDue(p, mapping[p], timers)
  /\ phase \in {"none", "initialised"} => \A p \in Ports : ~mapping[p].enabled

Inv == ListInv /\ MapInv

-----------------------------------------------------------------------------
(* The mappings.                                                           *)

LEMMA LeaseFacts ==
  /\ Lease \in Nat /\ Threshold \in Nat /\ 0 < Threshold /\ Threshold < Lease
  /\ 0 \in Ages /\ Never \in Ages /\ Lease \in Ages /\ Never \in Nat /\ Ages \subseteq Nat
  /\ ~(Never < Lease - Threshold) /\ 0 < Lease - Threshold
  /\ Lease - Threshold \in -Threshold .. Lease - Threshold
  BY UpnpAssumption DEF Ages, Never

\* A mapping that no service has.
LEMMA NewMappings ==
  ASSUME NEW m, m = NewMapping \/ m = ListedMapping
  PROVE  /\ m \in MappingStates /\ ~m.enabled /\ (m = ListedMapping => m.listed)
         /\ \A s \in Services : m.age[s] = Never
         /\ \A s \in Services : ~RecentlyRefreshed(m, s)
<1>1. /\ NewMapping \in MappingStates /\ ~NewMapping.enabled
      /\ \A s \in Services : NewMapping.age[s] = Never
  BY LeaseFacts DEF NewMapping, MappingStates
<1>2. /\ ListedMapping \in MappingStates /\ ListedMapping.enabled = NewMapping.enabled
      /\ ListedMapping.listed /\ ListedMapping.age = NewMapping.age
  BY Zenon, <1>1 DEF ListedMapping, MappingStates
<1>3. m \in MappingStates /\ ~m.enabled /\ \A s \in Services : m.age[s] = Never
  BY <1>1, <1>2
<1>. QED BY <1>2, <1>3, LeaseFacts DEF RecentlyRefreshed

\* AddPortMappingToService keeps the mapping and its callback consistent, and schedules
\* the refresh of each service that it has refreshed.
LEMMA AddedKeeps ==
  ASSUME NEW p \in Ports, NEW m \in MappingStates, NEW S \in SUBSET Services, NEW ok,
         m.listed, Consistent(m, told[p]), told[p] \in Callbacks
  PROVE  /\ AddPortMappingToService(m, p, S, ok) \in MappingStates
         /\ Consistent(AddPortMappingToService(m, p, S, ok), ToldWhenAdded(m, p, S, ok))
         /\ ToldWhenAdded(m, p, S, ok) \in Callbacks
         /\ ScheduledWhenAdded(m, p, S, ok) \subseteq Calls
         /\ \A C : IsDue(p, m, C) =>
              IsDue(p, AddPortMappingToService(m, p, S, ok), C \cup ScheduledWhenAdded(m, p, S, ok))
         /\ IsLost(m, p, S, ok) => Fresh(m, p, S, ok) = {}
<1> DEFINE F == Fresh(m, p, S, ok)
           n == AddPortMappingToService(m, p, S, ok)
<1>1. F \subseteq Asked(m, S) /\ F \subseteq S /\ F \subseteq Services
  BY Zenon DEF Fresh, Asked
<1>2. n = [m EXCEPT !.enabled = m.enabled \/ F # {},
                    !.age = [s \in Services |-> IF s \in F THEN 0 ELSE m.age[s]]]
  BY DEF AddPortMappingToService
<1>3. ToldWhenAdded(m, p, S, ok) =
        IF m.enabled \/ Asked(m, S) = {} THEN told[p] ELSE IF F # {} THEN "new" ELSE "failed"
  BY DEF ToldWhenAdded
<1>4. ScheduledWhenAdded(m, p, S, ok) = {Scheduled(p, s) : s \in F}
  BY DEF ScheduledWhenAdded
<1> HIDE DEF F
<1>5. [s \in Services |-> IF s \in F THEN 0 ELSE m.age[s]] \in [Services -> Ages]
  BY LeaseFacts DEF MappingStates
<1> DEFINE e == m.enabled \/ F # {}
           g == [s \in Services |-> IF s \in F THEN 0 ELSE m.age[s]]
<1>6. e \in BOOLEAN /\ n = [m EXCEPT !.enabled = e, !.age = g] /\ g \in [Services -> Ages]
  BY <1>2, <1>5
<1>7. \A s \in Services : g[s] = IF s \in F THEN 0 ELSE m.age[s]
  OBVIOUS
<1>8. e <=> m.enabled \/ F # {}
  OBVIOUS
<1> HIDE DEF e, g, n
<1>9. n \in MappingStates /\ n.listed = m.listed /\ n.enabled = e /\ n.age = g
  BY Zenon, <1>6 DEF MappingStates
<1>10. Consistent(n, ToldWhenAdded(m, p, S, ok))
  BY <1>1, <1>3, <1>7, <1>8, <1>9 DEF Consistent
<1>11. ToldWhenAdded(m, p, S, ok) \in Callbacks
  BY <1>3 DEF Callbacks
<1>12. ScheduledWhenAdded(m, p, S, ok) \subseteq Calls
  BY <1>1, <1>4, LeaseFacts DEF Scheduled, Calls
<1>13. ASSUME NEW C, IsDue(p, m, C)
       PROVE  IsDue(p, n, C \cup ScheduledWhenAdded(m, p, S, ok))
  <2> SUFFICES ASSUME NEW s \in Services, RecentlyRefreshed(n, s)
               PROVE  Due(p, s, n.age[s]) \in C \cup ScheduledWhenAdded(m, p, S, ok)
    BY DEF IsDue
  <2>1. CASE s \in F
    BY <1>4, <1>7, <1>9, <2>1, LeaseFacts DEF Due, Scheduled
  <2>2. CASE s \notin F
    BY <1>7, <1>9, <1>13, <2>2 DEF IsDue, RecentlyRefreshed
  <2>. QED BY <2>1, <2>2
<1>14. ASSUME IsLost(m, p, S, ok) PROVE F = {}
  BY <1>1, <1>7, <1>9, <1>14, LeaseFacts DEF IsLost, RecentlyRefreshed, n
<1>. QED BY <1>9, <1>10, <1>11, <1>12, <1>13, <1>14 DEF n, F

\* What UpdatePortMappings needs of the mappings ms and of the calls C it starts from.
Ready(ms, C) ==
  /\ ms \in [Ports -> MappingStates] /\ C \subseteq Calls /\ told \in [Ports -> Callbacks]
  /\ \A p \in Ports : Consistent(ms[p], told[p])
  /\ phase = "registered" => \A p \in Ports : IsDue(p, ms[p], C)
  /\ phase \in {"none", "initialised"} => \A p \in Ports : ~ms[p].enabled

LEMMA MapInvReady == MapInv <=> Ready(mapping, timers)
  BY DEF MapInv, Ready

LEMMA UpdateKeeps ==
  ASSUME NEW ms, NEW C, NEW svc, NEW ok, Ready(ms, C), UpdatePortMappings(ms, C, svc, ok),
         phase' = phase
  PROVE  MapInv'
<1> DEFINE S == Active(svc)
           U == {p \in Ports : IsRegistered /\ ms[p].listed}
<1>1. S \in SUBSET Services
  BY Zenon DEF Active
<1>2. /\ mapping' = [p \in Ports |->
           IF p \notin U THEN ms[p]
           ELSE IF IsLost(ms[p], p, S, ok) THEN ListedMapping
           ELSE AddPortMappingToService(ms[p], p, S, ok)]
      /\ told' = [p \in Ports |->
           IF p \notin U THEN told[p]
           ELSE IF IsLost(ms[p], p, S, ok) /\ ms[p].enabled THEN "lost"
           ELSE ToldWhenAdded(ms[p], p, S, ok)]
      /\ timers' = C \cup UNION {ScheduledWhenAdded(ms[p], p, S, ok) : p \in U}
  BY DEF UpdatePortMappings
<1>3. U \subseteq Ports /\ (phase \in {"none", "initialised"} => U = {}) /\ \A p \in U : ms[p].listed
  BY DEF IsRegistered
<1> HIDE DEF S, U
<1>4. ASSUME NEW p \in Ports
      PROVE  /\ ms[p] \in MappingStates /\ told[p] \in Callbacks /\ Consistent(ms[p], told[p])
             /\ phase = "registered" => IsDue(p, ms[p], C)
             /\ phase \in {"none", "initialised"} => ~ms[p].enabled
  BY Zenon DEF Ready
<1>5. ASSUME NEW p \in U
      PROVE  /\ AddPortMappingToService(ms[p], p, S, ok) \in MappingStates
             /\ Consistent(AddPortMappingToService(ms[p], p, S, ok), ToldWhenAdded(ms[p], p, S, ok))
             /\ ToldWhenAdded(ms[p], p, S, ok) \in Callbacks
             /\ ScheduledWhenAdded(ms[p], p, S, ok) \subseteq Calls
             /\ IsDue(p, ms[p], C) => IsDue(p, AddPortMappingToService(ms[p], p, S, ok),
                                               C \cup ScheduledWhenAdded(ms[p], p, S, ok))
             /\ IsLost(ms[p], p, S, ok) => Fresh(ms[p], p, S, ok) = {}
  <2>1. p \in Ports /\ ms[p].listed
    BY <1>3
  <2>. QED BY Zenon, <1>1, <1>4, <2>1, AddedKeeps
<1>6. timers' \subseteq Calls
  BY Zenon, <1>2, <1>5 DEF Ready
<1>7. ASSUME NEW p \in Ports
      PROVE  /\ mapping'[p] \in MappingStates /\ told'[p] \in Callbacks
             /\ Consistent(mapping'[p], told'[p])
             /\ phase = "registered" => IsDue(p, mapping'[p], timers')
             /\ phase \in {"none", "initialised"} => ~mapping'[p].enabled
  <2>1. CASE p \notin U
    <3>1. mapping'[p] = ms[p] /\ told'[p] = told[p] /\ C \subseteq timers'
      BY Zenon, <1>2, <2>1
    <3>. QED BY <1>4, <3>1 DEF IsDue
  <2>2. CASE p \in U /\ ~IsLost(ms[p], p, S, ok)
    <3>1. /\ mapping'[p] = AddPortMappingToService(ms[p], p, S, ok)
          /\ told'[p] = ToldWhenAdded(ms[p], p, S, ok)
          /\ C \cup ScheduledWhenAdded(ms[p], p, S, ok) \subseteq timers'
          /\ phase \notin {"none", "initialised"}
      BY Zenon, <1>2, <1>3, <2>2
    <3>. QED BY Zenon, <1>4, <1>5, <2>2, <3>1 DEF IsDue
  <2>3. CASE p \in U /\ IsLost(ms[p], p, S, ok)
    <3>1. /\ mapping'[p] = ListedMapping
          /\ told'[p] = IF ms[p].enabled THEN "lost" ELSE ToldWhenAdded(ms[p], p, S, ok)
      BY <1>2, <2>3
    <3>2. /\ ListedMapping \in MappingStates /\ ~ListedMapping.enabled /\ ListedMapping.listed
          /\ \A s \in Services : ListedMapping.age[s] = Never
          /\ \A s \in Services : ~RecentlyRefreshed(ListedMapping, s)
      BY Zenon, NewMappings
    <3>3. ~ms[p].enabled => ToldWhenAdded(ms[p], p, S, ok) # "new"
      BY Zenon, <1>4, <1>5, <2>3 DEF ToldWhenAdded, Consistent
    <3>4. told'[p] # "new" /\ told'[p] \in Callbacks
      BY Zenon, <1>5, <2>3, <3>1, <3>3 DEF Callbacks
    <3>. QED BY Zenon, <3>1, <3>2, <3>4 DEF Consistent, IsDue
  <2>. QED BY <2>1, <2>2, <2>3
<1>8. mapping' \in [Ports -> MappingStates] /\ told' \in [Ports -> Callbacks]
  <2>1. /\ mapping' = [p \in Ports |-> mapping'[p]] /\ told' = [p \in Ports |-> told'[p]]
    BY <1>2
  <2>. QED BY <1>7, <2>1
<1>. QED BY <1>6, <1>7, <1>8 DEF MapInv

\* The steps that leave the mappings alone.
LEMMA SameMaps ==
  ASSUME MapInv, UNCHANGED maps, phase' = "registered" => phase \in {"none", "registered"},
         phase' \in {"none", "initialised"} => phase \in {"none", "initialised"}
  PROVE  MapInv'
<1>1. ASSUME phase = "none" PROVE \A p \in Ports : IsDue(p, mapping[p], timers)
  <2>1. \A p \in Ports, s \in Services : mapping[p].age[s] = Never
    BY <1>1 DEF MapInv, Consistent
  <2>. QED BY <2>1, LeaseFacts DEF IsDue, RecentlyRefreshed
<1>. QED BY <1>1 DEF MapInv, maps, Consistent, IsDue, RecentlyRefreshed

LEMMA AddPortMappingKeeps ==
  ASSUME MapInv, NEW p \in Ports, NEW ok, AddPortMapping(p, ok) PROVE MapInv'
<1> DEFINE ms == [mapping EXCEPT ![p] = ListedMapping]
<1>1. UpdatePortMappings(ms, timers, service, ok) /\ phase' = phase /\ ~mapping[p].listed
  BY DEF AddPortMapping
<1>2. /\ ListedMapping \in MappingStates /\ ~ListedMapping.enabled /\ ListedMapping.listed
      /\ \A s \in Services : ListedMapping.age[s] = Never
      /\ \A s \in Services : ~RecentlyRefreshed(ListedMapping, s)
  BY NewMappings
<1>3. /\ ms \in [Ports -> MappingStates] /\ ms[p] = ListedMapping
      /\ \A q \in Ports : q # p => ms[q] = mapping[q]
  BY <1>2 DEF MapInv
<1>4. told[p] # "new"
  BY Zenon, <1>1 DEF MapInv, Consistent
<1> HIDE DEF ms
<1>5. \A q \in Ports : /\ Consistent(ms[q], told[q])
                       /\ phase = "registered" => IsDue(q, ms[q], timers)
                       /\ phase \in {"none", "initialised"} => ~ms[q].enabled
  BY <1>2, <1>3, <1>4 DEF MapInv, Consistent, IsDue
<1>6. Ready(ms, timers)
  BY Zenon, <1>3, <1>5 DEF Ready, MapInv
<1>. QED BY <1>1, <1>6, UpdateKeeps

LEMMA DeleteKeeps ==
  ASSUME MapInv, DeleteAllPortMappings \/ \E p \in Ports : DeletePortMapping(p) PROVE MapInv'
<1>1. /\ NewMapping \in MappingStates /\ ~NewMapping.enabled /\ "none" \in Callbacks
      /\ \A s \in Services : NewMapping.age[s] = Never
      /\ \A s \in Services : ~RecentlyRefreshed(NewMapping, s)
  BY Zenon, NewMappings DEF Callbacks
<1>2. \A q \in Ports : \/ mapping'[q] = mapping[q] /\ told'[q] = told[q]
                       \/ mapping'[q] = NewMapping /\ told'[q] = "none"
  BY DEF DeleteAllPortMappings, DeletePortMapping, MapInv
<1>3. mapping' \in [Ports -> MappingStates] /\ told' \in [Ports -> Callbacks]
  BY <1>1 DEF DeleteAllPortMappings, DeletePortMapping, MapInv
<1>4. timers' = timers /\ (phase' = phase \/ phase' = "unregistered")
  BY Zenon DEF DeleteAllPortMappings, DeletePortMapping, UnRegister
<1>. QED BY <1>1, <1>2, <1>3, <1>4 DEF MapInv, Consistent, IsDue

LEMMA CancelKeeps == ASSUME MapInv, Cancel PROVE MapInv'
<1>1. /\ mapping' = mapping /\ told' = told /\ timers' = {}
      /\ phase' \in {"cancelled", "unregistered"}
  BY Zenon DEF Cancel
<1>. QED BY <1>1 DEF MapInv, Consistent

\* The call that is run is not one that a mapping still waits for.
LEMMA RefreshKeeps ==
  ASSUME MapInv, NEW t \in timers, NEW ok, RefreshPortMappingCallback(t, ok) PROVE MapInv'
<1> DEFINE p == t.port
           m == mapping[t.port]
           C == timers \ {t}
<1>1. /\ t \in Calls /\ t.port \in Ports /\ t.service \in Services /\ t.left <= 0 /\ phase' = phase
      /\ C \subseteq Calls
  BY DEF RefreshPortMappingCallback, MapInv, Calls
<1>2. \A q \in Ports : IsDue(q, mapping[q], timers) => IsDue(q, mapping[q], C)
  <2> SUFFICES ASSUME NEW q \in Ports, NEW s \in Services, IsDue(q, mapping[q], timers),
                      RecentlyRefreshed(mapping[q], s)
               PROVE  Due(q, s, mapping[q].age[s]) # t /\ Due(q, s, mapping[q].age[s]) \in timers
    BY Zenon DEF IsDue
  <2>1. mapping[q].age[s] \in Nat /\ mapping[q].age[s] < Lease - Threshold
    BY Zenon, LeaseFacts DEF MapInv, MappingStates, RecentlyRefreshed
  <2>2. Lease - Threshold - mapping[q].age[s] \in Int /\ Lease - Threshold - mapping[q].age[s] > 0
    BY <2>1, LeaseFacts
  <2>3. Due(q, s, mapping[q].age[s]).left = Lease - Threshold - mapping[q].age[s]
    BY DEF Due
  <2>4. Due(q, s, mapping[q].age[s]) # t
    BY <1>1, <2>2, <2>3
  <2>. QED BY Zenon, <2>4 DEF IsDue
<1>3. Ready(mapping, C)
  BY Zenon, <1>1, <1>2 DEF Ready, MapInv
<1>4. CASE timers' = C /\ UNCHANGED <<mapping, told>>
  BY <1>1, <1>3, <1>4 DEF Ready, MapInv, Consistent, IsDue, RecentlyRefreshed
<1>5. CASE UpdatePortMappings(mapping, C, service, ok)
  BY <1>1, <1>3, <1>5, UpdateKeeps
<1>6. CASE /\ IsRegistered /\ m.listed
           /\ mapping' = [mapping EXCEPT ![p] = AddPortMappingToService(m, p, {t.service}, ok)]
           /\ told' = [told EXCEPT ![p] = ToldWhenAdded(m, p, {t.service}, ok)]
           /\ timers' = C \cup ScheduledWhenAdded(m, p, {t.service}, ok)
  <2>1. /\ m \in MappingStates /\ told[p] \in Callbacks /\ Consistent(m, told[p])
        /\ {t.service} \in SUBSET Services
        /\ mapping \in [Ports -> MappingStates] /\ told \in [Ports -> Callbacks]
    BY Zenon, <1>1 DEF MapInv
  <2>2. /\ AddPortMappingToService(m, p, {t.service}, ok) \in MappingStates
        /\ Consistent(AddPortMappingToService(m, p, {t.service}, ok),
                      ToldWhenAdded(m, p, {t.service}, ok))
        /\ ToldWhenAdded(m, p, {t.service}, ok) \in Callbacks
        /\ ScheduledWhenAdded(m, p, {t.service}, ok) \subseteq Calls
        /\ IsDue(p, m, C) => IsDue(p, AddPortMappingToService(m, p, {t.service}, ok),
                                      C \cup ScheduledWhenAdded(m, p, {t.service}, ok))
    BY Zenon, <1>1, <1>6, <2>1, AddedKeeps
  <2>3. /\ mapping' \in [Ports -> MappingStates] /\ told' \in [Ports -> Callbacks]
        /\ timers' \subseteq Calls /\ C \subseteq timers'
    BY Zenon, <1>1, <1>6, <2>1, <2>2
  <2>4. /\ mapping'[p] = AddPortMappingToService(m, p, {t.service}, ok)
        /\ told'[p] = ToldWhenAdded(m, p, {t.service}, ok)
        /\ \A q \in Ports : q # p => mapping'[q] = mapping[q] /\ told'[q] = told[q]
    BY <1>1, <1>6, <2>1
  <2> HIDE DEF m, p, C
  <2>5. \A q \in Ports : Consistent(mapping'[q], told'[q])
    BY <2>2, <2>4 DEF MapInv
  <2>6. phase = "registered" => \A q \in Ports : IsDue(q, mapping'[q], timers')
    <3>1. \A q \in Ports : phase = "registered" => IsDue(q, mapping[q], C)
      BY Zenon, <1>3 DEF Ready
    <3>2. \A q \in Ports : phase = "registered" /\ q # p => IsDue(q, mapping'[q], timers')
      BY Zenon, <2>3, <2>4, <3>1 DEF IsDue
    <3>3. phase = "registered" => IsDue(p, mapping'[p], timers')
      BY <1>1, <1>6, <2>2, <2>4, <3>1 DEF m, p
    <3>. QED BY <3>2, <3>3
  <2>7. phase \notin {"none", "initialised"}
    BY <1>6 DEF IsRegistered
  <2>. QED BY <1>1, <2>3, <2>5, <2>6, <2>7 DEF MapInv
<1>. QED BY Zenon, <1>4, <1>5, <1>6 DEF RefreshPortMappingCallback

LEMMA TickKeeps == ASSUME MapInv, Tick PROVE MapInv'
<1>1. /\ phase' = phase /\ told' = told
      /\ timers' = {[t EXCEPT !.left = t.left - 1] : t \in timers}
      /\ \A t \in timers : t.left > 1 - Threshold
  BY DEF Tick
<1>2. \A a \in Ages : Older(a) \in Ages /\ (a = Never => Older(a) = Never)
                      /\ (Older(a) < Lease - Threshold => Older(a) = a + 1 /\ a < Lease - Threshold)
  BY LeaseFacts DEF Older, Ages, Never
<1>3. ASSUME NEW p \in Ports
      PROVE  /\ mapping'[p] \in MappingStates
             /\ mapping'[p].listed = mapping[p].listed /\ mapping'[p].enabled = mapping[p].enabled
             /\ \A s \in Services : mapping[p].age[s] \in Ages
                                    /\ mapping'[p].age[s] = Older(mapping[p].age[s])
  <2> DEFINE g == [s \in Services |-> Older(mapping[p].age[s])]
  <2>1. mapping'[p] = [mapping[p] EXCEPT !.age = g]
    BY DEF Tick
  <2>2. mapping[p] \in MappingStates /\ \A s \in Services : mapping[p].age[s] \in Ages
    BY DEF MapInv, MappingStates
  <2>3. g \in [Services -> Ages] /\ \A s \in Services : g[s] = Older(mapping[p].age[s])
    BY <1>2, <2>2
  <2> HIDE DEF g
  <2>. QED BY <2>1, <2>2, <2>3 DEF MappingStates
<1>4. mapping' \in [Ports -> MappingStates]
  <2>1. mapping' = [p \in Ports |-> mapping'[p]]
    BY DEF Tick
  <2>. QED BY <1>3, <2>1
<1>5. timers' \subseteq Calls
  <2> SUFFICES ASSUME NEW t \in timers PROVE [t EXCEPT !.left = t.left - 1] \in Calls
    BY <1>1
  <2>1. t \in Calls /\ t.left > 1 - Threshold /\ t.left \in -Threshold .. Lease - Threshold
    BY <1>1 DEF MapInv, Calls
  <2>2. t.left - 1 \in -Threshold .. Lease - Threshold
    BY <2>1, LeaseFacts
  <2>. QED BY <2>1, <2>2 DEF Calls
<1>6. \A p \in Ports : Consistent(mapping'[p], told'[p])
  BY <1>1, <1>2, <1>3 DEF MapInv, Consistent
<1>7. ASSUME NEW p \in Ports, phase = "registered" PROVE IsDue(p, mapping'[p], timers')
  <2> SUFFICES ASSUME NEW s \in Services, RecentlyRefreshed(mapping'[p], s)
               PROVE  Due(p, s, mapping'[p].age[s]) \in timers'
    BY DEF IsDue
  <2> DEFINE a == mapping[p].age[s]
             t == Due(p, s, a)
  <2>1. a \in Ages /\ a < Lease - Threshold /\ mapping'[p].age[s] = a + 1
    BY <1>2, <1>3 DEF RecentlyRefreshed
  <2>2. t \in timers
    BY <1>7, <2>1 DEF MapInv, IsDue, RecentlyRefreshed
  <2> HIDE DEF a
  <2>3. a \in Int /\ Lease - Threshold \in Int
    BY <2>1, LeaseFacts DEF Ages, Never
  <2>4. [t EXCEPT !.left = t.left - 1] = Due(p, s, a + 1)
    BY <2>3 DEF Due
  <2>. QED BY Zenon, <1>1, <2>1, <2>2, <2>4
<1>. QED BY Zenon, <1>1, <1>3, <1>4, <1>5, <1>6, <1>7 DEF MapInv

-----------------------------------------------------------------------------
(* The devices and their services.                                         *)

\* UpdateServicesCache caches the services of the devices it is given, and no others.
LEMMA CacheRebuilt ==
  ASSUME NEW svc \in [Services -> ServiceStates], NEW devices, NEW ask
  PROVE  /\ UpdateServicesCache(svc, devices, ask) \in [Services -> ServiceStates]
         /\ \A s \in Services :
              UpdateServicesCache(svc, devices, ask)[s].cached <=> Holds(devices, Owner[s])
<1> DEFINE R == UpdateServicesCache(svc, devices, ask)
<1>1. ASSUME NEW s \in Services
      PROVE  R[s] \in ServiceStates /\ (R[s].cached <=> Holds(devices, Owner[s]))
  <2> DEFINE h == Holds(devices, Owner[s])
             c == [svc[s] EXCEPT !.cached = h]
  <2>1. R[s] = IF c.cached /\ ~c.enabled /\ ~c.status_requested
                 THEN RequestServiceStatusInfo(c, ask[s]) ELSE c
    BY DEF UpdateServicesCache
  <2>2. h \in BOOLEAN /\ svc[s] \in ServiceStates
    BY DEF Holds
  <2> HIDE DEF h
  <2>3. c \in ServiceStates /\ c.cached = h
    BY <2>2 DEF ServiceStates
  <2> HIDE DEF c
  <2>4. RequestServiceStatusInfo(c, ask[s]) \in ServiceStates
        /\ RequestServiceStatusInfo(c, ask[s]).cached = c.cached
    <3> DEFINE yes == TRUE
               n == c.asked + 1
    <3>1. yes \in BOOLEAN /\ n \in Nat
      BY <2>3 DEF ServiceStates
    <3>2. RequestServiceStatusInfo(c, ask[s]) \in
            {c, [c EXCEPT !.status_requested = yes, !.asked = n]}
      BY DEF RequestServiceStatusInfo
    <3> HIDE DEF yes, n
    <3>3. [c EXCEPT !.status_requested = yes, !.asked = n] \in ServiceStates
          /\ [c EXCEPT !.status_requested = yes, !.asked = n].cached = c.cached
      BY Zenon, <2>3, <3>1 DEF ServiceStates
    <3>. QED BY Zenon, <2>3, <3>2, <3>3
  <2>5. R[s] \in ServiceStates /\ R[s].cached = h
    BY <2>1, <2>3, <2>4
  <2>. QED BY <2>5 DEF h
<1>2. R = [s \in Services |-> R[s]]
  BY Zenon DEF UpdateServicesCache
<1>. QED BY Zenon, <1>1, <1>2

\* The steps that leave the devices and their services alone.
LEMMA SameLists ==
  ASSUME ListInv, UNCHANGED <<downloads, root_devices, service>>, phase # "finished",
         phase' \in {"none", "initialised", "registered", "cancelled", "unregistered", "finished"}
  PROVE  ListInv'
  BY Zenon DEF ListInv, RootDevicesUnique, CacheIsCurrent, Holds

LEMMA FinishKeeps == ASSUME ListInv, Finish PROVE ListInv'
<1>1. /\ root_devices' = <<>> /\ phase' = "finished" /\ downloads' = downloads /\ service' = service
  BY Zenon DEF Finish
<1>. QED BY <1>1 DEF ListInv, RootDevicesUnique, CacheIsCurrent

LEMMA AliveKeeps == ASSUME ListInv, NEW d \in Devices, Alive(d) PROVE ListInv'
<1>1. downloads' \in [Devices -> Nat]
  BY DEF ListInv, Alive
<1>. QED BY <1>1 DEF ListInv, Alive, RootDevicesUnique, CacheIsCurrent, Holds

\* A device that was added while its description was downloaded is not added again.
LEMMA DescribedKeeps ==
  ASSUME ListInv, NEW d \in Devices, NEW got \in BOOLEAN, NEW ask, Described(d, got, ask)
  PROVE  ListInv'
<1>1. /\ downloads \in [Devices -> Nat] /\ root_devices \in Seq(Devices)
      /\ service \in [Services -> ServiceStates]
  BY DEF ListInv
<1>2. downloads' \in [Devices -> Nat] /\ phase' = phase /\ phase # "finished"
  BY <1>1 DEF Described
<1>3. CASE UNCHANGED <<root_devices, service>>
  BY Zenon, <1>2, <1>3 DEF ListInv, RootDevicesUnique, CacheIsCurrent, Holds
<1>4. CASE ~Holds(root_devices, d) /\ AddRootDevice(d, ask)
  <2> DEFINE svc == [s \in Services |->
                       IF Owner[s] = d THEN [NewService EXCEPT !.asked = service[s].asked]
                                       ELSE service[s]]
  <2>1. root_devices' = Append(root_devices, d) /\ service' = UpdateServicesCache(svc, root_devices', ask)
    BY <1>4 DEF AddRootDevice
  <2>2. svc \in [Services -> ServiceStates]
    BY Zenon, <1>1 DEF NewService, ServiceStates
  <2> HIDE DEF svc
  <2>3. /\ service' \in [Services -> ServiceStates]
        /\ \A s \in Services : service'[s].cached <=> Holds(root_devices', Owner[s])
    BY <2>1, <2>2, CacheRebuilt
  <2>4. /\ root_devices' \in Seq(Devices)
        /\ DOMAIN root_devices = 1 .. Len(root_devices) /\ Len(root_devices) \in Nat
        /\ DOMAIN root_devices' = 1 .. Len(root_devices) + 1
        /\ \A i \in DOMAIN root_devices : root_devices'[i] = root_devices[i]
        /\ root_devices'[Len(root_devices) + 1] = d
    BY <1>1, <2>1
  <2>5. RootDevicesUnique'
    <3> SUFFICES ASSUME NEW i \in DOMAIN root_devices', NEW j \in DOMAIN root_devices',
                        root_devices'[i] = root_devices'[j]
                 PROVE  i = j
      BY DEF RootDevicesUnique
    <3>1. \A k \in DOMAIN root_devices : root_devices[k] # d
      BY Zenon, <1>4 DEF Holds
    <3>2. \A k \in DOMAIN root_devices' : k \in DOMAIN root_devices \/ k = Len(root_devices) + 1
      BY <2>4
    <3>. QED BY Zenon, <2>4, <3>1, <3>2 DEF ListInv, RootDevicesUnique
  <2>6. CacheIsCurrent'
    BY <2>3 DEF CacheIsCurrent, Holds
  <2>. QED BY <1>2, <2>3, <2>4, <2>5, <2>6 DEF ListInv
<1>. QED BY <1>3, <1>4 DEF Described, AddRootDevice

LEMMA ByebyeKeeps ==
  ASSUME Inv, NEW d \in Devices, NEW ask, NEW ok, Byebye(d, ask, ok) PROVE Inv'
<1>1. /\ downloads' = downloads /\ phase' = phase /\ phase # "finished"
      /\ phase' = "registered" => phase \in {"none", "registered"}
  BY Zenon DEF Byebye, IsRegistered
<1>2. CASE UNCHANGED <<root_devices, service, maps>>
  BY <1>1, <1>2, SameLists, SameMaps DEF Inv, ListInv
<1>3. CASE ~UNCHANGED <<root_devices, service, maps>>
  <2>1. /\ \E i \in DOMAIN root_devices : root_devices' = Erased(root_devices, i)
        /\ service' = UpdateServicesCache(service, root_devices', ask)
        /\ UpdatePortMappings(mapping, timers, service', ok)
    BY <1>3 DEF Byebye, DeleteRootDevice
  <2>2. PICK i \in DOMAIN root_devices : root_devices' = Erased(root_devices, i)
    BY Zenon, <2>1
  <2>3. /\ service' \in [Services -> ServiceStates]
        /\ \A s \in Services : service'[s].cached <=> Holds(root_devices', Owner[s])
    BY Zenon, <2>1, CacheRebuilt DEF Inv, ListInv
  <2>4. /\ root_devices \in Seq(Devices) /\ Len(root_devices) \in Nat
        /\ DOMAIN root_devices = 1 .. Len(root_devices) /\ i \in 1 .. Len(root_devices)
    BY DEF Inv, ListInv
  <2>5. root_devices' = [j \in 1 .. Len(root_devices) - 1 |->
                           IF j < i THEN root_devices[j] ELSE root_devices[j + 1]]
    BY <2>2 DEF Erased
  <2>6. root_devices' \in Seq(Devices)
    <3>1. \A j \in 1 .. Len(root_devices) - 1 : (IF j < i THEN root_devices[j] ELSE root_devices[j + 1]) \in Devices
      BY <2>4
    <3>2. Len(root_devices) - 1 \in Nat
      BY <2>4
    <3>. QED BY <2>5, <3>1, <3>2
  <2>7. RootDevicesUnique'
    <3> SUFFICES ASSUME NEW j \in DOMAIN root_devices', NEW k \in DOMAIN root_devices',
                        root_devices'[j] = root_devices'[k]
                 PROVE  j = k
      BY DEF RootDevicesUnique
    <3> DEFINE from(l) == IF l < i THEN l ELSE l + 1
    <3>1. j \in 1 .. Len(root_devices) - 1 /\ k \in 1 .. Len(root_devices) - 1
      BY Zenon, <2>5
    <3>2. /\ root_devices'[j] = root_devices[from(j)] /\ root_devices'[k] = root_devices[from(k)]
      BY Zenon, <2>5, <3>1
    <3>3. from(j) \in DOMAIN root_devices /\ from(k) \in DOMAIN root_devices
      BY <2>4, <3>1
    <3>4. from(j) = from(k)
      BY Zenon, <3>2, <3>3 DEF Inv, ListInv, RootDevicesUnique
    <3>. QED BY <2>4, <3>1, <3>4
  <2>8. CacheIsCurrent'
    BY <2>3 DEF CacheIsCurrent, Holds
  <2>9. ListInv'
    BY <1>1, <2>3, <2>6, <2>7, <2>8 DEF Inv, ListInv
  <2>10. MapInv'
    BY <1>1, <2>1, UpdateKeeps, MapInvReady DEF Inv
  <2>. QED BY Zenon, <2>9, <2>10 DEF Inv
<1>. QED BY <1>2, <1>3

\* The events of a service change neither the devices nor what is cached.
LEMMA SameCache ==
  ASSUME ListInv, UNCHANGED <<phase, downloads, root_devices>>,
         service' \in [Services -> ServiceStates],
         \A s \in Services : service'[s].cached = service[s].cached
  PROVE  ListInv'
  BY Zenon DEF ListInv, RootDevicesUnique, CacheIsCurrent, Holds

\* A service that is replaced by one with another status.
LEMMA Replaced ==
  ASSUME ListInv, NEW s \in Services, NEW r \in ServiceStates, r.cached = service[s].cached,
         service' = [service EXCEPT ![s] = r], UNCHANGED <<phase, downloads, root_devices>>
  PROVE  ListInv'
<1>1. service \in [Services -> ServiceStates]
  BY DEF ListInv
<1>2. service' \in [Services -> ServiceStates] /\ \A q \in Services : service'[q].cached = service[q].cached
  BY <1>1
<1>. QED BY <1>2, SameCache

LEMMA StatusReplyKeeps ==
  ASSUME Inv, NEW s \in Services, NEW reply, NEW subscribe \in BOOLEAN, NEW ok,
         StatusReply(s, reply, subscribe, ok)
  PROVE  Inv'
<1> DEFINE no == FALSE
           yes == TRUE
           n == service[s].asked - 1
           heard == [service[s] EXCEPT !.asked = n]
           other == [heard EXCEPT !.status_requested = no]
           sr == heard.subscription_requested \/ subscribe
           sd == heard.subscribed /\ ~subscribe
           alive == [heard EXCEPT !.status_requested = no, !.enabled = yes,
                                  !.subscription_requested = sr, !.subscribed = sd]
<1>1. /\ service[s] \in ServiceStates /\ service[s].asked > 0 /\ service[s].asked \in Nat
      /\ UNCHANGED <<phase, downloads, root_devices>>
  BY DEF StatusReply, Inv, ListInv, ServiceStates
<1>2. \/ service' = [service EXCEPT ![s] = alive] /\ UpdatePortMappings(mapping, timers, service', ok)
      \/ service' = [service EXCEPT ![s] = other] /\ UNCHANGED maps
      \/ service' = [service EXCEPT ![s] = heard] /\ UNCHANGED maps
  BY DEF StatusReply
<1>3. no \in BOOLEAN /\ yes \in BOOLEAN /\ n \in Nat /\ sr \in BOOLEAN /\ sd \in BOOLEAN
  BY <1>1
<1> HIDE DEF no, yes, n, sr, sd
<1>4. heard \in ServiceStates /\ heard.cached = service[s].cached
  BY <1>1, <1>3 DEF ServiceStates
<1> HIDE DEF heard
<1>5. /\ other \in ServiceStates /\ other.cached = service[s].cached
      /\ alive \in ServiceStates /\ alive.cached = service[s].cached
  BY Zenon, <1>3, <1>4 DEF ServiceStates
<1> HIDE DEF other, alive
<1>6. ListInv'
  BY <1>1, <1>2, <1>4, <1>5, Replaced DEF Inv
<1>7. MapInv'
  BY <1>1, <1>2, UpdateKeeps, MapInvReady, SameMaps DEF Inv
<1>. QED BY <1>6, <1>7 DEF Inv

LEMMA ServiceEventKeeps ==
  ASSUME Inv, NEW s \in Services, NEW connected \in BOOLEAN, NEW ok,
         ProcessChangeEvent(s, connected, ok) \/ ProcessSubscriptionEvent(s)
  PROVE  Inv'
<1> DEFINE no == FALSE
           yes == TRUE
           changed == [service[s] EXCEPT !.enabled = connected]
           granted == [service[s] EXCEPT !.subscription_requested = no, !.subscribed = yes]
<1>1. service[s] \in ServiceStates /\ UNCHANGED <<phase, downloads, root_devices>>
  BY DEF Inv, ListInv, ProcessChangeEvent, ProcessSubscriptionEvent
<1>2. \/ service' = [service EXCEPT ![s] = changed] /\ UpdatePortMappings(mapping, timers, service', ok)
      \/ service' = [service EXCEPT ![s] = changed] /\ UNCHANGED maps
      \/ service' = [service EXCEPT ![s] = granted] /\ UNCHANGED maps
  BY DEF ProcessChangeEvent, ProcessSubscriptionEvent
<1>3. no \in BOOLEAN /\ yes \in BOOLEAN
  OBVIOUS
<1> HIDE DEF no, yes
<1>4. /\ changed \in ServiceStates /\ changed.cached = service[s].cached
      /\ granted \in ServiceStates /\ granted.cached = service[s].cached
  BY Zenon, <1>1, <1>3 DEF ServiceStates
<1> HIDE DEF changed, granted
<1>5. ListInv'
  BY <1>1, <1>2, <1>4, Replaced DEF Inv
<1>6. MapInv'
  BY <1>1, <1>2, UpdateKeeps, MapInvReady, SameMaps DEF Inv
<1>. QED BY <1>5, <1>6 DEF Inv

-----------------------------------------------------------------------------
(* The theorems.                                                           *)

LEMMA InitInv == ASSUME Init PROVE Inv
<1>1. NewMapping \in MappingStates /\ ~NewMapping.enabled
      /\ \A s \in Services : NewMapping.age[s] = Never
  BY Zenon, NewMappings
<1>2. MapInv
  BY Zenon, <1>1 DEF Init, MapInv, Callbacks, Consistent
<1>3. NewService \in ServiceStates /\ ~NewService.cached
  BY Zenon DEF NewService, ServiceStates
<1>4. ListInv
  BY <1>3 DEF Init, ListInv, RootDevicesUnique, CacheIsCurrent, Holds
<1>. QED BY Zenon, <1>2, <1>4 DEF Inv

LEMMA StepInv == ASSUME Inv, [Next]_vars PROVE Inv'
<1>1. phase \in {"none", "initialised", "registered", "cancelled", "unregistered", "finished"}
  BY DEF Inv, ListInv
<1>2. CASE UNCHANGED vars
  <2>1. UNCHANGED <<phase, downloads, root_devices, service>> /\ UNCHANGED maps
    BY Zenon, <1>2 DEF vars
  <2>2. ListInv'
    BY <2>1, SameCache DEF Inv, ListInv
  <2>3. MapInv'
    BY Zenon, <2>1, SameMaps DEF Inv
  <2>. QED BY <2>2, <2>3 DEF Inv
<1>3. ASSUME NEW initialised \in BOOLEAN, NEW registered \in BOOLEAN,
             InitControlPoint(initialised, registered)
      PROVE  Inv'
  <2>1. /\ phase = "none" /\ phase' \in {"none", "initialised", "registered"}
        /\ UNCHANGED <<downloads, root_devices, service>> /\ UNCHANGED maps
    BY <1>3 DEF InitControlPoint, Register
  <2>. QED BY <2>1, SameLists, SameMaps DEF Inv
<1>4. ASSUME NEW p \in Ports, NEW ok, AddPortMapping(p, ok) PROVE Inv'
  <2>1. UNCHANGED <<phase, downloads, root_devices, service>> /\ phase # "finished"
    BY Zenon, <1>4 DEF AddPortMapping
  <2>. QED BY Zenon, <1>1, <1>4, <2>1, SameLists, AddPortMappingKeeps DEF Inv
<1>5. ASSUME DeleteAllPortMappings \/ \E p \in Ports : DeletePortMapping(p) PROVE Inv'
  <2>1. /\ UNCHANGED <<downloads, root_devices, service>> /\ phase # "finished"
        /\ phase' \in {phase, "unregistered"}
    BY Zenon, <1>5 DEF DeleteAllPortMappings, DeletePortMapping, UnRegister
  <2>. QED BY Zenon, <1>1, <1>5, <2>1, SameLists, DeleteKeeps DEF Inv
<1>6. ASSUME Cancel PROVE Inv'
  <2>1. /\ UNCHANGED <<downloads, root_devices, service>> /\ phase # "finished"
        /\ phase' \in {"cancelled", "unregistered"}
    BY <1>6 DEF Cancel
  <2>. QED BY Zenon, <1>6, <2>1, SameLists, CancelKeeps DEF Inv
<1>7. ASSUME Finish PROVE Inv'
  <2>1. UNCHANGED maps /\ phase' = "finished"
    BY <1>7 DEF Finish
  <2>. QED BY <1>7, <2>1, FinishKeeps, SameMaps DEF Inv
<1>8. ASSUME NEW d \in Devices, Alive(d) PROVE Inv'
  <2>1. UNCHANGED maps /\ phase' = phase
    BY Zenon, <1>8 DEF Alive
  <2>. QED BY Zenon, <1>8, <2>1, AliveKeeps, SameMaps DEF Inv
<1>9. ASSUME NEW d \in Devices, NEW got \in BOOLEAN, NEW ask, Described(d, got, ask) PROVE Inv'
  <2>1. UNCHANGED maps /\ phase' = phase
    BY Zenon, <1>9 DEF Described
  <2>. QED BY Zenon, <1>9, <2>1, DescribedKeeps, SameMaps DEF Inv
<1>10. ASSUME NEW ask, NEW ok, EventCallback(ask, ok) PROVE Inv'
  BY Zenon, <1>8, <1>9, <1>10, ByebyeKeeps, StatusReplyKeeps, ServiceEventKeeps DEF EventCallback
<1>11. ASSUME NEW t \in timers, NEW ok, RefreshPortMappingCallback(t, ok) PROVE Inv'
  <2>1. UNCHANGED <<phase, downloads, root_devices, service>>
    BY <1>11 DEF RefreshPortMappingCallback
  <2>. QED BY <1>11, <2>1, SameCache, RefreshKeeps DEF Inv, ListInv
<1>12. ASSUME Tick PROVE Inv'
  <2>1. UNCHANGED <<phase, downloads, root_devices, service>>
    BY <1>12 DEF Tick
  <2>. QED BY <1>12, <2>1, SameCache, TickKeeps DEF Inv, ListInv
<1>. QED
  BY Zenon, <1>2, <1>3, <1>4, <1>5, <1>6, <1>7, <1>10, <1>11, <1>12 DEF Next

LEMMA Invariance == Spec => []Inv
<1>1. Init => Inv
  BY InitInv
<1>2. Inv /\ [Next]_vars => Inv'
  BY StepInv
<1>. QED BY <1>1, <1>2, PTL DEF Spec

\* AddRootDevice lists a device once although it may be advertised again while its
\* description is downloaded, UpdateServicesCache leaves the services of the listed
\* devices and no others in services_cache_, OnNewMapping and OnLostMapping tell the
\* application which mappings are enabled, and ProcessDiscoveryEvent does not download
\* the description of a listed device: for any devices, services and ports.
THEOREM ListsStayInAgreement == Spec => ListsAgree
<1>1. Inv => TypeOK /\ RootDevicesUnique /\ CacheIsCurrent /\ ToldTheTruth
  BY Zenon DEF Inv, ListInv, MapInv, TypeOK, ServiceStates, MappingStates, Calls, Callbacks,
     Consistent,
         ToldTheTruth
<1>2. Inv /\ [Next]_vars =>
        [\A d \in Plain : Holds(root_devices, d) => downloads'[d] <= downloads[d]]_vars
  <2> SUFFICES ASSUME Inv, Next, NEW d \in Plain, Holds(root_devices, d)
               PROVE  downloads'[d] <= downloads[d]
    OBVIOUS
  <2>1. downloads \in [Devices -> Nat] /\ d \in Devices /\ RootDeviceExists(d)
    BY UpnpAssumption DEF Inv, ListInv, RootDeviceExists
  <2>2. ASSUME downloads' = downloads PROVE downloads'[d] <= downloads[d]
    BY <2>1, <2>2
  <2>3. ASSUME NEW c \in Devices, Alive(c) PROVE downloads'[d] <= downloads[d]
    BY <2>1, <2>3 DEF Alive
  <2>4. ASSUME NEW c \in Devices, NEW got \in BOOLEAN, NEW ask, Described(c, got, ask)
        PROVE  downloads'[d] <= downloads[d]
    BY <2>1, <2>4 DEF Described
  <2>5. ASSUME NEW ask, NEW ok, EventCallback(ask, ok) PROVE downloads'[d] <= downloads[d]
    BY Zenon, <2>2, <2>3, <2>4, <2>5
    DEF EventCallback, Byebye, StatusReply, ProcessChangeEvent, ProcessSubscriptionEvent
  <2>. QED
    BY Zenon, <2>2, <2>5 DEF Next, InitControlPoint, AddPortMapping, DeletePortMapping, Cancel,
       DeleteAllPortMappings, Finish, RefreshPortMappingCallback, Tick
<1>. QED BY <1>1, <1>2, Invariance, PTL DEF Spec, ListsAgree, KnownIsNotDownloaded

\* As long as a mapping counts as recently refreshed on a service it is enabled, and while
\* the client is registered the call of RefreshPortMappingCallback that
\* AddPortMappingToService has scheduled is due at the moment when it no longer does:
\* for any lease, any threshold and any number of devices that come and go.
THEOREM RefreshStaysScheduled == Spec => []RefreshIsScheduled
<1>1. Inv => RefreshIsScheduled
  BY Zenon DEF Inv, MapInv, Consistent, IsDue, Due, RefreshIsScheduled, DisabledIsNotFresh,
     RefreshIsDue
<1>. QED BY <1>1, Invariance, PTL

-----------------------------------------------------------------------------
(* MiniUpnpClient.                                                         *)

Tables == [Mappings -> {"free", "own", "other"}]

\* A list of mappings, each of them once.
Listing(pms) ==
  /\ pms \in Seq(PortMapping)
  /\ \A i, j \in DOMAIN pms : pms[i].mapping = pms[j].mapping => i = j

\* What the runs check of a state is inductive.
MiniInv == MiniTypeOK /\ ListIsExact /\ ListCovers

\* The code that AddPortMapping and DeletePortMapping get for what the gateway replies: only
\* its consent is a success.
LEMMA ReplyCodes ==
  /\ ErrorCode(Done, Success) = Success
  /\ ErrorCode(Refuse("718"), Success) # Success
  /\ Done \notin Leftover
  /\ ~Has(Done, "errorCode") /\ ~Has(<<>>, "errorCode")
<1>1. ~Has(Done, "errorCode") /\ ~Has(<<>>, "errorCode")
  <2>1. DOMAIN Done = {1} BY DEF Done
  <2>2. Done[1].name = "Response" BY Zenon DEF Done
  <2>3. DOMAIN <<>> = {} OBVIOUS
  <2>. QED BY <2>1, <2>2, <2>3 DEF Has
<1>2. Done \notin Leftover
  <2>1. Len(Done) = 1 /\ Len(<<>>) = 0 BY DEF Done
  <2>2. Done[1].name = "Response" BY Zenon DEF Done
  <2>3. Refuse("501")[1].name = "errorCode" BY Zenon DEF Refuse
  <2>4. Address("old")[1].name = "NewExternalIPAddress" BY Zenon DEF Address
  <2>. QED BY SMTT(60), <2>1, <2>2, <2>3, <2>4 DEF Leftover
<1>3. Has(Refuse("718"), "errorCode") /\ Value(Refuse("718"), "errorCode") = "718"
  <2>1. DOMAIN Refuse("718") = {1} BY DEF Refuse
  <2>2. Refuse("718")[1].name = "errorCode" /\ Refuse("718")[1].value = "718" BY DEF Refuse
  <2>. QED BY Zenon, <2>1, <2>2 DEF Has, Value
<1>4. "718" \in DOMAIN Numbers /\ Numbers["718"] = 718
  BY DEF Numbers
<1>. QED BY <1>1, <1>2, <1>3, <1>4 DEF ErrorCode, Success, UnknownError

\* An exchange of AddPortMapping that was not lost: the gateway has the mapping and the client
\* is told so, or another host has it and the client is told that.  And whatever was lost, the
\* client sees no refusal of a mapping that the gateway has made, and no other one changes.
LEMMA AddExchange ==
  ASSUME table \in Tables, NEW m \in Mappings,
         NEW e \in Exchange(table, AddAtGateway(table, m))
  PROVE  /\ e.table \in Tables
         /\ ~LostExchange(e) =>
              \/ e.table = [table EXCEPT ![m] = "own"] /\ ErrorCode(e.list, Success) = Success
              \/ table[m] = "other" /\ e.table = table /\ ErrorCode(e.list, Success) # Success
         /\ e.table[m] = "own" /\ table[m] # "own" => ~Has(e.list, "errorCode")
         /\ \A n \in Mappings \ {m} : e.table[n] = table[n]
<1> DEFINE Mine(t) == /\ t \in Tables /\ \A n \in Mappings \ {m} : t[n] = table[n]
<1>0. Mine(table) /\ Mine([table EXCEPT ![m] = "own"])
  BY Zenon DEF Tables
<1> HIDE DEF Mine
<1>1. ASSUME NEW f \in AddAtGateway(table, m)
      PROVE  /\ f = [table |-> f.table, list |-> f.list] /\ Mine(f.table)
             /\ \/ f.list = Refuse("501") /\ f.table = table
                \/ f.table = [table EXCEPT ![m] = "own"] /\ f.list = Done
                \/ table[m] = "other" /\ f.table = table /\ f.list = Refuse("718")
  <2> DEFINE own == [table EXCEPT ![m] = "own"]
  <2>1. Mine(own) /\ Mine(table) BY Zenon, <1>0
  <2>2. \/ f = [table |-> table, list |-> Refuse("718")] /\ table[m] = "other"
        \/ f = [table |-> own, list |-> Done]
        \/ f = [table |-> table, list |-> Refuse("501")]
    BY Zenon, <1>1 DEF AddAtGateway
  <2> HIDE DEF own
  <2>3. /\ f = [table |-> f.table, list |-> f.list] /\ Mine(f.table)
        /\ \/ f.list = Refuse("501") /\ f.table = table
           \/ f.table = own /\ f.list = Done
           \/ table[m] = "other" /\ f.table = table /\ f.list = Refuse("718")
    BY <2>1, <2>2
  <2>. QED BY <2>3 DEF own
<1>2. \/ e \in AddAtGateway(table, m)
      \/ \E l \in Leftover : e = [table |-> table, list |-> l]
      \/ \E f \in AddAtGateway(table, m) : e = [f EXCEPT !.list = <<>>]
  BY Zenon DEF Exchange, Leftover
<1>3. CASE e \in AddAtGateway(table, m)
  <2>1. Mine(e.table) /\ (e.list = Refuse("501") => LostExchange(e))
    BY Zenon, <1>1, <1>3 DEF LostExchange, Leftover
  <2>2. e.table[m] = "own" /\ table[m] # "own" => e.list = Done
    BY Zenon, <1>1, <1>3
  <2>. QED BY Zenon, <1>1, <1>3, <2>1, <2>2, ReplyCodes DEF Mine
<1>4. ASSUME NEW l \in Leftover, e = [table |-> table, list |-> l]
      PROVE  e.table = table /\ LostExchange(e)
  <2>1. e.table = table /\ e.list = l
    BY Zenon, <1>4
  <2>. QED BY Zenon, <2>1 DEF LostExchange
<1>5. ASSUME NEW f \in AddAtGateway(table, m), e = [f EXCEPT !.list = <<>>]
      PROVE  Mine(e.table) /\ LostExchange(e) /\ ~Has(e.list, "errorCode")
  <2>1. e.table = f.table /\ e.list = <<>>
    BY <1>1, <1>5
  <2>. QED BY Zenon, <1>1, <2>1, ReplyCodes DEF LostExchange, Leftover
<1>. QED BY Zenon, <1>0, <1>2, <1>3, <1>4, <1>5 DEF Mine

\* One of DeletePortMapping that was not lost: the mapping is gone from the gateway.  No other
\* one changes in any case.
LEMMA DeleteExchange ==
  ASSUME table \in Tables, NEW m \in Mappings,
         NEW e \in Exchange(table, DeleteAtGateway(table, m))
  PROVE  /\ e.table \in Tables /\ \A n \in Mappings \ {m} : e.table[n] = table[n]
         /\ ~LostExchange(e) => e.table = [table EXCEPT ![m] = "free"]
<1>1. ASSUME NEW f \in DeleteAtGateway(table, m)
      PROVE  /\ f \in [table : Tables, list : {Refuse("714"), Done}]
             /\ f.table = [table EXCEPT ![m] = "free"]
  <2> DEFINE free == [table EXCEPT ![m] = "free"]
  <2>1. free \in Tables /\ (table[m] = "free" => free = table) BY DEF Tables
  <2>2. \/ f = [table |-> table, list |-> Refuse("714")] /\ table[m] = "free"
        \/ f = [table |-> free, list |-> Done]
    BY <1>1 DEF DeleteAtGateway
  <2> HIDE DEF free
  <2>3. f \in [table : Tables, list : {Refuse("714"), Done}] /\ f.table = free
    BY <2>1, <2>2
  <2>. QED BY <2>3 DEF free
<1>2. \/ e \in DeleteAtGateway(table, m)
      \/ \E l \in Leftover : e = [table |-> table, list |-> l]
      \/ \E f \in DeleteAtGateway(table, m) : e = [f EXCEPT !.list = <<>>]
  BY Zenon DEF Exchange, Leftover
<1>3. CASE e \in DeleteAtGateway(table, m)
  BY Zenon, <1>1, <1>3 DEF Tables
<1>4. ASSUME NEW l \in Leftover, e = [table |-> table, list |-> l]
      PROVE  e.table = table /\ LostExchange(e)
  <2>1. e.table = table /\ e.list = l
    BY Zenon, <1>4
  <2>. QED BY Zenon, <2>1 DEF LostExchange
<1>5. ASSUME NEW f \in DeleteAtGateway(table, m), e = [f EXCEPT !.list = <<>>]
      PROVE  e.table = [table EXCEPT ![m] = "free"] /\ e.table \in Tables /\ LostExchange(e)
  <2>1. e.table = f.table /\ e.list = <<>> /\ f.table \in Tables
    BY <1>1, <1>5
  <2>. QED BY Zenon, <1>1, <2>1 DEF LostExchange, Leftover
<1>. QED BY Zenon, <1>2, <1>3, <1>4, <1>5 DEF Tables

-----------------------------------------------------------------------------
\* push_back of a mapping that is not listed: it is not enabled.
LEMMA KnownList ==
  ASSUME Listing(port_mappings_), NEW m \in Mappings
  PROVE  /\ Listing(Known(m))
         /\ \E i \in DOMAIN Known(m) : Known(m)[i].mapping = m
         /\ \A n \in Mappings : IsEnabled(Known(m), n) <=> IsEnabled(port_mappings_, n)
<1>1. CASE PortMappingExists(m) # {}
  BY <1>1 DEF Known, PortMappingExists
<1>2. CASE PortMappingExists(m) = {}
  <2> DEFINE pm == [mapping |-> m, enabled |-> FALSE]
             old == port_mappings_
             new == Append(old, pm)
  <2>1. /\ old \in Seq(PortMapping)
        /\ pm \in PortMapping /\ pm.mapping = m /\ ~pm.enabled
    BY DEF Listing, PortMapping
  <2>2. \A i \in DOMAIN old : old[i].mapping # m
    BY <1>2 DEF PortMappingExists
  <2>3. Known(m) = new
    BY <1>2 DEF Known
  <2> HIDE DEF pm
  <2>4. /\ new \in Seq(PortMapping)
        /\ DOMAIN old = 1..Len(old) /\ DOMAIN new = 1..(Len(old) + 1) /\ Len(old) \in Nat
        /\ new[Len(old) + 1] = pm /\ \A i \in 1..Len(old) : new[i] = old[i]
    BY <2>1
  <2> HIDE DEF new
  <2>5. \A i \in DOMAIN new : i \in DOMAIN old \/ i = Len(old) + 1
    BY <2>4
  <2>6. Listing(new)
    BY Zenon, <2>1, <2>2, <2>4, <2>5 DEF Listing
  <2>7. \A n \in Mappings : IsEnabled(new, n) <=> IsEnabled(old, n)
    BY <2>1, <2>4, <2>5 DEF IsEnabled
  <2>8. Len(old) + 1 \in DOMAIN new
    BY <2>4
  <2>. QED BY <2>1, <2>3, <2>4, <2>6, <2>7, <2>8
<1>. QED BY <1>1, <1>2

\* Enable marks a listed mapping with the outcome, and touches no other one.
Marks(pms, m, res) ==
  /\ Listing(Enable(pms, m, res))
  /\ IsEnabled(Enable(pms, m, res), m) <=> res = Success
  /\ \A n \in Mappings \ {m} : IsEnabled(Enable(pms, m, res), n) <=> IsEnabled(pms, n)

\* AddPortMapping marks the mapping, once it is listed, with what the gateway replied.
LEMMA EnableList ==
  ASSUME NEW pms, Listing(pms), NEW m \in Mappings, NEW res,
         NEW k \in DOMAIN pms, pms[k].mapping = m
  PROVE  Marks(pms, m, res)
<1> DEFINE new == Enable(pms, m, res)
<1>1. pms \in Seq(PortMapping) /\ DOMAIN pms = 1..Len(pms)
  BY DEF Listing
<1>2. DOMAIN new = DOMAIN pms
  BY Zenon DEF Enable
<1>3. \A i \in DOMAIN pms : /\ new[i] \in PortMapping
                            /\ new[i].mapping = pms[i].mapping
                            /\ pms[i].mapping = m => (new[i].enabled <=> res = Success)
                            /\ pms[i].mapping # m => (new[i].enabled <=> pms[i].enabled)
  <2> TAKE i \in DOMAIN pms
  <2> DEFINE ok == (res = Success)
             pm == pms[i]
  <2>1. pm \in PortMapping /\ ok \in BOOLEAN
    BY <1>1
  <2>2. new[i] = IF pm.mapping = m THEN [pm EXCEPT !.enabled = ok] ELSE pm
    BY DEF Enable
  <2> HIDE DEF new, pm, ok
  <2>3. /\ new[i] \in PortMapping
        /\ new[i].mapping = pm.mapping
        /\ pm.mapping = m => new[i].enabled = ok
        /\ pm.mapping # m => new[i] = pm
    BY <2>1, <2>2 DEF PortMapping
  <2>. QED BY Zenon, <2>3 DEF pm, ok
<1>4. new \in Seq(PortMapping)
  <2>1. new = [i \in 1..Len(pms) |-> new[i]] /\ Len(pms) \in Nat
    BY <1>1, <1>2 DEF Enable
  <2> HIDE DEF new
  <2>. QED BY <1>1, <1>3, <2>1
<1> HIDE DEF new
<1>5. Listing(new)
  BY <1>2, <1>3, <1>4 DEF Listing
<1>. QED BY <1>2, <1>3, <1>5 DEF Marks, IsEnabled, new

\* erase: the other mappings stay as they are, each one once.
LEMMA EraseList ==
  ASSUME NEW pms, Listing(pms), NEW m \in Mappings, NEW k \in DOMAIN pms, pms[k].mapping = m
  PROVE  /\ Listing(Erase(pms, m))
         /\ ~IsEnabled(Erase(pms, m), m)
         /\ \A n \in Mappings \ {m} : IsEnabled(Erase(pms, m), n) <=> IsEnabled(pms, n)
<1> DEFINE new == Erase(pms, m)
           at(i) == IF i < k THEN i ELSE i + 1
<1>1. /\ pms \in Seq(PortMapping) /\ DOMAIN pms = 1..Len(pms)
      /\ Len(pms) \in Nat /\ k \in 1..Len(pms)
  BY DEF Listing
<1>2. (CHOOSE i \in DOMAIN pms : pms[i].mapping = m) = k
  BY DEF Listing
<1>3. new = [i \in 1..(Len(pms) - 1) |-> pms[at(i)]]
  BY Zenon, <1>2 DEF Erase
<1> HIDE DEF new
<1>4. \A i \in 1..(Len(pms) - 1) : at(i) \in DOMAIN pms \ {k}
  BY <1>1
<1>5. new \in Seq(PortMapping) /\ DOMAIN new = 1..(Len(pms) - 1)
  <2>1. \A i \in 1..(Len(pms) - 1) : pms[at(i)] \in PortMapping
    BY <1>1, <1>4
  <2>2. Len(pms) - 1 \in Nat BY <1>1
  <2> HIDE DEF at
  <2>. QED BY <1>3, <2>1, <2>2
<1>6. \A i \in DOMAIN new : new[i] = pms[at(i)] /\ at(i) \in DOMAIN pms \ {k}
  BY <1>3, <1>4, <1>5
<1>7. \A i, j \in DOMAIN new : at(i) = at(j) => i = j
  BY <1>1, <1>5
<1>8. \A j \in DOMAIN pms \ {k} : \E i \in DOMAIN new : at(i) = j
  <2> TAKE j \in DOMAIN pms \ {k}
  <2>1. CASE j < k
    <3>1. j \in DOMAIN new /\ at(j) = j BY <1>1, <1>5, <2>1
    <3>. QED BY <3>1
  <2>2. CASE j > k
    <3>1. j - 1 \in DOMAIN new /\ at(j - 1) = j BY <1>1, <1>5, <2>2
    <3>. QED BY Zenon, <3>1
  <2>. QED BY <1>1, <2>1, <2>2
<1> HIDE DEF at
<1>9. Listing(new)
  BY Zenon, <1>5, <1>6, <1>7 DEF Listing
<1>10. ~IsEnabled(new, m)
  BY Zenon, <1>6 DEF IsEnabled, Listing
<1>11. \A n \in Mappings \ {m} : IsEnabled(new, n) <=> IsEnabled(pms, n)
  BY <1>6, <1>8 DEF IsEnabled
<1>. QED BY <1>9, <1>10, <1>11 DEF new

-----------------------------------------------------------------------------
LEMMA MiniListing == MiniTypeOK <=> /\ Listing(port_mappings_) /\ table \in Tables
                                    /\ {is_initialised_, has_services_, up, lost, left} \subseteq BOOLEAN
BY Zenon DEF MiniTypeOK, Listing, Tables

\* AddPortMapping: while nothing is lost, the mapping is enabled exactly when the gateway has it.
LEMMA AddKeeps ==
  ASSUME MiniInv, NEW m \in Mappings, MiniAddPortMapping(m)
  PROVE  MiniInv' /\ (~lost' /\ returned'.result => table'[m] = "own")
<1>1. /\ Listing(port_mappings_) /\ table \in Tables
      /\ {is_initialised_, has_services_, up, lost, left} \subseteq BOOLEAN
  BY Zenon, MiniListing DEF MiniInv
<1>2. UNCHANGED <<is_initialised_, has_services_, up>>
  BY Zenon DEF MiniAddPortMapping
<1>3. CASE ~has_services_
  <2>1. port_mappings_' = Known(m) /\ UNCHANGED <<table, lost, left>> /\ returned'.result = FALSE
    <3>1. /\ port_mappings_' = Known(m) /\ UNCHANGED <<table, lost, left>>
          /\ returned' = Call("AddPortMapping", m, FALSE)
      BY Zenon, <1>3 DEF MiniAddPortMapping
    <3>2. Call("AddPortMapping", m, FALSE).result = FALSE
      BY Zenon DEF Call
    <3>. QED BY Zenon, <3>1, <3>2
  <2>2. MiniTypeOK'
    BY Zenon, <1>1, <1>2, <2>1, KnownList DEF MiniTypeOK, Listing, Tables
  <2>3. ListIsExact' /\ ListCovers'
    BY Zenon, <1>1, <2>1, KnownList DEF MiniInv, ListIsExact, ListCovers
  <2>. QED BY Zenon, <2>1, <2>2, <2>3 DEF MiniInv
<1>4. CASE has_services_
  <2>1. PICK e \in Exchange(table, AddAtGateway(table, m)) :
               /\ port_mappings_' = Enable(Known(m), m, ErrorCode(e.list, Success))
               /\ table' = e.table
               /\ returned' = Call("AddPortMapping", m, ErrorCode(e.list, Success) = Success)
               /\ lost' = (lost \/ LostExchange(e))
               /\ left' = (left \/ (table[m] = "own" /\ Has(e.list, "errorCode")))
    BY Zenon, <1>4 DEF MiniAddPortMapping, UPNP_AddPortMapping, Returns
  <2> DEFINE res == ErrorCode(e.list, Success)
  <2>2. PICK k \in DOMAIN Known(m) : Known(m)[k].mapping = m
    BY Zenon, <1>1, KnownList
  <2>3. /\ Listing(port_mappings_')
        /\ IsEnabled(port_mappings_', m) <=> res = Success
        /\ \A n \in Mappings \ {m} : IsEnabled(port_mappings_', n) <=> IsEnabled(port_mappings_, n)
    <3> DEFINE known == Known(m)
    <3>1. /\ Listing(known)
          /\ \A n \in Mappings : IsEnabled(known, n) <=> IsEnabled(port_mappings_, n)
      BY Zenon, <1>1, KnownList
    <3>2. k \in DOMAIN known /\ known[k].mapping = m /\ port_mappings_' = Enable(known, m, res)
      BY Zenon, <2>1, <2>2
    <3> HIDE DEF known, res
    <3>3. Marks(known, m, res)
      BY Zenon, <3>1, <3>2, EnableList
    <3>. QED BY Zenon, <3>1, <3>2, <3>3 DEF Marks
  <2>4. /\ table' \in Tables
        /\ ~LostExchange(e) => \/ table' = [table EXCEPT ![m] = "own"] /\ res = Success
                               \/ table[m] = "other" /\ table' = table /\ res # Success
        /\ table'[m] = "own" /\ table[m] # "own" => ~Has(e.list, "errorCode")
        /\ \A n \in Mappings \ {m} : table'[n] = table[n]
    BY Zenon, <1>1, <2>1, AddExchange
  <2>5. lost' \in BOOLEAN /\ (~lost' => ~lost /\ ~LostExchange(e))
    BY Zenon, <2>1
  <2>6. returned'.result <=> res = Success
    BY Zenon, <2>1 DEF Call
  <2>10. left' \in BOOLEAN /\ (~left' /\ table'[m] = "own" => ~left /\ res = Success)
    BY Zenon, <1>1, <2>1, <2>4 DEF ErrorCode
  <2>11. ~left' => ~left
    BY Zenon, <2>1
  <2> HIDE DEF res
  <2>7. MiniTypeOK'
    BY Zenon, <1>1, <1>2, <2>3, <2>4, <2>5, <2>10 DEF MiniTypeOK, Listing, Tables
  <2>8. ASSUME ~lost' PROVE /\ table'[m] = "own" <=> res = Success
                            /\ \A n \in Mappings \ {m} : table'[n] = table[n]
    BY Zenon, <1>1, <2>4, <2>5, <2>8 DEF Tables
  <2>9. ListIsExact'
    BY Zenon, <2>3, <2>5, <2>8 DEF MiniInv, ListIsExact
  <2>12. ListCovers'
    BY Zenon, <2>3, <2>4, <2>10, <2>11 DEF MiniInv, ListCovers
  <2>. QED BY Zenon, <2>6, <2>7, <2>8, <2>9, <2>12 DEF MiniInv
<1>. QED BY Zenon, <1>1, <1>3, <1>4

\* What DeletePortMapping makes of the list and of the gateway for a listed mapping.
LEMMA DeletedKeeps ==
  ASSUME MiniInv, NEW k \in DOMAIN port_mappings_, NEW m \in Mappings,
         port_mappings_[k].mapping = m, NEW d \in Deleted(port_mappings_, table, m)
  PROVE  /\ Listing(d.maps) /\ d.table \in Tables /\ d.lost \in BOOLEAN /\ d.left \in BOOLEAN
         /\ ~left /\ ~d.left => \A n \in Mappings : d.table[n] = "own" => IsEnabled(d.maps, n)
         /\ ~lost /\ ~d.lost =>
              /\ d.table[m] # "own"
              /\ \A n \in Mappings : d.table[n] = "own" <=> IsEnabled(d.maps, n)
<1> DEFINE new == Erase(port_mappings_, m)
<1>1. Listing(port_mappings_) /\ table \in Tables
  BY Zenon, MiniListing DEF MiniInv
<1>2. /\ Listing(new) /\ ~IsEnabled(new, m)
      /\ \A n \in Mappings \ {m} : IsEnabled(new, n) <=> IsEnabled(port_mappings_, n)
  BY Zenon, <1>1, EraseList
<1>3. ~lost => \A n \in Mappings : table[n] = "own" <=> IsEnabled(port_mappings_, n)
  BY Zenon DEF MiniInv, ListIsExact
<1>6. ~left => \A n \in Mappings : table[n] = "own" => IsEnabled(port_mappings_, n)
  BY Zenon DEF MiniInv, ListCovers
<1> HIDE DEF new
<1>4. CASE IsEnabled(port_mappings_, m)
  <2>1. PICK e \in Exchange(table, DeleteAtGateway(table, m)) :
               /\ d.maps = new /\ d.table = e.table /\ d.lost = LostExchange(e)
               /\ d.left = (e.table[m] = "own")
    <3>1. PICK e \in Exchange(table, DeleteAtGateway(table, m)) :
            \E ok : d = [maps |-> new, table |-> e.table, lost |-> LostExchange(e),
                         left |-> e.table[m] = "own", ok |-> ok]
      BY Zenon, <1>4 DEF Deleted, new
    <3>2. PICK ok : d = [maps |-> new, table |-> e.table, lost |-> LostExchange(e),
                         left |-> e.table[m] = "own", ok |-> ok]
      BY Zenon, <3>1
    <3>3. d.maps = new /\ d.table = e.table
      BY Zenon, <3>2
    <3>4. d.lost = LostExchange(e)
      BY Zenon, <3>2
    <3>5. d.left = (e.table[m] = "own")
      BY Zenon, <3>2
    <3>. QED BY Zenon, <3>3, <3>4, <3>5
  <2>2. /\ e.table \in Tables /\ \A n \in Mappings \ {m} : e.table[n] = table[n]
        /\ ~LostExchange(e) => e.table = [table EXCEPT ![m] = "free"]
    BY Zenon, <1>1, DeleteExchange
  <2>3. LostExchange(e) \in BOOLEAN
    BY DEF LostExchange
  <2>4. ~LostExchange(e) => e.table[m] # "own" /\ \A n \in Mappings \ {m} : e.table[n] = table[n]
    BY Zenon, <1>1, <2>2 DEF Tables
  <2>5. ~left /\ ~d.left => \A n \in Mappings : d.table[n] = "own" => IsEnabled(d.maps, n)
    BY Zenon, <1>2, <1>6, <2>1, <2>2
  <2>6. d.left \in BOOLEAN
    BY Zenon, <2>1
  <2>. QED BY Zenon, <1>2, <1>3, <2>1, <2>2, <2>3, <2>4, <2>5, <2>6
<1>5. CASE ~IsEnabled(port_mappings_, m)
  <2>1. d.maps = new /\ d.table = table /\ d.lost = FALSE /\ d.left = FALSE
    <3>1. d = [maps |-> new, table |-> table, lost |-> FALSE, left |-> FALSE, ok |-> TRUE]
      BY Zenon, <1>5 DEF Deleted, new
    <3>. QED BY Zenon, <3>1
  <2>. QED BY Zenon, <1>1, <1>2, <1>3, <1>5, <1>6, <2>1
<1>. QED BY Zenon, <1>4, <1>5

LEMMA TakesDeleted ==
  ASSUME MiniInv, NEW k \in DOMAIN port_mappings_, NEW m \in Mappings,
         port_mappings_[k].mapping = m, NEW d \in Deleted(port_mappings_, table, m),
         port_mappings_' = d.maps, table' = d.table, lost' = (lost \/ d.lost),
         left' = (left \/ d.left),
         UNCHANGED <<is_initialised_, has_services_, up>>
  PROVE  MiniInv' /\ (~lost' => table'[m] # "own")
<1>1. {is_initialised_, has_services_, up, lost, left} \subseteq BOOLEAN
  BY Zenon, MiniListing DEF MiniInv
<1>2. /\ lost' \in BOOLEAN /\ (~lost' => ~lost /\ ~d.lost)
      /\ left' \in BOOLEAN /\ (~left' => ~left /\ ~d.left)
  BY Zenon, <1>1, DeletedKeeps
<1>3. MiniTypeOK'
  <2>1. Listing(port_mappings_') /\ table' \in Tables
    BY Zenon, DeletedKeeps
  <2>. QED BY Zenon, <1>1, <1>2, <2>1 DEF MiniTypeOK, Listing, Tables
<1>4. ListIsExact' /\ ListCovers'
  <2>1. /\ ~lost' => \A n \in Mappings : d.table[n] = "own" <=> IsEnabled(d.maps, n)
        /\ ~left' => \A n \in Mappings : d.table[n] = "own" => IsEnabled(d.maps, n)
    BY Zenon, <1>2, DeletedKeeps
  <2>. QED BY Zenon, <2>1 DEF ListIsExact, ListCovers
<1>. QED BY Zenon, <1>2, <1>3, <1>4, DeletedKeeps DEF MiniInv

LEMMA MiniDeleteKeeps ==
  ASSUME MiniInv, NEW m \in Mappings, MiniDeletePortMapping(m)
  PROVE  MiniInv' /\ (~lost' /\ returned'.result => table'[m] # "own")
<1>1. CASE PortMappingExists(m) = {}
  <2>1. returned'.result = FALSE /\ UNCHANGED <<client, up, table, lost, left>>
    <3>1. /\ returned' = Call("DeletePortMapping", m, FALSE)
          /\ UNCHANGED client /\ UNCHANGED <<up, table, lost, left>>
      BY Zenon, <1>1 DEF MiniDeletePortMapping
    <3>. QED BY Zenon, <3>1 DEF Call
  <2>. QED BY Zenon, <2>1 DEF MiniInv, MiniTypeOK, ListIsExact, ListCovers, client
<1>2. CASE PortMappingExists(m) # {}
  <2>1. PICK k \in DOMAIN port_mappings_ : port_mappings_[k].mapping = m
    BY Zenon, <1>2 DEF PortMappingExists
  <2>2. PICK d \in Deleted(port_mappings_, table, m) :
               /\ port_mappings_' = d.maps /\ table' = d.table
               /\ lost' = (lost \/ d.lost) /\ left' = (left \/ d.left)
    BY Zenon, <1>2 DEF MiniDeletePortMapping
  <2>3. UNCHANGED <<is_initialised_, has_services_, up>>
    BY Zenon, <1>2 DEF MiniDeletePortMapping
  <2>. QED BY Zenon, <2>1, <2>2, <2>3, TakesDeleted
<1>. QED BY Zenon, <1>1, <1>2

LEMMA DestroyKeeps == ASSUME MiniInv, Destroy PROVE MiniInv'
<1>1. 1 \in DOMAIN port_mappings_ /\ Head(port_mappings_) = port_mappings_[1]
  <2>1. port_mappings_ \in Seq(PortMapping) /\ port_mappings_ # <<>>
    BY Zenon DEF Destroy, MiniInv, MiniTypeOK
  <2>. QED BY <2>1
<1>2. port_mappings_[1].mapping \in Mappings
  <2>1. port_mappings_[1] \in PortMapping
    BY <1>1 DEF MiniInv, MiniTypeOK
  <2>. QED BY Zenon, <2>1 DEF PortMapping
<1>3. PICK d \in Deleted(port_mappings_, table, port_mappings_[1].mapping) :
             /\ port_mappings_' = d.maps /\ table' = d.table
             /\ lost' = (lost \/ d.lost) /\ left' = (left \/ d.left)
  BY <1>1 DEF Destroy
<1>. QED BY Zenon, <1>1, <1>2, <1>3, TakesDeleted DEF Destroy

LEMMA MiniInitInv == ASSUME MiniInit PROVE MiniInv
<1>1. MiniTypeOK
  <2>1. port_mappings_ \in Seq(PortMapping) /\ DOMAIN port_mappings_ = {}
    BY DEF MiniInit
  <2>2. table \in [Mappings -> {"free", "own", "other"}]
    BY DEF MiniInit
  <2>. QED BY Zenon, <2>1, <2>2 DEF MiniInit, MiniTypeOK
<1>2. ListIsExact /\ ListCovers
  BY DEF MiniInit, ListIsExact, ListCovers, IsEnabled
<1>. QED BY Zenon, <1>1, <1>2 DEF MiniInv

\* The actions of the gateway and of the other hosts, and the calls that map nothing.
LEMMA OthersKeep ==
  ASSUME MiniInv,
         \/ MiniInitControlPoint \/ GetExternalIpAddress \/ PowerUp \/ Reboot
         \/ \E m \in Mappings : OtherMaps(m)
         \/ UNCHANGED miniVars
  PROVE  MiniInv'
<1>1. /\ {is_initialised_, has_services_, up, lost, left} \subseteq BOOLEAN
      /\ table \in Tables
  BY Zenon, MiniListing DEF MiniInv
<1>2. port_mappings_' = port_mappings_
  BY Zenon DEF MiniInitControlPoint, GetExternalIpAddress, PowerUp, Reboot, OtherMaps, miniVars,
     client
<1>3. {is_initialised_', has_services_', up', lost', left'} \subseteq BOOLEAN
  BY Zenon, <1>1 DEF MiniInitControlPoint, DiscoverDevices, GetExternalIpAddress, PowerUp,
     Reboot, OtherMaps,
     miniVars, client
<1>4. CASE Reboot
  <2>1. table' \in Tables /\ lost' = TRUE /\ \A n \in Mappings : table'[n] # "own"
    BY Zenon, <1>4 DEF Reboot, Tables
  <2>. QED BY Zenon, <1>2, <1>3, <2>1 DEF MiniInv, MiniTypeOK, ListIsExact, ListCovers, Tables
<1>5. ASSUME NEW m \in Mappings, OtherMaps(m) PROVE MiniInv'
  <2>1. table' \in Tables /\ lost' = lost /\ left' = left
    BY Zenon, <1>1, <1>5 DEF OtherMaps, Tables
  <2>2. \A n \in Mappings : table'[n] = "own" <=> table[n] = "own"
    BY Zenon, <1>1, <1>5 DEF OtherMaps, Tables
  <2>. QED BY Zenon, <1>2, <1>3, <2>1, <2>2
           DEF MiniInv, MiniTypeOK, ListIsExact, ListCovers, Tables
<1>6. CASE UNCHANGED <<table, lost, left>>
  BY Zenon, <1>2, <1>3, <1>6 DEF MiniInv, MiniTypeOK, ListIsExact, ListCovers
<1>. QED
  BY Zenon, <1>4, <1>5, <1>6
  DEF MiniInitControlPoint, GetExternalIpAddress, PowerUp, miniVars

LEMMA MiniStepInv == ASSUME MiniInv, [MiniNext]_miniVars PROVE MiniInv'
BY AddKeeps, MiniDeleteKeeps, DestroyKeeps, OthersKeep DEF MiniNext

\* The client on miniupnpc, for any mappings and whatever the gateway, the network and the other
\* hosts do: as long as no request and no reply was lost and the gateway neither refused for
\* reasons of its own nor forgot, the mappings it has for the client are those that the list says
\* are enabled, and a call of AddPortMapping or DeletePortMapping that returns true has had its
\* effect.  And as long as no renewal is refused and every request to delete arrives, whatever
\* else is lost, the mappings it has for the client are among those.
THEOREM NothingStaysBehind == MiniSpec => NothingLeftBehind
<1>1. MiniInit => MiniInv
  BY MiniInitInv
<1>2. MiniInv /\ [MiniNext]_miniVars => MiniInv'
  BY MiniStepInv
<1>3. MiniInv /\ [MiniNext]_miniVars =>
        [calls' # calls /\ returned'.result /\ ~lost' =>
           /\ returned'.call = "AddPortMapping" => table'[returned'.mapping] = "own"
           /\ returned'.call = "DeletePortMapping" => table'[returned'.mapping] # "own"]_miniVars
  <2> SUFFICES ASSUME MiniInv, MiniNext, calls' # calls, returned'.result, ~lost'
               PROVE  /\ returned'.call = "AddPortMapping" => table'[returned'.mapping] = "own"
                      /\ returned'.call = "DeletePortMapping" => table'[returned'.mapping] # "own"
    OBVIOUS
  <2>1. ASSUME NEW m \in Mappings, MiniAddPortMapping(m)
        PROVE  returned'.call = "AddPortMapping" /\ returned'.mapping = m
    <3>1. \E x : returned' = Call("AddPortMapping", m, x)
      BY <2>1, Zenon DEF MiniAddPortMapping
    <3>. QED BY <3>1 DEF Call
  <2>2. ASSUME NEW m \in Mappings, MiniDeletePortMapping(m)
        PROVE  returned'.call = "DeletePortMapping" /\ returned'.mapping = m
    <3>1. \E x : returned' = Call("DeletePortMapping", m, x)
      BY <2>2, Zenon DEF MiniDeletePortMapping
    <3>. QED BY <3>1 DEF Call
  <2>3. CASE GetExternalIpAddress
    <3>1. returned'.call = "GetExternalIpAddress"
      <4>1. \E x, y : returned' = Call("GetExternalIpAddress", x, y)
        BY <2>3, Zenon DEF GetExternalIpAddress
      <4>. QED BY <4>1 DEF Call
    <3>. QED BY Zenon, <3>1
  <2>4. CASE Destroy
    BY Zenon, <2>4 DEF Destroy, Call
  <2>5. CASE \E m \in Mappings : MiniAddPortMapping(m)
    BY Zenon, <2>1, <2>5, AddKeeps
  <2>6. CASE \E m \in Mappings : MiniDeletePortMapping(m)
    BY Zenon, <2>2, <2>6, MiniDeleteKeeps
  <2>. QED
    BY Zenon, <2>3, <2>4, <2>5, <2>6
    DEF MiniNext, MiniInitControlPoint, PowerUp, Reboot, OtherMaps
<1>4. MiniInv => MiniTypeOK /\ ListIsExact /\ ListCovers
  BY Zenon DEF MiniInv
<1>. QED BY <1>1, <1>2, <1>3, <1>4, PTL DEF MiniSpec, NothingLeftBehind, EffectIsThere

-----------------------------------------------------------------------------
(* ValidIgd.                                                               *)

NoneSaidConnected == \A d \in Found : "Connected" \notin said[d]

\* During the passes no gateway has said that it is connected, and no URLs are allocated but
\* those of the gateway that is asked for its status, in the first pass.
ValidInv ==
  /\ ConnectedFirst
  /\ valid_list \in Seq(Found) /\ said \in [Found -> SUBSET {"Connected", "Disconnected", "none"}]
  /\ valid_pc # "done" => result = 0 /\ NoneSaidConnected
  /\ valid_pc = "download" => allocated = 0
  /\ valid_pc = "status" =>
       /\ state = 1 /\ allocated = 1
       /\ data = valid_list[dev] /\ valid_urls = valid_list[dev] /\ data \in Igd

\* The next position is in the list as long as there is one.
LEMMA ContinueStays ==
  ASSUME ValidInv, valid_pc # "done", Continue
  PROVE  /\ state' \in 1 .. 3 /\ result' = 0 /\ valid_pc' \in {valid_pc, "done"}
         /\ valid_pc' # "done" => dev' \in DOMAIN valid_list
<1>1. /\ valid_list \in Seq(Found) /\ state \in 1 .. 3 /\ result = 0 /\ result' = result
      /\ dev \in DOMAIN valid_list
  BY Zenon DEF ValidInv, ConnectedFirst, ValidTypeOK, Continue
<1>2. DOMAIN valid_list = 1 .. Len(valid_list) /\ Len(valid_list) \in Nat
  BY <1>1
<1>. QED BY <1>1, <1>2 DEF Continue

\* A pass goes on after a description that was not received, or was not a gateway's.
LEMMA PassGoesOn ==
  ASSUME ValidInv, DownloadFails \/ NotRecognized
  PROVE  ValidInv'
<1>1. /\ valid_pc = "download" /\ Continue /\ UNCHANGED <<valid_list, allocated, said>>
      /\ data' \in {data, None} /\ valid_urls' \in {valid_urls, None}
  BY Zenon DEF DownloadFails, NotRecognized
<1>2. ValidTypeOK'
  BY Zenon, <1>1, ContinueStays DEF ValidInv, ConnectedFirst, ValidTypeOK
<1>3. ConnectedFirst'
  <2>1. result' = 0 /\ allocated' = 0
    BY Zenon, <1>1, ContinueStays DEF ValidInv
  <2>2. ConnectedIsPreferred'
    BY <2>1 DEF ConnectedIsPreferred
  <2>3. SetWhenFound'
    BY Zenon, <2>1 DEF SetWhenFound
  <2>. QED BY Zenon, <1>2, <2>2, <2>3 DEF ConnectedFirst
<1>. QED BY Zenon, <1>1, <1>3, ContinueStays DEF ValidInv, NoneSaidConnected

LEMMA RecognizedKeeps == ASSUME ValidInv, Recognized PROVE ValidInv'
<1> DEFINE d == valid_list[dev]
<1>1. /\ valid_pc = "download" /\ (d \in Igd \/ state >= 3)
      /\ data' = d /\ valid_urls' = d /\ allocated' = 1
      /\ UNCHANGED <<valid_list, state, dev, said>>
      /\ state >= 2 => valid_pc' = "done" /\ result' = state
      /\ state < 2 => valid_pc' = "status" /\ result' = 0
  BY DEF Recognized, ValidInv, ConnectedFirst, ValidTypeOK
<1>2. /\ d \in Found /\ d # None /\ state \in 1 .. 3 /\ NoneSaidConnected
      /\ dev \in DOMAIN valid_list
  BY <1>1, ValidAssumption DEF ValidInv, ConnectedFirst, ValidTypeOK
<1> HIDE DEF d
<1>3. NoneSaidConnected'
  BY Zenon, <1>1, <1>2 DEF NoneSaidConnected
<1>4. ValidTypeOK'
  BY <1>1, <1>2 DEF ValidTypeOK
<1>5. ConnectedIsPreferred' /\ SetWhenFound'
  BY <1>1, <1>2, <1>3 DEF ConnectedIsPreferred, SetWhenFound, NoneSaidConnected
<1>. QED BY <1>1, <1>2, <1>3, <1>4, <1>5 DEF ValidInv, ConnectedFirst, d

LEMMA StatusKeeps == ASSUME ValidInv, Status PROVE ValidInv'
<1>1. /\ valid_pc = "status" /\ state = 1 /\ allocated = 1 /\ result = 0 /\ NoneSaidConnected
      /\ data = valid_list[dev] /\ valid_urls = data /\ data \in Igd /\ data \in Found /\ data # None
      /\ valid_list \in Seq(Found) /\ dev \in DOMAIN valid_list
      /\ said \in [Found -> SUBSET {"Connected", "Disconnected", "none"}]
  BY Zenon, ValidAssumption DEF Status, ValidInv, ConnectedFirst, ValidTypeOK
<1>2. PICK status \in {"Connected", "Disconnected", "none"} :
        /\ said' = [said EXCEPT ![data] = @ \cup {status}]
        /\ IF status = "Connected"
           THEN valid_pc' = "done" /\ result' = 1 /\ UNCHANGED <<state, dev, data, valid_urls, allocated>>
           ELSE /\ valid_urls' = None /\ allocated' = allocated - 1 /\ data' = None
                /\ IF dev < Len(valid_list) THEN dev' = dev + 1 /\ UNCHANGED state
                   ELSE dev' = 1 /\ state' = state + 1
                /\ valid_pc' = "download" /\ UNCHANGED result
  BY Zenon, <1>1 DEF Status, IsConnected, FreeUPNPUrls
<1>3. /\ said' \in [Found -> SUBSET {"Connected", "Disconnected", "none"}]
      /\ said'[data] = said[data] \cup {status}
      /\ \A c \in Found \ {data} : said'[c] = said[c]
  BY <1>1, <1>2
<1>4. valid_list' = valid_list
  BY DEF Status
<1>5. CASE status = "Connected"
  <2>1. ValidTypeOK'
    BY <1>1, <1>2, <1>4, <1>5 DEF ValidTypeOK
  <2>2. ConnectedIsPreferred' /\ SetWhenFound'
    BY <1>1, <1>2, <1>3, <1>5 DEF ConnectedIsPreferred, SetWhenFound
  <2>. QED BY <1>1, <1>2, <1>3, <1>4, <1>5, <2>1, <2>2 DEF ValidInv, ConnectedFirst
<1>6. CASE status # "Connected"
  <2>1. NoneSaidConnected'
    BY Zenon, <1>1, <1>3, <1>6 DEF NoneSaidConnected
  <2>2. DOMAIN valid_list = 1 .. Len(valid_list) /\ Len(valid_list) \in Nat
    BY <1>1
  <2>3. dev' \in DOMAIN valid_list /\ state' \in 1 .. 3 /\ allocated' = 0 /\ result' = 0
    BY <1>1, <1>2, <1>6, <2>2
  <2>4. ValidTypeOK'
    BY <1>2, <1>4, <1>6, <2>3 DEF ValidTypeOK
  <2>5. ConnectedIsPreferred' /\ SetWhenFound'
    BY <1>2, <1>6, <2>3 DEF ConnectedIsPreferred, SetWhenFound
  <2>. QED BY Zenon, <1>1, <1>2, <1>3, <1>4, <1>6, <2>1, <2>3, <2>4, <2>5 DEF ValidInv,
              ConnectedFirst
<1>. QED BY Zenon, <1>5, <1>6

\* UPNP_GetValidIGD, for any devices and any list of them, whatever descriptions and answers are
\* lost: 1 is returned with a gateway that said in this call that it is connected, 2 only when
\* none did; the URLs and the data are those of one device, and no others are left allocated.
THEOREM ConnectedComesFirst == ValidSpec => []ConnectedFirst
<1>1. ValidInit => ValidInv
  <2> SUFFICES ASSUME ValidInit PROVE ValidInv
    OBVIOUS
  <2>1. PICK n \in Nat : valid_list \in [1 .. n -> Found]
    BY ValidAssumption DEF ValidInit
  <2>2. valid_list \in Seq(Found) /\ DOMAIN valid_list = 1 .. n
    BY <2>1
  <2>3. valid_pc # "done" => 1 \in DOMAIN valid_list
    BY <2>2 DEF ValidInit
  <2>4. ValidTypeOK
    BY <2>3 DEF ValidInit, ValidTypeOK
  <2>5. NoneSaidConnected
    BY Zenon DEF ValidInit, NoneSaidConnected
  <2>. QED BY <2>2, <2>4, <2>5 DEF ValidInit, ValidInv, ConnectedFirst, ConnectedIsPreferred,
              SetWhenFound
<1>2. ValidInv /\ [ValidNext]_validVars => ValidInv'
  <2>1. ASSUME ValidInv, UNCHANGED validVars PROVE ValidInv'
    BY Zenon, <2>1 DEF ValidInv, ConnectedFirst, ValidTypeOK, ConnectedIsPreferred, SetWhenFound,
       NoneSaidConnected, validVars
  <2>. QED BY Zenon, <2>1, PassGoesOn, RecognizedKeeps, StatusKeeps DEF ValidNext
<1>3. ValidInv => ConnectedFirst
  BY DEF ValidInv
<1>. QED BY <1>1, <1>2, <1>3, PTL DEF ValidSpec
=============================================================================
