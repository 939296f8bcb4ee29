---------------------------- MODULE UpnpIgdClient ---------------------------
(***************************************************************************)
(* UpnpIgdClientImpl, the UPnP client on libupnp.  Every step is a section *)
(* that holds mutex_; libupnp runs the event callbacks on a pool of        *)
(* threads.  Devices are found by search and advertisement, their          *)
(* descriptions are downloaded without the mutex, their connection         *)
(* services are asked for their status, and port mappings are added to     *)
(* every enabled service and refreshed before their lease ends.            *)
(***************************************************************************)
EXTENDS Integers, Sequences

CONSTANTS
  Devices,      \* Internet gateway devices
  Services,     \* their connection services
  Owner,        \* the device of a service
  Plain,        \* devices whose events carry the name and the location that the
                \* description has: a name in lower case, and no URLBase
  Ports,        \* port mappings of the application
  Lease,        \* kLeaseDuration
  Threshold,    \* kRefreshThreshold
  MaxEvents     \* bound: events that come from a device on its own

ASSUME UpnpAssumption ==
  /\ Plain \subseteq Devices
  /\ Owner \in [Services -> Devices]
  /\ Lease \in Nat /\ Threshold \in Nat /\ 0 < Threshold /\ Threshold < Lease

VARIABLES
  phase,        \* none, initialised, registered, cancelled (~UpnpIgdClientImpl has
                \* cancelled the timer), unregistered, finished
  downloads,    \* descriptions being downloaded, by device
  root_devices, \* root_devices_
  service,      \* of each service: cached (in services_cache_), enabled,
                \* status_requested, asked (GetStatusInfo calls under way),
                \* subscription_requested, subscribed (subscription_id is set)
  mapping,      \* of each port, listed (in port_mappings_), enabled and age (time since
                \* last_refresh for each service, or Never)
  timers,       \* the calls of RefreshPortMappingCallback to come, each with the time left
  told,         \* the latest callback for each port
  events        \* events that came

maps == <<mapping, timers, told>>
vars == <<phase, downloads, root_devices, service, maps, events>>

Never == Lease + 1
Ages == 0 .. Never

IsRegistered == phase \in {"registered", "cancelled"}

-----------------------------------------------------------------------------
(* Services and mappings, as functions of what they were.                  *)

NewService ==
  [cached |-> FALSE, enabled |-> FALSE, status_requested |-> FALSE, asked |-> 0,
   subscription_requested |-> FALSE, subscribed |-> FALSE]

\* RequestServiceStatusInfo.  ok: the action could be sent.
RequestServiceStatusInfo(s, ok) ==
  IF ok /\ IsRegistered THEN [s EXCEPT !.status_requested = TRUE, !.asked = @ + 1] ELSE s

Holds(devices, d) == \E i \in DOMAIN devices : devices[i] = d

\* services_cache_ is built again from the root devices; services that are neither
\* enabled nor asked are asked for their status.
UpdateServicesCache(svc, devices, ask) ==
  [s \in Services |->
     LET cached == [svc[s] EXCEPT !.cached = Holds(devices, Owner[s])]
     IN  IF cached.cached /\ ~cached.enabled /\ ~cached.status_requested
           THEN RequestServiceStatusInfo(cached, ask[s]) ELSE cached]

NewMapping == [listed |-> FALSE, enabled |-> FALSE, age |-> [s \in Services |-> Never]]
ListedMapping == [NewMapping EXCEPT !.listed = TRUE]

\* last_refresh > now - kLeaseDuration + kRefreshThreshold
RecentlyRefreshed(m, s) == m.age[s] < Lease - Threshold

\* Faulty variant of Scheduled: the refresh comes when the lease ends.
LateScheduled(p, s) == [port |-> p, service |-> s, left |-> Lease]

\* The call that a successful AddPortMappingToService schedules.
Scheduled(p, s) == [port |-> p, service |-> s, left |-> Lease - Threshold]

\* The mapping m is added to the services S, one after the other: those of them that are
\* asked, and that do it.  ok[p, s]: an action for port p on service s succeeds.
Asked(m, S) == {s \in S : ~RecentlyRefreshed(m, s)}
Fresh(m, p, S, ok) == {s \in Asked(m, S) : ok[p, s]}

AddPortMappingToService(m, p, S, ok) ==
  [m EXCEPT !.enabled = @ \/ Fresh(m, p, S, ok) # {},
            !.age = [s \in Services |-> IF s \in Fresh(m, p, S, ok) THEN 0 ELSE m.age[s]]]

\* The latest callback: OnNewMapping or OnFailedMapping, for a mapping that is not enabled.
\* (It is enabled by the first service that does it.)
ToldWhenAdded(m, p, S, ok) ==
  IF m.enabled \/ Asked(m, S) = {} THEN told[p]
  ELSE IF Fresh(m, p, S, ok) # {} THEN "new" ELSE "failed"

ScheduledWhenAdded(m, p, S, ok) == {Scheduled(p, s) : s \in Fresh(m, p, S, ok)}

Active(svc) == {s \in Services : svc[s].cached /\ svc[s].enabled}

\* No service has the mapping.
IsLost(m, p, S, ok) == \A s \in S : ~RecentlyRefreshed(AddPortMappingToService(m, p, S, ok), s)

\* The mappings ms are added to the services svc, and those that no service has are lost;
\* calls are the calls to come.
UpdatePortMappings(ms, calls, svc, ok) ==
  LET S == Active(svc)
      Updated == {p \in Ports : IsRegistered /\ ms[p].listed}
  IN  /\ mapping' = [p \in Ports |->
           IF p \notin Updated THEN ms[p]
           ELSE IF IsLost(ms[p], p, S, ok) THEN ListedMapping
           ELSE AddPortMappingToService(ms[p], p, S, ok)]
      /\ told' = [p \in Ports |->
           IF p \notin Updated THEN told[p]
           ELSE IF IsLost(ms[p], p, S, ok) /\ ms[p].enabled THEN "lost"
           ELSE ToldWhenAdded(ms[p], p, S, ok)]
      /\ timers' = calls \cup UNION {ScheduledWhenAdded(ms[p], p, S, ok) : p \in Updated}

\* Which actions on which services succeed, and which status requests can be sent.
Outcomes == [Ports \X Services -> BOOLEAN]
Requests == [Services -> BOOLEAN]

-----------------------------------------------------------------------------
(* The application.                                                        *)

\* ok: libupnp accepts the client.
Register(ok) == phase' = IF ok THEN "registered" ELSE "initialised"

UnRegister == phase' = "unregistered"

\* initialised: Init succeeds, which it never does a second time.  DiscoverDevices
\* makes libupnp search.
InitControlPoint(initialised, registered) ==
  /\ phase = "none"
  /\ IF initialised THEN Register(registered) ELSE UNCHANGED phase
  /\ UNCHANGED <<downloads, root_devices, service, maps, events>>

AddPortMapping(p, ok) ==
  /\ phase \in {"none", "initialised", "registered"}
  /\ ~mapping[p].listed
  /\ UpdatePortMappings([mapping EXCEPT ![p] = ListedMapping], timers, service, ok)
  /\ UNCHANGED <<phase, downloads, root_devices, service, events>>

\* DeletePortMappingFromService is called for the services and its result ignored.
DeletePortMapping(p) ==
  /\ phase \in {"none", "initialised", "registered"}
  /\ mapping[p].listed
  /\ mapping' = [mapping EXCEPT ![p] = NewMapping] /\ told' = [told EXCEPT ![p] = "none"]
  /\ UNCHANGED <<phase, downloads, root_devices, service, timers, events>>

\* ~UpnpIgdClientImpl, in the three sections that it locks.
Cancel ==
  /\ phase \in {"none", "initialised", "registered"}
  /\ phase' = IF phase = "registered" THEN "cancelled" ELSE "unregistered"
  /\ timers' = {}
  /\ UNCHANGED <<downloads, root_devices, service, mapping, told, events>>

DeleteAllPortMappings ==
  /\ phase = "cancelled"
  /\ UnRegister
  /\ mapping' = [p \in Ports |-> NewMapping] /\ told' = [p \in Ports |-> "none"]
  /\ UNCHANGED <<downloads, root_devices, service, timers, events>>

Finish ==
  /\ phase = "unregistered"
  /\ phase' = "finished"
  /\ root_devices' = <<>>
  /\ UNCHANGED <<downloads, service, maps, events>>

-----------------------------------------------------------------------------
(* Discovery.                                                              *)

\* A device as events name it: RootDeviceExists compares that with the name in
\* lower case and the base location that the description gave.
RootDeviceExists(d) == d \in Plain /\ Holds(root_devices, d)

\* ProcessDiscoveryEvent up to the download, for an advertisement or a result.
Alive(d) ==
  /\ IsRegistered
  /\ events < MaxEvents
  /\ events' = events + 1
  /\ downloads' = IF RootDeviceExists(d) THEN downloads ELSE [downloads EXCEPT ![d] = @ + 1]
  /\ UNCHANGED <<phase, root_devices, service, maps>>

\* Faulty variant of AddRootDevice: it trusts the test before the download.
WrongAddRootDevice(d, ok) ==
  /\ root_devices' = Append(root_devices, d)
  /\ service' = UpdateServicesCache([s \in Services |-> IF Owner[s] = d THEN NewService
                                                                       ELSE service[s]],
                                    root_devices', ok)

\* The device may have been added during the download.
AddRootDevice(d, ok) ==
  IF Holds(root_devices, d) THEN UNCHANGED <<root_devices, service>>
  ELSE /\ root_devices' = Append(root_devices, d)
       /\ service' = UpdateServicesCache([s \in Services |->
                        IF Owner[s] = d THEN [NewService EXCEPT !.asked = service[s].asked]
                                        ELSE service[s]],
                        root_devices', ok)

\* The rest of ProcessDiscoveryEvent, with no second look at is_registered_.
\* got: a description of a gateway came.
Described(d, got, ok) ==
  /\ downloads[d] > 0
  /\ phase # "finished"
  /\ downloads' = [downloads EXCEPT ![d] = @ - 1]
  /\ IF got THEN AddRootDevice(d, ok) ELSE UNCHANGED <<root_devices, service>>
  /\ UNCHANGED <<phase, maps, events>>

Erased(devices, i) ==
  [j \in 1 .. Len(devices) - 1 |-> IF j < i THEN devices[j] ELSE devices[j + 1]]

\* ask: the status requests that can be sent; ok: the actions that succeed.
DeleteRootDevice(d, ask, ok) ==
  IF ~RootDeviceExists(d) THEN UNCHANGED <<root_devices, service, maps>>
  ELSE /\ \E i \in DOMAIN root_devices : root_devices[i] = d /\ root_devices' = Erased(root_devices, i)
       /\ service' = UpdateServicesCache(service, root_devices', ask)
       /\ UpdatePortMappings(mapping, timers, service', ok)

Byebye(d, ask, ok) ==
  /\ IsRegistered
  /\ events < MaxEvents
  /\ events' = events + 1
  /\ DeleteRootDevice(d, ask, ok)
  /\ UNCHANGED <<phase, downloads>>

-----------------------------------------------------------------------------
(* The other events, which name a service by one of its URLs or by its     *)
(* subscription.                                                           *)

GetCachedService(s) == service[s].cached

\* ProcessActionEvent for GetStatusInfo.  An error leaves status_requested set.
StatusReply(s, result, subscribe, ok) ==
  LET heard == [service[s] EXCEPT !.asked = @ - 1]
      up    == [heard EXCEPT !.status_requested = FALSE, !.enabled = TRUE,
                             !.subscription_requested = @ \/ subscribe,
                             !.subscribed = @ /\ ~subscribe]
  IN  /\ service[s].asked > 0
      /\ IF IsRegistered /\ GetCachedService(s) /\ result = "connected"
           THEN /\ service' = [service EXCEPT ![s] = up]
                /\ UpdatePortMappings(mapping, timers, service', ok)
           ELSE /\ service' = [service EXCEPT ![s] =
                     IF IsRegistered /\ GetCachedService(s) /\ result = "other"
                       THEN [heard EXCEPT !.status_requested = FALSE] ELSE heard]
                /\ UNCHANGED maps
      /\ UNCHANGED <<phase, downloads, root_devices, events>>

\* ProcessChangeEvent: the connection status of a service that is subscribed to.
ProcessChangeEvent(s, connected, ok) ==
  /\ IsRegistered
  /\ events < MaxEvents
  /\ events' = events + 1
  /\ GetCachedService(s) /\ service[s].subscribed
  /\ service' = [service EXCEPT ![s] = [service[s] EXCEPT !.enabled = connected]]
  /\ IF service[s].enabled # connected THEN UpdatePortMappings(mapping, timers, service', ok)
                                       ELSE UNCHANGED maps
  /\ UNCHANGED <<phase, downloads, root_devices>>

\* ProcessSubscriptionEvent: a subscription was granted.  No other answer changes
\* anything, as nothing is unsubscribed or renewed by hand.
ProcessSubscriptionEvent(s) ==
  /\ IsRegistered
  /\ GetCachedService(s) /\ service[s].subscription_requested
  /\ service' = [service EXCEPT ![s] =
                    [service[s] EXCEPT !.subscription_requested = FALSE, !.subscribed = TRUE]]
  /\ UNCHANGED <<phase, downloads, root_devices, maps, events>>

\* t: the call whose time has come, for a mapping that may be gone, of a service that may
\* be gone or disabled.
RefreshPortMappingCallback(t, ok) ==
  LET p == t.port
      m == mapping[p]
      IsThere == IsRegistered /\ m.listed
  IN  /\ t \in timers
      /\ t.left <= 0
      /\ \/ /\ ~IsThere \/ (GetCachedService(t.service) /\ ~service[t.service].enabled)
            /\ timers' = timers \ {t} /\ UNCHANGED <<mapping, told>>
         \/ /\ IsThere /\ ~GetCachedService(t.service)
            /\ UpdatePortMappings(mapping, timers \ {t}, service, ok)
         \/ /\ IsThere /\ GetCachedService(t.service) /\ service[t.service].enabled
            /\ mapping' = [mapping EXCEPT ![p] = AddPortMappingToService(m, p, {t.service}, ok)]
            /\ told' = [told EXCEPT ![p] = ToldWhenAdded(m, p, {t.service}, ok)]
            /\ timers' = (timers \ {t}) \cup ScheduledWhenAdded(m, p, {t.service}, ok)
      /\ UNCHANGED <<phase, downloads, root_devices, service, events>>

Older(age) == IF age \in {Lease, Never} THEN age ELSE age + 1

\* Time passes.  A call is less than Threshold late.
Tick ==
  /\ \A t \in timers : t.left > 1 - Threshold
  /\ mapping' = [p \in Ports |->
       [mapping[p] EXCEPT !.age = [s \in Services |-> Older(mapping[p].age[s])]]]
  /\ timers' = {[t EXCEPT !.left = @ - 1] : t \in timers}
  /\ UNCHANGED <<phase, downloads, root_devices, service, told, events>>

-----------------------------------------------------------------------------
Init ==
  /\ phase = "none"
  /\ downloads = [d \in Devices |-> 0]
  /\ root_devices = <<>>
  /\ service = [s \in Services |-> NewService]
  /\ mapping = [p \in Ports |-> NewMapping] /\ timers = {} /\ told = [p \in Ports |-> "none"]
  /\ events = 0

EventCallback(ask, ok) ==
  \/ \E d \in Devices :
       Alive(d) \/ (\E got \in BOOLEAN : Described(d, got, ask)) \/ Byebye(d, ask, ok)
  \/ \E s \in Services :
       \/ \E result \in {"error", "connected", "other"}, subscribe \in BOOLEAN :
            StatusReply(s, result, subscribe, ok)
       \/ \E connected \in BOOLEAN : ProcessChangeEvent(s, connected, ok)
       \/ ProcessSubscriptionEvent(s)

Next ==
  \/ \E initialised, registered \in BOOLEAN : InitControlPoint(initialised, registered)
  \/ \E p \in Ports : DeletePortMapping(p) \/ \E ok \in Outcomes : AddPortMapping(p, ok)
  \/ Cancel \/ DeleteAllPortMappings \/ Finish
  \/ \E ask \in Requests, ok \in Outcomes : EventCallback(ask, ok)
  \/ \E t \in timers, ok \in Outcomes : RefreshPortMappingCallback(t, ok)
  \/ Tick

Spec == Init /\ [][Next]_vars

-----------------------------------------------------------------------------
(* Properties.                                                             *)

\* Type invariant.
TypeOK ==
  /\ phase \in {"none", "initialised", "registered", "cancelled", "unregistered", "finished"}
  /\ downloads \in [Devices -> Nat]
  /\ root_devices \in Seq(Devices)
  /\ service \in [Services -> [cached : BOOLEAN, enabled : BOOLEAN, status_requested : BOOLEAN,
                             asked : Nat, subscription_requested : BOOLEAN, subscribed : BOOLEAN]]
  /\ mapping \in [Ports -> [listed : BOOLEAN, enabled : BOOLEAN, age : [Services -> Ages]]]
  /\ timers \subseteq [port : Ports, service : Services, left : -Threshold .. Lease - Threshold]
  /\ told \in [Ports -> {"none", "new", "lost", "failed"}]

\* "adds a unique root device to the internal list": a device that is advertised
\* twice while its description is downloaded is not listed twice.
RootDevicesUnique ==
  \A i, j \in DOMAIN root_devices : root_devices[i] = root_devices[j] => i = j

\* services_cache_ holds the services of the listed devices and no others, so
\* that a service in it has a valid parent_root_device.
CacheIsCurrent ==
  phase # "finished" =>
    \A s \in Services : service[s].cached <=> Holds(root_devices, Owner[s])

\* What the application was told last agrees with the mapping: it is enabled
\* exactly after OnNewMapping, until OnLostMapping.
ToldTheTruth ==
  \A p \in Ports : mapping[p].enabled <=> told[p] = "new"

\* A disabled mapping is not counted as recently refreshed on any service, which
\* would keep it from being added to that service again.
DisabledIsNotFresh ==
  \A p \in Ports : ~mapping[p].enabled => \A s \in Services : mapping[p].age[s] = Never

\* "refresh mapping, this will reschedule this callback": as long as a mapping
\* counts as recently refreshed on a service, the call that will refresh it is
\* due at the moment when it no longer does.
RefreshIsDue ==
  phase = "registered" =>
    \A p \in Ports, s \in Services :
      RecentlyRefreshed(mapping[p], s) =>
        [port |-> p, service |-> s, left |-> Lease - Threshold - mapping[p].age[s]] \in timers

\* A mapping that counts as recently refreshed is enabled, and
\* RefreshPortMappingCallback is due by the time that it no longer counts as such.
RefreshIsScheduled == DisabledIsNotFresh /\ RefreshIsDue

\* "Don't download device description if known device", of the devices that
\* RootDeviceExists can recognise.
KnownIsNotDownloaded ==
  [][\A d \in Plain : Holds(root_devices, d) => downloads'[d] <= downloads[d]]_vars

\* A device that is advertised twice while its description is downloaded is listed
\* once (AddRootDevice), services_cache_ holds the services of the listed devices
\* and no others, and the application has been told of a mapping by OnNewMapping
\* and not by OnLostMapping exactly while it is enabled.  The description of a
\* listed device is not downloaded again (ProcessDiscoveryEvent).
ListsAgree ==
  /\ [](TypeOK /\ RootDevicesUnique /\ CacheIsCurrent /\ ToldTheTruth)
  /\ KnownIsNotDownloaded
=============================================================================
