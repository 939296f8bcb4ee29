---------------------------- MODULE MiniUpnpClient --------------------------
(***************************************************************************)
(* The UPnP client that the library builds: mini_upnp_client_impl.cc, on   *)
(* the commands of miniupnpc.  The application adds and deletes mappings   *)
(* and reads the external address; the gateway loses its power and its     *)
(* connection, other hosts map ports, and requests and replies are lost.   *)
(***************************************************************************)
EXTENDS UpnpCommands

CONSTANTS
  Mappings,    \* the ports and protocols that the application maps
  Faults,      \* "request", "reply" (lost), "501" (the gateway refuses), "reboot"
  MaxCalls     \* bound: commands

VARIABLES
  is_initialised_, has_services_, port_mappings_,
  up,          \* the gateway is running and connected
  table,       \* [Mappings -> {"free", "own", "other"}]: the mappings of the gateway
  calls,       \* history: the number of commands
  returned,    \* history: the last call of the application, and its result
  lost,        \* history: something was lost, refused or forgotten
  left         \* history: a renewal was refused, or a request to delete did not arrive

client == <<is_initialised_, has_services_, port_mappings_>>
miniVars == <<client, up, table, calls, returned, lost, left>>

PortMapping == [mapping : Mappings, enabled : BOOLEAN]

Call(name, mapping, result) == [call |-> name, mapping |-> mapping, result |-> result]
NoCall == Call("none", "none", TRUE)

Refuse(code) == <<[name |-> "errorCode", value |-> code]>>
Done == <<[name |-> "Response", value |-> ""]>>
Address(ip) == <<[name |-> "NewExternalIPAddress", value |-> ip]>>

\* What the gateway does with a request: the possible tables and replies.
AddAtGateway(t, m) ==
  (IF t[m] = "other" THEN {[table |-> t, list |-> Refuse("718")]}
   ELSE {[table |-> [t EXCEPT ![m] = "own"], list |-> Done]})
  \cup (IF "501" \in Faults THEN {[table |-> t, list |-> Refuse("501")]} ELSE {})
DeleteAtGateway(t, m) ==
  IF t[m] = "free" THEN {[table |-> t, list |-> Refuse("714")]}
  ELSE {[table |-> [t EXCEPT ![m] = "free"], list |-> Done]}

\* What a command parses when it received no reply: nothing or, after a send that failed,
\* the reply to an earlier command, whose bytes are still on the stack.
Leftover == {<<>>, Refuse("501"), Address("old")}

\* An exchange with the gateway: what it becomes and what the command parses.
Exchange(t, effects) ==
  (IF up THEN effects ELSE {[table |-> t, list |-> <<>>]})
  \cup (IF "request" \in Faults THEN {[table |-> t, list |-> l] : l \in Leftover} ELSE {})
  \cup (IF up /\ "reply" \in Faults THEN {[e EXCEPT !.list = <<>>] : e \in effects} ELSE {})

LostExchange(e) == e.list \in Leftover

-----------------------------------------------------------------------------
MiniInit ==
  /\ is_initialised_ = FALSE /\ has_services_ = FALSE /\ port_mappings_ = <<>>
  /\ up \in BOOLEAN /\ table \in [Mappings -> {"free", "other"}]
  /\ calls = 0 /\ returned = NoCall /\ lost = FALSE /\ left = FALSE

\* DiscoverDevices: UPNP_GetValidIGD returns 1 for a gateway that says it is connected.
DiscoverDevices == has_services_' \in {FALSE, up}

MiniInitControlPoint ==
  IF is_initialised_
  THEN /\ returned' = Call("InitControlPoint", "none", FALSE)
       /\ UNCHANGED <<client, up, table, calls, lost, left>>
  ELSE /\ DiscoverDevices /\ is_initialised_' = TRUE
       /\ returned' = Call("InitControlPoint", "none", TRUE)
       /\ UNCHANGED <<port_mappings_, up, table, calls, lost, left>>

\* The positions of the mapping, at most one.
PortMappingExists(m) == {i \in DOMAIN port_mappings_ : port_mappings_[i].mapping = m}

\* The list with the mapping in it.
Known(m) == IF PortMappingExists(m) # {} THEN port_mappings_
            ELSE Append(port_mappings_, [mapping |-> m, enabled |-> FALSE])

\* Faulty variant of Enable: the result is not looked at.
WrongEnable(maps, m, res) ==
  [i \in DOMAIN maps |-> IF maps[i].mapping = m THEN [maps[i] EXCEPT !.enabled = TRUE] ELSE maps[i]]

Enable(maps, m, res) ==
  [i \in DOMAIN maps |-> IF maps[i].mapping = m
                         THEN [maps[i] EXCEPT !.enabled = (res = Success)] ELSE maps[i]]

MiniAddPortMapping(m) ==
  /\ calls < MaxCalls
  /\ IF ~has_services_
     THEN /\ port_mappings_' = Known(m)
          /\ returned' = Call("AddPortMapping", m, FALSE)
          /\ UNCHANGED <<table, calls, lost, left>>
     ELSE \E e \in Exchange(table, AddAtGateway(table, m)) :
          \E res \in {UPNP_AddPortMapping(e.list).ret} :
            /\ port_mappings_' = Enable(Known(m), m, res)
            /\ table' = e.table /\ calls' = calls + 1
            /\ returned' = Call("AddPortMapping", m, res = Success)
            /\ lost' = (lost \/ LostExchange(e))
            /\ left' = (left \/ (table[m] = "own" /\ Has(e.list, "errorCode")))
  /\ UNCHANGED <<is_initialised_, has_services_, up>>

\* The list after its erase of the mapping.
Erase(maps, m) ==
  LET it_pm == CHOOSE i \in DOMAIN maps : maps[i].mapping = m
  IN  [i \in 1..(Len(maps) - 1) |-> maps[IF i < it_pm THEN i ELSE i + 1]]

\* The mapping is listed and enabled.
IsEnabled(maps, m) == \E i \in DOMAIN maps : maps[i].mapping = m /\ maps[i].enabled

\* DeletePortMapping, from the list maps and the gateway's table: what may come of it.
Deleted(maps, t, m) ==
  IF IsEnabled(maps, m)
  THEN {[maps |-> Erase(maps, m), table |-> e.table, lost |-> LostExchange(e),
         left |-> e.table[m] = "own",
         ok |-> UPNP_DeletePortMapping(e.list).ret = Success] :
         e \in Exchange(t, DeleteAtGateway(t, m))}
  ELSE {[maps |-> Erase(maps, m), table |-> t, lost |-> FALSE, left |-> FALSE, ok |-> TRUE]}

MiniDeletePortMapping(m) ==
  /\ calls < MaxCalls
  /\ IF PortMappingExists(m) = {}
     THEN /\ returned' = Call("DeletePortMapping", m, FALSE)
          /\ UNCHANGED <<client, table, calls, lost, left>>
     ELSE /\ \E d \in Deleted(port_mappings_, table, m) :
               /\ port_mappings_' = d.maps /\ table' = d.table
               /\ lost' = (lost \/ d.lost) /\ left' = (left \/ d.left)
               /\ returned' = Call("DeletePortMapping", m, d.ok)
          /\ calls' = calls + 1
          /\ UNCHANGED <<is_initialised_, has_services_>>
  /\ UNCHANGED up

\* The destructor: DeleteAllPortMappings, one mapping after the other.
Destroy ==
  /\ port_mappings_ # <<>>
  /\ \E d \in Deleted(port_mappings_, table, Head(port_mappings_).mapping) :
       /\ port_mappings_' = d.maps /\ table' = d.table
       /\ lost' = (lost \/ d.lost) /\ left' = (left \/ d.left)
  /\ returned' = Call("Destroy", "none", TRUE)
  /\ calls' = MaxCalls
  /\ UNCHANGED <<is_initialised_, has_services_, up>>

GetExternalIpAddress ==
  /\ calls < MaxCalls /\ has_services_
  /\ \E e \in Exchange(table, {[table |-> table, list |-> Address("ip")]}) :
     \E r \in {UPNP_GetExternalIPAddress(e.list, {"extIpAdd"}, [extIpAdd |-> ""])} :
       returned' = Call("GetExternalIpAddress", IF r.ret = Success THEN r.out.extIpAdd ELSE "",
                        r.ret = Success)
  /\ calls' = calls + 1
  /\ UNCHANGED <<client, up, table, lost, left>>

-----------------------------------------------------------------------------
(* The gateway and the other hosts.                                        *)

PowerUp == ~up /\ up' = TRUE /\ UNCHANGED <<client, table, calls, returned, lost, left>>

\* It forgets its mappings.
Reboot ==
  /\ up /\ "reboot" \in Faults
  /\ up' = FALSE /\ table' = [m \in Mappings |-> "free"] /\ lost' = TRUE
  /\ UNCHANGED <<client, calls, returned, left>>

OtherMaps(m) ==
  /\ up /\ table[m] \in {"free", "other"}
  /\ table' = [table EXCEPT ![m] = IF @ = "free" THEN "other" ELSE "free"]
  /\ UNCHANGED <<client, up, calls, returned, lost, left>>

MiniNext ==
  \/ MiniInitControlPoint \/ GetExternalIpAddress \/ Destroy \/ PowerUp \/ Reboot
  \/ \E m \in Mappings : MiniAddPortMapping(m) \/ MiniDeletePortMapping(m) \/ OtherMaps(m)

MiniSpec == MiniInit /\ [][MiniNext]_miniVars

-----------------------------------------------------------------------------
(* Properties.                                                             *)

\* Type invariant; a mapping is listed once.
MiniTypeOK ==
  /\ {is_initialised_, has_services_, up, lost, left} \subseteq BOOLEAN
  /\ port_mappings_ \in Seq(PortMapping)
  /\ \A i, j \in DOMAIN port_mappings_ : port_mappings_[i].mapping = port_mappings_[j].mapping => i = j
  /\ table \in [Mappings -> {"free", "own", "other"}]

\* As long as nothing was lost, the gateway has for the client exactly the mappings
\* that are enabled in the list.
ListIsExact == ~lost => \A m \in Mappings : table[m] = "own" <=> IsEnabled(port_mappings_, m)

\* Whatever was lost and forgotten, and whatever old reply a command took for its own, the
\* gateway has no mapping for the client that the destructor would not delete: a command
\* that receives nothing counts as done, so AddPortMapping enables what may have been
\* mapped.  Only a renewal that is refused, and a request to delete that does not arrive,
\* leave a mapping behind.
ListCovers == ~left => \A m \in Mappings : table[m] = "own" => IsEnabled(port_mappings_, m)

\* A call that ends with success while nothing was ever lost has had its effect: the
\* gateway has the mapping of AddPortMapping when it returns, and no longer that of
\* DeletePortMapping.
EffectIsThere ==
  [][calls' # calls /\ returned'.result /\ ~lost' =>
       /\ returned'.call = "AddPortMapping" => table'[returned'.mapping] = "own"
       /\ returned'.call = "DeletePortMapping" => table'[returned'.mapping] # "own"]_miniVars

\* While nothing was lost, the list of the client agrees with the gateway, and a call of
\* AddPortMapping or DeletePortMapping that succeeds has had its effect; and as long as no
\* renewal is refused and every request to delete arrives, the destructor leaves no mapping
\* behind ("removes all mappings"), whatever else is lost.
NothingLeftBehind == [](MiniTypeOK /\ ListIsExact /\ ListCovers) /\ EffectIsThere
=============================================================================
