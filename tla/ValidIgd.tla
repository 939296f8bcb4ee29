------------------------------- MODULE ValidIgd -----------------------------
(***************************************************************************)
(* UPNP_GetValidIGD of miniupnpc: three passes over the devices that were  *)
(* found, for a connected gateway, any gateway and any device.  Each       *)
(* description and each status is fetched anew, and may be lost.           *)
(***************************************************************************)
EXTENDS Integers, Sequences

CONSTANTS
  Found,     \* the devices that were found
  Igd,       \* the devices whose description has WANCommonInterfaceConfig
  MaxList    \* bound: entries of devlist; a device may be listed twice

None == "none"

ASSUME ValidAssumption == Igd \subseteq Found /\ None \notin Found /\ MaxList \in Nat

VARIABLES
  valid_list,  \* devlist
  state,       \* the pass
  dev,         \* the position in devlist
  valid_pc,    \* "download", "status", "done"
  data,        \* whose description data holds
  valid_urls,  \* whose URLs urls holds
  allocated,   \* history: the sets of URLs that are allocated
  result,
  said         \* history: what each device said of its connection in this call

validVars == <<valid_list, state, dev, valid_pc, data, valid_urls, allocated, result, said>>

ValidInit ==
  /\ valid_list \in UNION {[1 .. n -> Found] : n \in 0 .. MaxList}
  /\ state = 1 /\ dev = 1 /\ data = None /\ valid_urls = None /\ allocated = 0 /\ result = 0
  /\ valid_pc = IF valid_list = <<>> THEN "done" ELSE "download"
  /\ said = [d \in Found |-> {}]

\* The next device, or the next pass, or the end of the loops.
Continue ==
  /\ IF dev < Len(valid_list) THEN dev' = dev + 1 /\ UNCHANGED <<state, valid_pc>>
     ELSE IF state < 3 THEN dev' = 1 /\ state' = state + 1 /\ UNCHANGED valid_pc
     ELSE valid_pc' = "done" /\ UNCHANGED <<state, dev>>
  /\ UNCHANGED result

\* miniwget_getaddr returns NULL.
DownloadFails ==
  /\ valid_pc = "download" /\ Continue
  /\ UNCHANGED <<valid_list, data, valid_urls, allocated, said>>

\* The description was parsed: no gateway.
NotRecognized ==
  /\ valid_pc = "download" /\ valid_list[dev] \notin Igd /\ state < 3
  /\ data' = None /\ valid_urls' = None /\ Continue
  /\ UNCHANGED <<valid_list, allocated, said>>

\* GetUPNPUrls allocates the URLs; in the second and third pass that is enough.
Recognized ==
  /\ valid_pc = "download" /\ (valid_list[dev] \in Igd \/ state >= 3)
  /\ data' = valid_list[dev] /\ valid_urls' = valid_list[dev] /\ allocated' = allocated + 1
  /\ IF state >= 2 THEN valid_pc' = "done" /\ result' = state ELSE valid_pc' = "status" /\ UNCHANGED result
  /\ UNCHANGED <<valid_list, state, dev, said>>

FreeUPNPUrls == valid_urls' = None /\ allocated' = allocated - 1

\* Faulty variant of IsConnected: any answer will do.
WrongIsConnected(status) == status # "none"

\* UPNPIGD_IsConnected, of the status that UPNP_GetStatusInfo found ("none" when the
\* call failed).
IsConnected(status) == status = "Connected"

Status ==
  /\ valid_pc = "status"
  /\ \E status \in {"Connected", "Disconnected", "none"} :
       /\ said' = [said EXCEPT ![valid_list[dev]] = @ \cup {status}]
       /\ IF IsConnected(status)
          THEN valid_pc' = "done" /\ result' = 1 /\ UNCHANGED <<state, dev, data, valid_urls, allocated>>
          ELSE /\ FreeUPNPUrls /\ data' = None
               /\ IF dev < Len(valid_list) THEN dev' = dev + 1 /\ UNCHANGED state
                  ELSE dev' = 1 /\ state' = state + 1
               /\ valid_pc' = "download" /\ UNCHANGED result
  /\ UNCHANGED valid_list

ValidNext == DownloadFails \/ NotRecognized \/ Recognized \/ Status

ValidSpec == ValidInit /\ [][ValidNext]_validVars

-----------------------------------------------------------------------------
(* Properties.                                                             *)

\* Type invariant.
ValidTypeOK ==
  /\ state \in 1 .. 3 /\ result \in 0 .. 3 /\ allocated \in 0 .. 1
  /\ valid_pc \in {"download", "status", "done"}
  /\ {data, valid_urls} \subseteq Found \cup {None}
  /\ valid_pc # "done" => dev \in DOMAIN valid_list

\* "1 = A valid connected IGD has been found", "2 = A valid IGD has been found but it
\* reported as not connected": the gateway that is returned with 1 said so in this
\* call, and 2 is returned only when no gateway did.
ConnectedIsPreferred ==
  /\ result = 1 => data \in Igd /\ "Connected" \in said[data]
  /\ result = 2 => data \in Igd /\ \A d \in Found : "Connected" \notin said[d]

\* "In any non zero return case, the urls and data structures passed as parameters are
\* set", both of one device; and in the other case no URLs are left allocated.
SetWhenFound ==
  valid_pc = "done" => /\ result # 0 => data = valid_urls /\ data # None /\ allocated = 1
                       /\ result = 0 => allocated = 0

\* UPNP_GetValidIGD prefers a gateway that said it is connected, sets the URLs and the
\* data of one device, and leaks none.
ConnectedFirst == ValidTypeOK /\ ConnectedIsPreferred /\ SetWhenFound
=============================================================================
