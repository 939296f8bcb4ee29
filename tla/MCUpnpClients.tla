---------------------------- MODULE MCUpnpClients ---------------------------
(***************************************************************************)
(* The two UPnP clients and the commands of miniupnpc, for TLC.  A         *)
(* behaviour is one of: the client on libupnp with two gateways, the       *)
(* client on miniupnpc with two mappings, one call of one command.  The    *)
(* parts that a behaviour does not use stay as they start.                 *)
(***************************************************************************)
EXTENDS UpnpIgdClient, MiniUpnpClient

VARIABLES
  scenario,
  command, params, answer, list, sent, reply

request == <<command, params, answer, list, sent, reply>>
all == <<scenario, vars, miniVars, request>>

\* Two gateways with a service each; the events of one cannot be told to be its own.
OwnerOf == [s1 |-> "d1", s2 |-> "d2"]

Request == INSTANCE UpnpCommandCalls WITH
  Commands <- {"GetTotalBytesSent", "GetTotalBytesReceived", "GetTotalPacketsSent",
    "GetTotalPacketsReceived", "GetStatusInfo", "GetConnectionTypeInfo",
    "GetLinkLayerMaxBitRates", "GetExternalIPAddress", "AddPortMapping", "DeletePortMapping",
    "GetGenericPortMappingEntry", "GetPortMappingNumberOfEntries", "GetSpecificPortMappingEntry"}

-----------------------------------------------------------------------------
MCInit ==
  /\ scenario \in {"libupnp", "miniupnpc", "command"}
  /\ Init
  /\ IF scenario = "miniupnpc" THEN TRUE ELSE up = FALSE /\ table = [tcp |-> "free", udp |-> "free"]
  /\ MiniInit
  /\ IF scenario = "command" THEN TRUE ELSE command = "AddPortMapping"
  /\ Request!Init

MCNext ==
  /\ \/ scenario = "libupnp" /\ Next /\ UNCHANGED <<miniVars, request>>
     \/ scenario = "miniupnpc" /\ MiniNext /\ UNCHANGED <<vars, request>>
     \/ scenario = "command" /\ Request!Next /\ UNCHANGED <<vars, miniVars>>
  /\ UNCHANGED scenario

MCSpec == MCInit /\ [][MCNext]_all

-----------------------------------------------------------------------------
(* Properties.  ListsAgree and RefreshIsScheduled are of UpnpIgdClient,    *)
(* NothingLeftBehind is of MiniUpnpClient.                                  *)

\* A command that received a refusal returns an error; one whose request was sent and that
\* succeeds has given the gateway's values to the outputs that it vouches for, but for
\* numbers that are none; and a short reply leaves nothing old in the outputs of four of
\* the commands.
SuccessIsAnswer ==
  Request!TypeOK /\ Request!RefusalIsError /\ Request!SuccessIsAnswer /\ Request!NothingOld
=============================================================================
