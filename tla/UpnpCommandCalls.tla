--------------------------- MODULE UpnpCommandCalls -------------------------
(***************************************************************************)
(* One call of each command of upnpcommands.c: the gateway answers with    *)
(* the fields of the command in some order or with an error, and the       *)
(* client receives a part of that answer (none of it when the connection   *)
(* fails; simpleUPnPcommand takes a silent server for the end).  When the  *)
(* request cannot be sent, the command parses what the stack holds.        *)
(***************************************************************************)
EXTENDS UpnpCommands, FiniteSetsExt

CONSTANTS
  Commands    \* the commands that are called

VARIABLES
  command,
  params,   \* the output parameters that are not NULL
  answer,   \* what the gateway sends
  list,     \* what was received of it, or was there when sending failed
  sent,     \* the request could be sent
  reply     \* what the command returned; ret = 1 before

vars == <<command, params, answer, list, sent, reply>>

\* The output parameters and the fields of a command's answer.
Fields ==
  [GetTotalBytesSent |-> [total |-> "NewTotalBytesSent"],
   GetTotalBytesReceived |-> [total |-> "NewTotalBytesReceived"],
   GetTotalPacketsSent |-> [total |-> "NewTotalPacketsSent"],
   GetTotalPacketsReceived |-> [total |-> "NewTotalPacketsReceived"],
   GetStatusInfo |-> [status |-> "NewConnectionStatus", uptime |-> "NewUptime",
                      lastconnerror |-> "NewLastConnectionError"],
   GetConnectionTypeInfo |-> [connectionType |-> "NewConnectionType"],
   GetLinkLayerMaxBitRates |-> [bitrateDown |-> "NewLayer1DownstreamMaxBitRate",
                                bitrateUp |-> "NewLayer1UpstreamMaxBitRate"],
   GetExternalIPAddress |-> [extIpAdd |-> "NewExternalIPAddress"],
   AddPortMapping |-> <<>>, DeletePortMapping |-> <<>>,
   GetGenericPortMappingEntry |-> GenericFields,
   GetPortMappingNumberOfEntries |-> [numEntries |-> "NewPortMappingNumberOfEntries"],
   GetSpecificPortMappingEntry |-> [intClient |-> "NewInternalClient", intPort |-> "NewInternalPort"]]

Params(c) == DOMAIN Fields[c]
Totals == {"GetTotalBytesSent", "GetTotalBytesReceived", "GetTotalPacketsSent", "GetTotalPacketsReceived"}

\* The text of field f of the answer is f itself, or no number.
Field(f, text) == [name |-> f, value |-> text]
\* Some orders of the fields: those that start with any one of them.
Orders(c) ==
  {FoldSet(LAMBDA q, fields : Append(fields, Field(Fields[c][q], Fields[c][q])),
           <<Field(Fields[c][p], text)>>, Params(c) \ {p}) :
     <<p, text>> \in {<<p, Fields[c][p]>> : p \in Params(c)} \cup (Params(c) \X {NoNumber})}
Refusals == {<<Field("errorCode", v)>> : v \in {"402", "501", NoNumber}}
Answers(c) ==
  (IF Params(c) = {} THEN {<<Field("Response", "")>>} ELSE Orders(c)) \cup Refusals

\* The answers to an earlier call.
Earlier(c) ==
  {[i \in DOMAIN a |-> Field(a[i].name, "earlier")] : a \in Answers(c) \ Refusals} \cup Refusals

Old == [p \in UNION {Params(c) : c \in Commands} |-> "old"]

Call(c, l, ps) ==
  CASE c = "GetTotalBytesSent" -> UPNP_GetTotalBytesSent(l)
    [] c = "GetTotalBytesReceived" -> UPNP_GetTotalBytesReceived(l)
    [] c = "GetTotalPacketsSent" -> UPNP_GetTotalPacketsSent(l)
    [] c = "GetTotalPacketsReceived" -> UPNP_GetTotalPacketsReceived(l)
    [] c = "GetStatusInfo" -> UPNP_GetStatusInfo(l, ps, Old)
    [] c = "GetConnectionTypeInfo" -> UPNP_GetConnectionTypeInfo(l, ps, Old)
    [] c = "GetLinkLayerMaxBitRates" -> UPNP_GetLinkLayerMaxBitRates(l, ps, Old)
    [] c = "GetExternalIPAddress" -> UPNP_GetExternalIPAddress(l, ps, Old)
    [] c = "AddPortMapping" -> UPNP_AddPortMapping(l)
    [] c = "DeletePortMapping" -> UPNP_DeletePortMapping(l)
    [] c = "GetGenericPortMappingEntry" -> UPNP_GetGenericPortMappingEntry(l, ps, Old)
    [] c = "GetPortMappingNumberOfEntries" -> UPNP_GetPortMappingNumberOfEntries(l, ps, Old)
    [] c = "GetSpecificPortMappingEntry" -> UPNP_GetSpecificPortMappingEntry(l, ps, Old)

Init ==
  /\ command \in Commands /\ params \in SUBSET Params(command)
  /\ answer = <<>> /\ list = <<>> /\ sent = TRUE /\ reply = [ret |-> 1, out |-> NoOutput]

\* parseURL or the send fails: the size stays that of the buffer, which is not initialised.
Unsent ==
  /\ answer = <<>> /\ sent /\ reply.ret = 1
  /\ sent' = FALSE /\ list' \in {<<>>} \cup Earlier(command)
  /\ UNCHANGED <<command, params, answer, reply>>

\* The gateway answers.
Answer ==
  /\ answer = <<>> /\ sent /\ reply.ret = 1 /\ answer' \in Answers(command)
  /\ UNCHANGED <<command, params, list, sent, reply>>

\* A field of the answer is received.
Receive ==
  /\ Len(list) < Len(answer) /\ reply.ret = 1 /\ list' = SubSeq(answer, 1, Len(list) + 1)
  /\ UNCHANGED <<command, params, answer, sent, reply>>

\* The command has read the reply, or given up.
Return ==
  /\ reply.ret = 1 /\ reply' = Call(command, list, params)
  /\ UNCHANGED <<command, params, answer, list, sent>>

Next == Unsent \/ Answer \/ Receive \/ Return

Spec == Init /\ [][Next]_vars

-----------------------------------------------------------------------------
(* Properties.                                                             *)

\* "Return values: UPNPCOMMAND_SUCCESS, UPNPCOMMAND_INVALID_ARGS,
\* UPNPCOMMAND_UNKNOWN_ERROR or a UPnP Error code"; and only parameters that were
\* given are written, but the two that are not optional.
TypeOK == /\ reply.ret \in {1, Success, UnknownError, InvalidArgs, 402, 501}
          /\ DOMAIN reply.out \subseteq params \cup {"total", "intClient", "intPort"}

\* "NON ZERO : ERROR. Either an UPnP error code or an unknown error": a gateway's
\* refusal that was received is never a success; the commands for totals have no
\* result to tell it by.
RefusalIsError == reply.ret = Success /\ command \notin Totals => ~Has(list, "errorCode")

\* The outputs that a success vouches for.
Vouched ==
  CASE command = "GetStatusInfo" -> {"status", "uptime"}
    [] command = "GetSpecificPortMappingEntry" -> {"intClient"}
    [] command \in Totals \cup {"GetGenericPortMappingEntry"} -> {}
    [] OTHER -> Params(command)

\* The numbers that stay as they were when their text is no number.
Kept == {"uptime", "bitrateDown", "bitrateUp"}

\* The text that the gateway sent for a parameter.
Told(p) == Text(answer, Fields[command][p], "missing")

\* A success of a command whose request was sent means that these outputs are what the
\* gateway sent, however short the reply and in whatever order; GetGenericPortMappingEntry
\* has at least the external port or the internal client.  A number that the gateway did
\* not write as one is an exception: the rates and the uptime stay as they were, and the
\* number of entries is 0, with a success all the same.
SuccessIsAnswer ==
  reply.ret = Success /\ sent =>
    /\ \A p \in params \cap Vouched :
         \/ reply.out[p] = Told(p)
         \/ Told(p) = NoNumber /\ reply.out[p] = IF p \in Kept THEN Old[p] ELSE "0"
    /\ command = "GetGenericPortMappingEntry" =>
         \E p \in DOMAIN reply.out \cap {"extPort", "intClient"} : reply.out[p] = Told(p)

\* These commands leave nothing of what the outputs held before, so that a caller that
\* ignores the code reads an empty text or 0; but for the rates that are no numbers.
NothingOld ==
  command \in {"GetConnectionTypeInfo", "GetLinkLayerMaxBitRates", "GetExternalIPAddress",
               "GetSpecificPortMappingEntry"}
  => \A p \in DOMAIN reply.out :
       reply.out[p] = Old[p] => p \in Kept /\ Text(list, Fields[command][p], "") = NoNumber
=============================================================================
