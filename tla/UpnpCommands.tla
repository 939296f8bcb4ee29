----------------------------- MODULE UpnpCommands ---------------------------
(***************************************************************************)
(* upnpcommands.c: the commands to a gateway, as operators on the list of  *)
(* names and texts that the buffer parses to (upnpreplyparse.c).  The      *)
(* result of simpleUPnPcommand is not looked at: the list is empty when    *)
(* nothing was received, and that of old stack bytes when the URL or the   *)
(* send failed.  An operator yields the code that the command returns and  *)
(* the outputs it writes: a function from parameters to texts.             *)
(***************************************************************************)
EXTENDS Integers, Sequences

Success == 0
UnknownError == -1
InvalidArgs == -2

\* The texts that sscanf("%d") reads as a number.
Numbers == [n \in {"402", "501", "714", "718"} |->
              CASE n = "402" -> 402 [] n = "501" -> 501 [] n = "714" -> 714 [] OTHER -> 718]

Has(list, name) == \E i \in DOMAIN list : list[i].name = name
Value(list, name) == list[CHOOSE i \in DOMAIN list : list[i].name = name].value

\* The end of every command: an errorCode in the reply is returned.
ErrorCode(list, ret) ==
  IF ~Has(list, "errorCode") THEN ret
  ELSE IF Value(list, "errorCode") \in DOMAIN Numbers THEN Numbers[Value(list, "errorCode")]
  ELSE UnknownError

Returns(ret, out) == [ret |-> ret, out |-> out]
NoOutput == <<>>

\* A text that is no number; all others stand for numbers of 32 bits where one is read.
NoNumber == "?"
\* sscanf("%u"): a text that is no number leaves what was there.
sscanf(text, before) == IF text = NoNumber THEN before ELSE text

\* The text of a field, and the number that is read from it.
Text(list, name, missing) == IF Has(list, name) THEN Value(list, name) ELSE missing
Number(list, name, before, missing) ==
  IF Has(list, name) THEN sscanf(Value(list, name), before) ELSE missing

\* Of these outputs, those whose parameters are not NULL.
Given(params, out) == [p \in params |-> out[p]]

-----------------------------------------------------------------------------
\* my_atoui: 0 for a missing text, and for one that is no number.
my_atoui(list, name) == Number(list, name, "0", "0")

UPNP_GetTotalBytesSent(list) ==
  Returns(Success, [total |-> my_atoui(list, "NewTotalBytesSent")])
UPNP_GetTotalBytesReceived(list) ==
  Returns(Success, [total |-> my_atoui(list, "NewTotalBytesReceived")])
UPNP_GetTotalPacketsSent(list) ==
  Returns(Success, [total |-> my_atoui(list, "NewTotalPacketsSent")])
UPNP_GetTotalPacketsReceived(list) ==
  Returns(Success, [total |-> my_atoui(list, "NewTotalPacketsReceived")])

\* A missing uptime is not written (the pointer is set instead).
UPNP_GetStatusInfo(list, params, old) ==
  IF params \cap {"status", "uptime"} = {} THEN Returns(InvalidArgs, NoOutput)
  ELSE Returns(ErrorCode(list, IF Has(list, "NewConnectionStatus") /\ Has(list, "NewUptime")
                               THEN Success ELSE UnknownError),
               Given(params, [status |-> Text(list, "NewConnectionStatus", ""),
                              uptime |-> Number(list, "NewUptime", old.uptime, old.uptime),
                              lastconnerror |-> Text(list, "NewLastConnectionError", "")]))

\* Faulty variant: what is missing is no error.
WrongGetConnectionTypeInfo(list, params, old) ==
  IF params = {} THEN Returns(InvalidArgs, NoOutput)
  ELSE Returns(ErrorCode(list, Success),
               [connectionType |-> Text(list, "NewConnectionType", "")])

UPNP_GetConnectionTypeInfo(list, params, old) ==
  IF params = {} THEN Returns(InvalidArgs, NoOutput)
  ELSE Returns(ErrorCode(list, IF Has(list, "NewConnectionType") THEN Success ELSE UnknownError),
               [connectionType |-> Text(list, "NewConnectionType", "")])

\* A missing rate is 0; one that is no number stays as it was.
UPNP_GetLinkLayerMaxBitRates(list, params, old) ==
  LET down == "NewLayer1DownstreamMaxBitRate"
      up == "NewLayer1UpstreamMaxBitRate"
  IN  IF params = {} THEN Returns(InvalidArgs, NoOutput)
      ELSE Returns(ErrorCode(list, IF Has(list, down) /\ Has(list, up)
                                   THEN Success ELSE UnknownError),
                   Given(params, [bitrateDown |-> Number(list, down, old.bitrateDown, "0"),
                                  bitrateUp |-> Number(list, up, old.bitrateUp, "0")]))

UPNP_GetExternalIPAddress(list, params, old) ==
  IF params = {} THEN Returns(InvalidArgs, NoOutput)
  ELSE Returns(ErrorCode(list, IF Has(list, "NewExternalIPAddress") THEN Success ELSE UnknownError),
               [extIpAdd |-> Text(list, "NewExternalIPAddress", "")])

\* The two commands that have no outputs succeed unless there is an errorCode.
UPNP_AddPortMapping(list) == Returns(ErrorCode(list, Success), NoOutput)
UPNP_DeletePortMapping(list) == Returns(ErrorCode(list, Success), NoOutput)

GenericFields ==
  [rHost |-> "NewRemoteHost", extPort |-> "NewExternalPort", protocol |-> "NewProtocol",
   intPort |-> "NewInternalPort", intClient |-> "NewInternalClient", enabled |-> "NewEnabled",
   desc |-> "NewPortMappingDescription", duration |-> "NewLeaseDuration"]

\* intClient and intPort are not optional; they are cleared first.
UPNP_GetGenericPortMappingEntry(list, params, old) ==
  Returns(ErrorCode(list, IF \/ Has(list, "NewExternalPort") /\ "extPort" \in params
                             \/ Has(list, "NewInternalClient")
                          THEN Success ELSE UnknownError),
          [p \in params \cup {"intClient", "intPort"} |->
             Text(list, GenericFields[p], IF p \in {"intClient", "intPort"} THEN "" ELSE old[p])])

UPNP_GetPortMappingNumberOfEntries(list, params, old) ==
  Returns(ErrorCode(list, IF params # {} /\ Has(list, "NewPortMappingNumberOfEntries")
                          THEN Success ELSE UnknownError),
          Given(params, [numEntries |-> Number(list, "NewPortMappingNumberOfEntries", "0",
                                               old.numEntries)]))

UPNP_GetSpecificPortMappingEntry(list, params, old) ==
  IF params # {"intClient", "intPort"} THEN Returns(InvalidArgs, NoOutput)
  ELSE Returns(ErrorCode(list, IF Has(list, "NewInternalClient") THEN Success ELSE UnknownError),
               [p \in params |-> Text(list, GenericFields[p], "")])
=============================================================================
