----------------------------- MODULE MCMiniUpnpc ----------------------------
(***************************************************************************)
(* The calls of miniupnpc up to the choice of a gateway, for TLC.  A       *)
(* behaviour is one of: a text or a reply is parsed, a description with    *)
(* two services or one with URLs of every shape is read, devices are       *)
(* discovered, an HTTP exchange is made, a gateway is chosen.  The parts   *)
(* that a behaviour does not use stay as they start.                       *)
(***************************************************************************)
EXTENDS ValidIgd, FiniteSets

VARIABLES
  scenario,
  pieces, buffer, beyond, xml, events,
  descURL, open, services, datas, urls,
  ssdp_pc, deviceIndex, devlist, sudp, daemon, net, heard, searched, ssdp_received, failed,
  call, http_pc, sock, response, received, stale, headers, respbuffer, contentlen, headerlen,
  bufsize, ending, split

parser == <<pieces, buffer, beyond, xml, events>>
description == <<descURL, open, services, datas, urls>>
search == <<ssdp_pc, deviceIndex, devlist, sudp, daemon, net, heard, searched, ssdp_received, failed>>
exchange == <<call, http_pc, sock, response, received, stale, headers, respbuffer, contentlen,
              headerlen, bufsize, ending, split>>
all == <<scenario, parser, description, search, exchange, validVars>>

Scenarios == {"text", "reply", "services", "shapes", "search", "exchange", "choice"}

-----------------------------------------------------------------------------
(* The parser: texts of every kind of piece, and longer replies.           *)

Xml == INSTANCE MiniXml WITH
  Kinds <- {"open", "other", "att", "prefix", "empty", "close", "prefixclose", "text", "number",
            "spaced", "space", "proc"}, MaxPieces <- 3
Reply == INSTANCE MiniXml WITH
  Kinds <- {"open", "other", "close", "text", "spaced"}, MaxPieces <- 6

(* The description: two services whose fields differ and may be missing,   *)
(* and one with URLs of every shape.                                       *)

Services == INSTANCE IgdUrls WITH
  DescURLs <- {<<"http://", "h", "/">>}, Bases <- {<<"http://", "b">>},
  Values <- {<<"/", "c">>, <<"k">>},
  Types <- {<<"WANIPConnection">>, <<"WANCommonInterfaceConfig">>}, MaxServices <- 2
Urls == INSTANCE IgdUrls WITH
  DescURLs <- {<<"http://", "h", "/">>,
               <<"http://", "h", ":", "4", "9", "1", "5", "2", "/", "d", ":", "7", "/", "e">>},
  Bases <- {<<"http://", "b", ":", "6", "0", "/">>, <<"http://", "b", "/", "x", "/", "y">>},
  Values <- {<<"c">>, <<"/", "c", ":", "1", "/">>, <<"http://", "g", "/", "c", ":", "9">>,
             <<"http://", "g", ":", "8", "/", "c">>, <<"http://", "g">>},
  Types <- {<<"WANPPPConnection">>, <<"WANCommonInterfaceConfig">>}, MaxServices <- 1

(* The search: a gateway and a plain root device.                          *)

Ssdp == INSTANCE SsdpDiscovery WITH
  Devices <- {"gateway", "printer"},
  Offers <- [gateway |-> {"WANIPConnection", "rootdevice"}, printer |-> {"rootdevice"}],
  Shapes <- {"plain", "terse", "nolocation", "nost"},
  Faults <- {"daemon", "read", "socket", "setsockopt", "bind", "sendto", "recv"},
  MaxReplies <- 3, pc <- ssdp_pc, received <- ssdp_received

(* The exchange: replies with and without a content length, with a header  *)
(* after it, with a blank line in the body, and without a body; a buffer   *)
(* that is fresh or holds an earlier reply with other headers.             *)

NL == <<"\r", "\n">>
Length(digits) == <<"content-length", ":", " ">> \o digits \o NL
Filler(n) == [i \in 1 .. n |-> "x"]
Long == <<"ok">> \o NL \o Length(<<"1", "2">>) \o NL \o Filler(12)
Short == <<"ok">> \o NL \o Length(<<"3">>) \o <<"server">> \o Filler(10) \o NL \o NL \o Filler(3)
NoLength == <<"ok">> \o NL \o NL \o <<"b">> \o NL \o NL \o <<"c">>
NoBody == <<"ok">> \o NL \o Length(<<"0">>) \o NL
Earlier == <<"ok">> \o NL \o <<"server", ":">> \o Filler(7) \o NL \o NL

Http == INSTANCE MiniUpnpHttp WITH
  Responses <- {Long, Short, NoLength, NoBody}, Stale <- {<<>>, Earlier}, BufSize <- 24,
  Faults <- {"gethostbyname", "margin", "parseURL", "socket", "connect", "send", "partial send", "recv"},
  pc <- http_pc

-----------------------------------------------------------------------------
\* What is fixed at the start of a part that is not used.
Unused(parts, start) == IF scenario \in parts THEN TRUE ELSE start

Init ==
  /\ scenario \in Scenarios
  /\ Unused({"text", "reply"}, pieces = <<"space">>) /\ Unused({"text"}, beyond = "x")
  /\ IF scenario = "reply" THEN Reply!Init ELSE Xml!Init
  /\ Unused({"shapes"}, descURL = <<"http://", "h", "/">>) /\ Urls!Init
  /\ Unused({"search"}, daemon = {}) /\ Ssdp!Init
  /\ Unused({"exchange"}, call = "get" /\ response = NoBody /\ stale = <<>>) /\ Http!Init
  /\ Unused({"choice"}, valid_list = <<>>) /\ ValidInit

Next ==
  /\ \/ scenario = "text" /\ Xml!Next /\ UNCHANGED <<description, search, exchange, validVars>>
     \/ scenario = "reply" /\ Reply!Next /\ UNCHANGED <<description, search, exchange, validVars>>
     \/ scenario = "services" /\ Services!Next /\ UNCHANGED <<parser, search, exchange, validVars>>
     \/ scenario = "shapes" /\ Urls!Next /\ UNCHANGED <<parser, search, exchange, validVars>>
     \/ scenario = "search" /\ Ssdp!Next /\ UNCHANGED <<parser, description, exchange, validVars>>
     \/ scenario = "exchange" /\ Http!Next /\ UNCHANGED <<parser, description, search, validVars>>
     \/ scenario = "choice" /\ ValidNext /\ UNCHANGED <<parser, description, search, exchange>>
  /\ UNCHANGED scenario

\* Each call is sequential code that runs until it returns.
Spec == Init /\ [][Next]_all /\ WF_all(scenario \notin {"services", "shapes"} /\ Next)

-----------------------------------------------------------------------------
(* Properties; ConnectedFirst is one of ValidIgd.                          *)

\* The reference of minixmlvalid.c, for texts that are cut anywhere: the parser reports
\* each tag, attribute and text that is whole once, in order, and nothing of the others, but
\* that it shortens a text with white space in front and may report an attribute that is
\* cut after '=' as empty; and GetValueFromNameValueList finds what it reported as the text
\* of the last element of a name.
ParsedAsExpected == Xml!TypeOK /\ Xml!EventsAsExpected /\ Xml!ValueIsLast

\* The services that igd_desc_parse.c keeps are each one of the description; their
\* URLs fit the arrays that GetUPNPUrls allocates; a command for a path goes to
\* the base's host and port, and one for a full URL to that URL.
UrlsReach ==
  /\ IF scenario = "services" THEN Services!TypeOK ELSE Urls!TypeOK
  /\ Urls!OneService /\ Urls!UrlsFit /\ Urls!RelativeReachesBase /\ Urls!AbsoluteStays

\* upnpDiscover returns what was reported to it, each reply once, and nothing only
\* after a search for each type; its socket is closed, but after setsockopt fails.
DiscoveredIsHeard ==
  Ssdp!TypeOK /\ Ssdp!ReturnedIsHeard /\ Ssdp!NothingMeansSearched /\ Ssdp!SocketClosed

\* However the reply is cut into pieces, miniwget2 loses and repeats nothing of what follows
\* the first blank line that is not itself cut in two (what follows one that is cut is
\* dropped); simpleUPnPcommand stops reading only with the whole reply and reports the size
\* of what it received, unless parseURL or the send fails: then it is the buffer's.
ReplyIsWhole ==
  Http!TypeOK /\ Http!ContentIsContiguous /\ Http!BreakIsComplete /\ Http!ReportedIsReceived

\* Every call returns, whatever is cut, lost or refused: each round of parseelt gets
\* further, and every wait has a timeout.
CallReturns ==
  <>(CASE scenario \in {"text", "reply"} -> Xml!Ended
       [] scenario = "search" -> ssdp_pc = "done"
       [] scenario = "exchange" -> http_pc = "done"
       [] scenario = "choice" -> valid_pc = "done"
       [] OTHER -> TRUE)
=============================================================================
