---------------------------- MODULE SsdpDiscovery ---------------------------
(***************************************************************************)
(* upnpDiscover of miniupnpc: ask the daemon minissdpd for the four types  *)
(* of deviceList in turn, then search for them with SSDP datagrams that    *)
(* are lost, delayed and duplicated.                                       *)
(***************************************************************************)
EXTENDS Integers, Sequences, SequencesExt, FiniteSets

CONSTANTS
  Devices,
  Offers,       \* [Devices -> SUBSET Types]: the searches a device answers
  Shapes,       \* the ways to write a reply
  Faults,       \* the system calls that may fail
  MaxReplies    \* bound: datagrams received

VARIABLES
  pc,           \* "daemon", "socket", "send", "receive", "done"
  deviceIndex,
  devlist,      \* the list, its head first; the result when pc = "done"
  sudp,         \* the socket: "none", "open", "closed"
  daemon,       \* what minissdpd knows: a set of entries, {} when it is not running
  net,          \* replies on their way
  heard,        \* history: what was reported to this call, the latest first
  searched,     \* history: the types that were searched for
  received,     \* history: the number of datagrams
  failed        \* history: the call that failed, "" for none

vars == <<pc, deviceIndex, devlist, sudp, daemon, net, heard, searched, received, failed>>

deviceList == <<"InternetGatewayDevice", "WANIPConnection", "WANPPPConnection", "rootdevice">>
Types == Range(deviceList)

-----------------------------------------------------------------------------
(* Replies.                                                                *)

Location(d) == <<"http", ":", d>>
Entry(d, type) == [descURL |-> Location(d), st |-> <<"urn", ":", type>>]

Line(header, space, value) == <<header, ":">> \o space \o value \o <<"\r", "\n">>

\* A reply of device d to a search for a type.
Reply(d, type, shape) ==
  CASE shape = "plain" -> Line("ext", <<>>, <<>>) \o Line("st", <<" ">>, <<"urn", ":", type>>)
                          \o Line("location", <<" ", " ">>, Location(d)) \o <<"\r", "\n">>
    [] shape = "terse" -> <<"ok", "\r", "\n">> \o Line("location", <<>>, Location(d))
                          \o Line("st", <<>>, <<"urn", ":", type>>)
    [] shape = "nolocation" -> Line("st", <<" ">>, <<"urn", ":", type>>)
    [] shape = "nost" -> Line("location", <<" ">>, Location(d))

Complete == {"plain", "terse"}

\* Faulty variant of HeaderEnd: the last ':' of the line counts.
WrongHeaderEnd(b, i) == i

\* The first ':' of a line ends its header.
HeaderEnd(b, i) == IF b = 0 THEN i ELSE b

\* One character of parseMSEARCHReply: a is the start of the line, b the end of its
\* header, 0 when none was seen.
Scan(reply, s, i) ==
  CASE reply[i] = ":" -> [s EXCEPT !.b = HeaderEnd(@, i)]
    [] reply[i] \in {"\r", "\n"} /\ s.b # 0 ->
         LET first == CHOOSE q \in s.b + 1 .. i : /\ reply[q] # " "
                                                  /\ \A r \in s.b + 1 .. q - 1 : reply[r] = " "
             value == SubSeq(reply, first, i - 1)
         IN  [s EXCEPT !.a = i + 1, !.b = 0,
                       !.location = IF reply[s.a] = "location" THEN <<value>> ELSE @,
                       !.st = IF reply[s.a] = "st" THEN <<value>> ELSE @]
    [] reply[i] \in {"\r", "\n"} /\ s.b = 0 -> [s EXCEPT !.a = i + 1]
    [] OTHER -> s

\* The fields "location" and "st" of a reply, <<>> for NULL.
parseMSEARCHReply(reply) ==
  FoldLeft(LAMBDA s, i : Scan(reply, s, i), [a |-> 1, b |-> 0, location |-> <<>>, st |-> <<>>],
           [i \in 1 .. Len(reply) |-> i])

-----------------------------------------------------------------------------
(* upnpDiscover.                                                           *)

Init ==
  /\ pc = "daemon" /\ deviceIndex = 1 /\ devlist = <<>> /\ sudp = "none"
  /\ daemon \in SUBSET UNION {{Entry(d, type) : type \in Offers[d]} : d \in Devices}
  /\ net = {} /\ heard = <<>> /\ searched = {} /\ received = 0 /\ failed = ""

\* getDevicesFromMiniSSDPD: each entry of the answer is put at the head of a list.
\* The result of read is kept in a size_t: an error is not noticed, and the buffer,
\* that still holds the request, is taken for an answer with one entry.
getDevicesFromMiniSSDPD(type, list, reported) ==
  \/ /\ list = <<>> /\ reported = <<>>
     /\ "daemon" \in Faults \/ ~\E e \in daemon : e.st = <<"urn", ":", type>>
  \/ /\ list = reported
     /\ reported \in SetToSeqs({e \in daemon : e.st = <<"urn", ":", type>>})
  \/ /\ "read" \in Faults /\ reported = <<>>
     /\ list = <<[descURL |-> <<type>>, st |-> <<>>]>>

AskDaemon ==
  /\ pc = "daemon"
  /\ \E list \in SeqOf(daemon, Cardinality(Devices))
                 \cup {<<[descURL |-> <<deviceList[deviceIndex]>>, st |-> <<>>]>>},
        reported \in SeqOf(daemon, Cardinality(Devices)) :
       /\ getDevicesFromMiniSSDPD(deviceList[deviceIndex], list, reported)
       /\ devlist' = list /\ heard' = reported /\ failed' = IF list # reported THEN "read" ELSE ""
       /\ \/ list # <<>> /\ deviceList[deviceIndex] # "rootdevice"
             /\ pc' = "done" /\ UNCHANGED deviceIndex
          \/ list = <<>> /\ deviceIndex < Len(deviceList)
             /\ deviceIndex' = deviceIndex + 1 /\ UNCHANGED pc
          \/ deviceIndex = Len(deviceList) /\ deviceIndex' = 1 /\ pc' = "socket"
  /\ UNCHANGED <<sudp, daemon, net, searched, received>>

\* It returns NULL.
SocketFails ==
  /\ pc = "socket"
  /\ \/ "socket" \in Faults /\ failed' = "socket" /\ UNCHANGED sudp
     \/ "setsockopt" \in Faults /\ failed' = "setsockopt" /\ sudp' = "open"
     \/ "bind" \in Faults /\ failed' = "bind" /\ sudp' = "closed"
  /\ pc' = "done" /\ devlist' = <<>>
  /\ UNCHANGED <<deviceIndex, daemon, net, heard, searched, received>>

OpenSocket ==
  /\ pc = "socket" /\ pc' = "send" /\ sudp' = "open"
  /\ UNCHANGED <<deviceIndex, devlist, daemon, net, heard, searched, received, failed>>

Return == pc' = "done" /\ sudp' = "closed" /\ UNCHANGED devlist

\* The M-SEARCH packet is sent; each device may answer, in its own way.
Send ==
  /\ pc = "send"
  /\ searched' = searched \cup {deviceList[deviceIndex]}
  /\ deviceIndex' = deviceIndex + 1 /\ pc' = "receive"
  /\ \E answers \in SUBSET {d \in Devices : deviceList[deviceIndex] \in Offers[d]} :
     \E shape \in [answers -> Shapes] :
       net' = net \cup {[device |-> d, type |-> deviceList[deviceIndex], shape |-> shape[d]] : d \in answers}
  /\ UNCHANGED <<devlist, sudp, daemon, heard, received, failed>>

SendFails ==
  /\ pc = "send" /\ "sendto" \in Faults
  /\ Return /\ deviceIndex' = deviceIndex + 1 /\ failed' = "sendto"
  /\ UNCHANGED <<daemon, net, heard, searched, received>>

ReceiveFails ==
  /\ pc = "receive" /\ "recv" \in Faults
  /\ Return /\ failed' = "recv"
  /\ UNCHANGED <<deviceIndex, daemon, net, heard, searched, received>>

\* ReceiveData returns 0.
Timeout ==
  /\ pc = "receive"
  /\ IF devlist # <<>> \/ deviceIndex > Len(deviceList)
     THEN Return ELSE pc' = "send" /\ UNCHANGED <<devlist, sudp>>
  /\ UNCHANGED <<deviceIndex, daemon, net, heard, searched, received, failed>>

\* ReceiveData returns a reply; the datagram may arrive again.
Receive ==
  /\ pc = "receive" /\ received < MaxReplies
  /\ \E m \in net :
       /\ net' \in {net, net \ {m}}
       /\ heard' = IF m.shape \in Complete THEN <<Entry(m.device, m.type)>> \o heard ELSE heard
       /\ \E p \in {parseMSEARCHReply(Reply(m.device, m.type, m.shape))} :
            devlist' = IF p.location # <<>> /\ p.st # <<>>
                       THEN <<[descURL |-> p.location[1], st |-> p.st[1]]>> \o devlist ELSE devlist
  /\ received' = received + 1
  /\ UNCHANGED <<pc, deviceIndex, sudp, daemon, searched, failed>>

Next == AskDaemon \/ SocketFails \/ OpenSocket \/ Send \/ SendFails
        \/ ReceiveFails \/ Timeout \/ Receive

Spec == Init /\ [][Next]_vars

-----------------------------------------------------------------------------
(* Properties.                                                             *)

\* Type invariant: only the types of deviceList are searched for.
TypeOK == /\ pc \in {"daemon", "socket", "send", "receive", "done"}
          /\ deviceIndex \in 1 .. Len(deviceList) + 1
          /\ pc = "send" => deviceIndex \in DOMAIN deviceList
          /\ sudp \in {"none", "open", "closed"} /\ searched \subseteq Types

\* "return a chained list of all devices found": what is returned by a call that did
\* not fail is what the daemon and the network reported, each reply once, with its
\* location and its type.
ReturnedIsHeard == pc = "done" /\ failed = "" => devlist = heard

\* A search that finds nothing has searched for each type.
NothingMeansSearched == pc = "done" /\ devlist = <<>> /\ failed = "" => searched = Types

\* The socket is closed on every way out but one: after setsockopt fails.
SocketClosed == pc = "done" /\ failed # "setsockopt" => sudp # "open"
=============================================================================
