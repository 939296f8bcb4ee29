------------------------------- MODULE IgdUrls ------------------------------
(***************************************************************************)
(* What miniupnpc makes of the description of a gateway: the handlers of   *)
(* igd_desc_parse.c fill struct IGDdatas while the description is parsed   *)
(* (parserootdesc), GetUPNPUrls makes the URLs of the services of it, and  *)
(* parseURL takes a URL apart when a command is sent.  A URL is a sequence *)
(* of tokens.                                                              *)
(***************************************************************************)
EXTENDS Integers, Sequences, SequencesExt, FiniteSets

CONSTANTS
  DescURLs,     \* where the description comes from
  Bases,        \* values of URLBase
  Values,       \* values of the URLs of a service
  Types,        \* values of serviceType
  MaxServices   \* bound: services of the description

VARIABLES
  descURL,
  open,       \* the elements that are open, the innermost last
  services,   \* history: the services so far, as their author sees them
  datas,      \* struct IGDdatas
  urls        \* struct UPNPUrls, <<>> before GetUPNPUrls

vars == <<descURL, open, services, datas, urls>>

Empty == <<>>
Fields == {"serviceType", "controlURL", "eventSubURL", "SCPDURL"}
NoService == [f \in Fields |-> Empty]
Connection == {<<"WANIPConnection">>, <<"WANPPPConnection">>}
CommonInterface == <<"WANCommonInterfaceConfig">>

Top == IF open = <<>> THEN "nothing" ELSE Last(open)

-----------------------------------------------------------------------------
(* Tokens.                                                                 *)

Scheme == "http://"
Digits == <<"0", "1", "2", "3", "4", "5", "6", "7", "8", "9">>

\* strlen
Strlen(url) == FoldLeft(LAMBDA n, t : n + (IF t = Scheme THEN 7 ELSE 1), 0, url)

\* strncpy to an array of n characters: what is left of src.
Strncpy(src, n) ==
  CHOOSE u \in Prefixes(src) :
    /\ Strlen(u) <= n
    /\ \A w \in Prefixes(src) : Strlen(w) <= n => Len(w) <= Len(u)

\* strchr from position p on; 0 for NULL.
Strchr(url, p, c) ==
  IF \E i \in p .. Len(url) : url[i] = c
  THEN CHOOSE i \in p .. Len(url) : url[i] = c /\ \A j \in p .. i - 1 : url[j] # c ELSE 0

-----------------------------------------------------------------------------
(* The handlers.                                                           *)

IGDstartelt(d, name) ==
  [d EXCEPT !.cureltname = name, !.level = @ + 1,
            !.tmp = IF name = "service" THEN NoService ELSE @]

IGDendelt(d, name) ==
  [d EXCEPT !.level = @ - 1,
            !.CIF = IF name = "service" /\ d.tmp["serviceType"] = CommonInterface THEN d.tmp ELSE @,
            !.main = IF name = "service" /\ d.tmp["serviceType"] \in Connection THEN d.tmp ELSE @]

IGDdata(d, value) ==
  CASE d.cureltname = "URLBase" -> [d EXCEPT !.urlbase = value]
    [] d.cureltname \in Fields -> [d EXCEPT !.tmp[d.cureltname] = value]
    [] OTHER -> d

-----------------------------------------------------------------------------
(* The URLs.                                                               *)

\* The string dst, in an array of n characters, after the call.
url_cpy_or_cat(dst, src, n) ==
  IF src # <<>> /\ Head(src) = Scheme THEN Strncpy(src, n)
  ELSE LET slashed == IF src # <<>> /\ Head(src) = "/" THEN dst ELSE Append(dst, "/")
       IN  IF Strlen(slashed) <= n THEN slashed \o Strncpy(src, n - Strlen(slashed)) ELSE slashed

\* The size of the array for the URL src relative to base.
Room(base, src) == Strlen(base) + 2 + Strlen(src)

\* Up to the first '/' after "http://".
Root(base) == LET p == Strchr(base, 2, "/") IN IF p = 0 THEN base ELSE SubSeq(base, 1, p - 1)

Base(d, desc) == IF d.urlbase # Empty THEN d.urlbase ELSE desc

GetUPNPUrls(d, desc) ==
  LET Url(src) == [url  |-> url_cpy_or_cat(Root(Base(d, desc)), src, Room(Base(d, desc), src)),
                   room |-> Room(Base(d, desc), src)]
  IN  [ipcondescURL |-> Url(d.main["SCPDURL"]), controlURL |-> Url(d.main["controlURL"]),
       controlURL_CIF |-> Url(d.CIF["controlURL"])]

\* Faulty variant of PortColon: a ':' in the path is taken for that of the port.
WrongPortColon(url) == Strchr(url, 2, ":")

\* The ':' in front of the port; 0 when there is none before the path.
PortColon(url) ==
  LET p2 == Strchr(url, 2, ":")
  IN  IF p2 > Strchr(url, 2, "/") THEN 0 ELSE p2

\* The number that the digits from p on make, in an unsigned short.
PortAt(url, p) ==
  LET last == CHOOSE q \in p - 1 .. Len(url) :
                /\ \A i \in p .. q : url[i] \in Range(Digits)
                /\ q = Len(url) \/ url[q + 1] \notin Range(Digits)
  IN  FoldLeft(LAMBDA n, t : (n * 10 + Strchr(Digits, 1, t) - 1) % 2^16, 0, SubSeq(url, p, last))

\* The parts of a URL; no element when it returns 0.
parseURL(url) ==
  LET p2 == PortColon(url)
      p3 == Strchr(url, 2, "/")
  IN  IF url = <<>> \/ Head(url) # Scheme \/ p3 = 0 THEN {}
      ELSE {[hostname |-> SubSeq(url, 2, (IF p2 = 0 THEN p3 ELSE p2) - 1),
             port |-> IF p2 = 0 THEN 80 ELSE PortAt(url, p2 + 1),
             path |-> SubSeq(url, p3, Len(url))]}

-----------------------------------------------------------------------------
(* The description, as the parser reports it.                              *)

\* UPNP_GetIGDFromUrl: IGDdatas is cleared and the description is parsed.
Init ==
  /\ descURL \in DescURLs
  /\ open = <<>> /\ services = <<>> /\ urls = <<>>
  /\ datas = [cureltname |-> "", level |-> 0, urlbase |-> Empty,
              tmp |-> NoService, CIF |-> NoService, main |-> NoService]

\* An element starts; a field of a service and URLBase come at most once.
Start(name) ==
  /\ urls = <<>>
  /\ \/ Top = "nothing" /\ name = "root" /\ datas.cureltname = ""
     \/ Top = "root" /\ name = "URLBase" /\ datas.urlbase = Empty
     \/ Top = "root" /\ name = "device" /\ Len(services) < MaxServices
     \/ Top = "device" /\ name = "service" /\ Len(services) < MaxServices
     \/ Top = "service" /\ name \in Fields /\ Last(services)[name] = Empty
  /\ open' = Append(open, name)
  /\ services' = IF name = "service" THEN Append(services, NoService) ELSE services
  /\ datas' = IGDstartelt(datas, name)
  /\ UNCHANGED <<descURL, urls>>

Data ==
  /\ Top \in Fields \cup {"URLBase"} /\ datas.cureltname = Top
  /\ IF Top \in Fields THEN Last(services)[Top] = Empty ELSE datas.urlbase = Empty
  /\ \E v \in CASE Top = "URLBase" -> Bases [] Top = "serviceType" -> Types [] OTHER -> Values :
       /\ services' = IF Top \in Fields THEN [services EXCEPT ![Len(services)][Top] = v] ELSE services
       /\ datas' = IGDdata(datas, v)
  /\ UNCHANGED <<descURL, open, urls>>

EndElement ==
  /\ open # <<>> /\ (Top = "service" => Last(services)["serviceType"] # Empty)
  /\ open' = Front(open)
  /\ datas' = IGDendelt(datas, Top)
  /\ UNCHANGED <<descURL, services, urls>>

\* UPNP_GetIGDFromUrl and UPNP_GetValidIGD, after the description.
MakeUrls ==
  /\ open = <<>> /\ datas.cureltname # "" /\ urls = <<>>
  /\ urls' = GetUPNPUrls(datas, descURL)
  /\ UNCHANGED <<descURL, open, services, datas>>

Next == (\E name \in Fields \cup {"root", "device", "service", "URLBase"} : Start(name))
        \/ Data \/ EndElement \/ MakeUrls

Spec == Init /\ [][Next]_vars

-----------------------------------------------------------------------------
(* Properties.                                                             *)

\* Type invariant; the level is that of the parser.
TypeOK == /\ descURL \in DescURLs /\ Len(services) <= MaxServices
          /\ datas.level = Len(open)
          /\ {"tmp", "CIF", "main"} \subseteq DOMAIN datas

\* The last service so far, of those that are complete, whose type is in a set.
LastOf(types) ==
  LET complete == SubSeq(services, 1, Len(services)
                         - (IF \E i \in DOMAIN open : open[i] = "service" THEN 1 ELSE 0))
      matching == SelectSeq(complete, LAMBDA s : s["serviceType"] \in types)
  IN  IF matching = <<>> THEN NoService ELSE Last(matching)

\* The type and the URLs of the connection, and those of the common interface, are
\* those of one service, the last of its kind: a field that a service lacks never
\* comes from another one (IGDendelt copies the four fields that IGDstartelt cleared).
OneService == datas.main = LastOf(Connection) /\ datas.CIF = LastOf({CommonInterface})

\* "1 byte more for Null terminator, 1 byte for '/' if needed": every URL fits into
\* the array that GetUPNPUrls allocates for it, terminated.
UrlsFit == urls # <<>> => \A u \in DOMAIN urls : Strlen(urls[u].url) < urls[u].room

\* The host and port that a URL names, by its author's reading.
HostPort(url) ==
  LET rest == Tail(url)
      end  == Strchr(Append(rest, "/"), 1, "/")
      host == SubSeq(rest, 1, end - 1)
  IN  IF \E i \in DOMAIN host : host[i] = ":"
      THEN <<<<Head(host)>>, FoldLeft(LAMBDA n, t : n * 10 + Strchr(Digits, 1, t) - 1, 0,
                                       SubSeq(host, 3, Len(host)))>>
      ELSE <<host, 80>>

\* A command for a URL that the service gives as a path goes to the host and the port
\* of URLBase, or else of the description, and asks for that path (parseURL of what
\* GetUPNPUrls made).
RelativeReachesBase ==
  urls # <<>> /\ datas.main["controlURL"] # Empty /\ Head(datas.main["controlURL"]) # Scheme =>
    LET control == datas.main["controlURL"]
        at == HostPort(Base(datas, descURL))
    IN  parseURL(urls.controlURL.url)
          = {[hostname |-> at[1], port |-> at[2],
              path |-> IF Head(control) = "/" THEN control ELSE <<"/">> \o control]}

\* A URL that the service gives in full is used as it is.
AbsoluteStays ==
  urls # <<>> /\ datas.main["controlURL"] # Empty /\ Head(datas.main["controlURL"]) = Scheme =>
    LET at == HostPort(datas.main["controlURL"])
    IN  \A u \in parseURL(urls.controlURL.url) : u.hostname = at[1] /\ u.port = at[2]
=============================================================================
