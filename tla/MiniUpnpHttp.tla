---------------------------- MODULE MiniUpnpHttp ----------------------------
(***************************************************************************)
(* The two HTTP exchanges of miniupnpc: miniwget2 gets a description,      *)
(* simpleUPnPcommand posts a SOAP request and reads the reply.  The server *)
(* answers in pieces of any size and may fall silent at any point; a       *)
(* token stands for a piece of text that is of no interest in itself.      *)
(***************************************************************************)
EXTENDS Integers, Sequences, SequencesExt, FiniteSets

CONSTANTS
  Responses,   \* the answers of the server
  Stale,       \* what the buffer of a command held before
  BufSize,     \* the size of that buffer
  Faults       \* the calls that may fail

VARIABLES
  call,         \* "get" (miniwget2) or "post" (simpleUPnPcommand)
  pc,           \* "connect", "send", "receive", "done"
  sock,         \* "none", "open", "closed"
  response,
  received,     \* what ReceiveData has returned so far
  stale,
  headers,      \* miniwget2: within the headers
  respbuffer,   \* miniwget2: the content; <<>> also stands for NULL
  contentlen, headerlen, bufsize,   \* simpleUPnPcommand
  ending,       \* history: how the exchange ended
  split         \* history: the blank lines of the response that came in two pieces

vars == <<call, pc, sock, response, received, stale, headers, respbuffer,
          contentlen, headerlen, bufsize, ending, split>>
parsed == <<headers, respbuffer, contentlen, headerlen, bufsize>>

Digits == <<"0", "1", "2", "3", "4", "5", "6", "7", "8", "9">>

\* Where the headers of a text end: the last of the four characters.
BlankLine(text) ==
  {i \in 4 .. Len(text) : SubSeq(text, i - 3, i) = <<"\r", "\n", "\r", "\n">>}

-----------------------------------------------------------------------------
(* The headers of a reply.  The buffer holds n characters of the reply and *)
(* after them what was there before.                                       *)

At(buffer, i) == IF i <= Len(buffer) THEN buffer[i]
                 ELSE IF i <= Len(stale) THEN stale[i] ELSE "x"

\* -1 for a line that is no such header.
getcontentlenfromline(line) ==
  LET digits == SelectSeq(line, LAMBDA t : t \in Range(Digits))
  IN  IF Len(line) < 2 \/ line[1] # "content-length" \/ line[2] # ":" THEN -1
      ELSE FoldLeft(LAMBDA a, t : a * 10 + (CHOOSE i \in DOMAIN Digits : Digits[i] = t) - 1, 0, digits)

\* The lengths that are found, from those that were known before.
getContentLengthAndHeaderLength(buffer, known) ==
  LET n == Len(buffer)
      End(line) == {e \in line .. n + 1 : At(buffer, e) = "\r"}
      from[line \in 1 .. n + 3] ==
        IF line > n \/ End(line) = {} THEN [contentlen |-> -1, headerlen |-> -1]
        ELSE LET e == Min(End(line))
                 r == getcontentlenfromline([i \in 1 .. e - line |-> At(buffer, line + i - 1)])
                 next == e + 2
                 last == At(buffer, next) = "\r" /\ At(buffer, next + 1) = "\n"
                 rest == IF last THEN [contentlen |-> -1, headerlen |-> next + 1] ELSE from[next]
             IN  [rest EXCEPT !.contentlen = IF @ > 0 THEN @ ELSE IF r > 0 THEN r ELSE -1]
      found == from[1]
  IN  [contentlen |-> IF found.contentlen > 0 THEN found.contentlen ELSE known.contentlen,
       headerlen  |-> IF found.headerlen > 0 THEN found.headerlen ELSE known.headerlen]

-----------------------------------------------------------------------------
Init ==
  /\ call \in {"get", "post"} /\ pc = "connect" /\ sock = "none"
  /\ response \in Responses /\ received = <<>> /\ stale \in Stale
  /\ headers = TRUE /\ respbuffer = <<>>
  /\ contentlen = -1 /\ headerlen = -1 /\ bufsize = BufSize
  /\ ending = "none" /\ split = {}

Done(how) == pc' = "done" /\ ending' = how

\* miniwget2: gethostbyname or socket fails.
NoHost(fault) ==
  /\ call = "get" /\ pc = "connect" /\ fault \in {"gethostbyname", "socket"} \cap Faults
  /\ Done(fault)
  /\ UNCHANGED <<call, sock, response, received, stale, split>> /\ UNCHANGED parsed

\* simpleUPnPcommand: the arguments leave no margin in soapbody, parseURL or socket fails.
NoRequest(fault) ==
  /\ call = "post" /\ pc = "connect" /\ fault \in {"margin", "parseURL", "socket"} \cap Faults
  /\ bufsize' = IF fault = "parseURL" THEN bufsize ELSE 0
  /\ Done(fault)
  /\ UNCHANGED <<call, sock, response, received, stale, headers, respbuffer, contentlen, headerlen, split>>

ConnectFails ==
  /\ pc = "connect" /\ "connect" \in Faults
  /\ sock' = "closed" /\ bufsize' = 0 /\ Done("connect")
  /\ UNCHANGED <<call, response, received, stale, headers, respbuffer, contentlen, headerlen, split>>

Connect ==
  /\ pc = "connect" /\ pc' = "send" /\ sock' = "open"
  /\ UNCHANGED <<call, response, received, stale, ending, split>> /\ UNCHANGED parsed

SendFails ==
  /\ pc = "send" /\ "send" \in Faults
  /\ sock' = "closed" /\ Done("send")
  /\ UNCHANGED <<call, response, received, stale, split>> /\ UNCHANGED parsed

\* miniwget2 sends until everything is sent.
GetSend ==
  /\ call = "get" /\ pc = "send" /\ pc' = "receive"
  /\ UNCHANGED <<call, sock, response, received, stale, ending, split>> /\ UNCHANGED parsed

\* httpWrite sends once: a part that is left out stays unsent, and the server waits for it.
PostSend ==
  /\ call = "post" /\ pc = "send" /\ pc' = "receive"
  /\ \/ UNCHANGED response
     \/ "partial send" \in Faults /\ response' = <<>>
  /\ bufsize' = 0
  /\ UNCHANGED <<call, sock, received, stale, headers, respbuffer, contentlen, headerlen, ending, split>>

\* Faulty variant of Content: the content starts at the end of the headers.
WrongContent(buf, i) == SubSeq(buf, i, Len(buf))

\* What follows the headers in buf, when they end at i.
Content(buf, i) == SubSeq(buf, i + 1, Len(buf))

\* A round of the loop of miniwget2: the end of the headers is looked for in buf.
GetReceives(buf) ==
  /\ call = "get"
  /\ headers' = (headers /\ BlankLine(buf) = {})
  /\ respbuffer' = IF ~headers THEN respbuffer \o buf
                   ELSE IF BlankLine(buf) = {} THEN respbuffer
                   ELSE respbuffer \o Content(buf, Min(BlankLine(buf)))
  /\ received' = received \o buf
  /\ UNCHANGED <<pc, sock, contentlen, headerlen, bufsize, ending>>

\* "break if we received everything"
Everything(lens, size) ==
  lens.contentlen > 0 /\ lens.headerlen > 0 /\ size >= lens.contentlen + lens.headerlen

\* A round of the loop of simpleUPnPcommand.
PostReceives(buf) ==
  /\ call = "post" /\ Len(buf) <= BufSize - bufsize
  /\ received' = received \o buf /\ bufsize' = bufsize + Len(buf)
  /\ \E lens \in {getContentLengthAndHeaderLength(received \o buf,
                    [contentlen |-> contentlen, headerlen |-> headerlen])} :
       /\ contentlen' = lens.contentlen /\ headerlen' = lens.headerlen
       /\ IF Everything(lens, bufsize + Len(buf))
          THEN Done("everything") /\ sock' = "closed" ELSE UNCHANGED <<pc, sock, ending>>
  /\ UNCHANGED <<headers, respbuffer>>

\* ReceiveData returns the next characters.
Receive ==
  /\ pc = "receive"
  /\ \E k \in 1 .. Len(response) - Len(received) :
     \E buf \in {SubSeq(response, Len(received) + 1, Len(received) + k)} :
       /\ GetReceives(buf) \/ PostReceives(buf)
       /\ split' = split \cup {i \in BlankLine(response) : Len(received) + k \in i - 3 .. i - 1}
  /\ UNCHANGED <<call, response, stale>>

\* ReceiveData returns 0 (the server has closed, no answer for five seconds, or the
\* buffer is full) or -1.
ReceiveEnds ==
  /\ pc = "receive"
  /\ sock' = "closed"
  /\ \/ received = response /\ response # <<>> /\ Done("closed")
     \/ Done("timeout")
     \/ call = "post" /\ bufsize = BufSize /\ Done("full")
     \/ "recv" \in Faults /\ Done("recv")
  /\ UNCHANGED <<call, response, received, stale, split>> /\ UNCHANGED parsed

Next == (\E fault \in Faults : NoHost(fault) \/ NoRequest(fault)) \/ ConnectFails \/ Connect
        \/ SendFails \/ GetSend \/ PostSend \/ Receive \/ ReceiveEnds

Spec == Init /\ [][Next]_vars

-----------------------------------------------------------------------------
(* Properties.                                                             *)

\* Type invariant; a command never gets more than its buffer holds.
TypeOK == /\ pc \in {"connect", "send", "receive", "done"}
          /\ sock \in {"none", "open", "closed"} /\ (pc = "done" => sock # "open")
          /\ received \in Prefixes(response)
          /\ bufsize \in 0 .. BufSize

\* The content that miniwget2 returns is all that it received after the first blank line
\* that came in one piece, nothing lost and nothing repeated.  So it is the whole body when
\* the line after the headers was not split; when it was, the loop has not seen it, and the
\* body up to the next blank line, or all of it, is dropped.
ContentIsContiguous ==
  call = "get" =>
    LET seen == BlankLine(received) \ split
    IN  respbuffer = IF seen = {} THEN <<>> ELSE SubSeq(received, Min(seen) + 1, Len(received))

\* "break if we received everything": a command that stops reading has the whole reply,
\* however it was cut into pieces, when its buffer holds nothing of an earlier reply.
BreakIsComplete == call = "post" /\ stale = <<>> /\ ending = "everything" => received = response

\* The size that a command reports is that of what it received, but after two of its
\* errors: when parseURL or the sending fails it stays that of the buffer.
ReportedIsReceived ==
  call = "post" /\ pc = "done" /\ ending \notin {"parseURL", "send"} => bufsize = Len(received)
=============================================================================
