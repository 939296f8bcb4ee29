---------------------------- MODULE TcpTransport ----------------------------
(***************************************************************************)
(* TcpTransport, its acceptors and its TcpConnections.  A connection has a *)
(* strand of its own, so connections_ is changed through the strand of the *)
(* transport some time after the connection asked for it.  The handlers of *)
(* a connection are functions from the connection to the one they leave.   *)
(* An asynchronous operation is "pending" until it is done, "ok" or        *)
(* "failed", and then waits for its handler to run.                        *)
(***************************************************************************)
EXTENDS Integers, Sequences

CONSTANTS
  Conns,       \* connection objects
  MaxListens,  \* bound: calls of StartListening that succeed
  MaxSize,     \* bound: reads that one message takes
  MaxReads     \* bound: reads completed on one connection

TcpAssumption == MaxListens \in Nat /\ MaxSize \in Nat /\ MaxReads \in Nat

VARIABLES
  alive,        \* the transport has not been destroyed
  listening,    \* the acceptor in use, or 0: listening_port_ and acceptor_
  acceptors,    \* by number: open, the accept operation, CloseAcceptor posted
  connections,  \* connections_
  conn          \* the fields of each connection:
                \*   role      unused, client or server
                \*   open      socket_.is_open()
                \*   op, done  the operation on the socket and its progress
                \*   expires   timer_.expires_at(): unset, future, past or never
                \*   overdue   response_deadline_ has passed
                \*   waits, woken  CheckTimeouts that wait, and that are posted
                \*   left      data_size_ - data_received_, in reads
                \*   immediate timeout_for_response_ == kImmediateTimeout
                \*   dispatch  DispatchMessage is posted
                \*   queue     calls posted to the strand of the connection
                \*   inbox     its calls posted to the strand of the transport
                \*   reads     what the bound leaves
                \*   errors, messages  signals sent

vars == <<alive, listening, acceptors, connections, conn>>

Acceptors == 1 .. MaxListens

-----------------------------------------------------------------------------
(* Timer and socket.                                                       *)

\* expires_at, expires_from_now and cancel abort every waiting CheckTimeout.
SetTimer(c, t) == [c EXCEPT !.expires = t, !.woken = @ + c.waits, !.waits = 0]

\* The timer of a read: the earlier of the response deadline and the stall timeout.
SetReadTimer(c) == SetTimer(c, IF c.overdue THEN "past" ELSE "future")

CloseSocket(c) ==
  [c EXCEPT !.open = FALSE, !.done = IF @ = "pending" THEN "failed" ELSE @]

StartOp(c, o) == [c EXCEPT !.op = o, !.done = "pending"]

-----------------------------------------------------------------------------
(* The members of TcpConnection.                                           *)

DoClose(c) ==
  LET closed == CloseSocket(c)
  IN  [SetTimer(closed, c.expires) EXCEPT !.inbox = IF alive THEN Append(@, "remove") ELSE @]

CloseOnError(c) == DoClose([c EXCEPT !.errors = IF alive THEN @ + 1 ELSE @])

CheckTimeout(c) ==
  IF ~c.open THEN c
  ELSE IF c.expires = "past" THEN CloseSocket(c)
  ELSE [c EXCEPT !.waits = @ + 1]

StartReadSize(c) == SetReadTimer([StartOp(c, "size") EXCEPT !.overdue = FALSE])

StartReadData(c) ==
  SetReadTimer(IF c.left = 0
                 THEN [c EXCEPT !.op = "data", !.done = "ok"]
                 ELSE StartOp(c, "data"))

\* Nothing waits for the timer that is set here.
StartConnect(c) == SetTimer([StartOp(c, "connect") EXCEPT !.open = TRUE], "future")

StartWrite(c) == CheckTimeout(SetTimer(StartOp(c, "write"), "future"))

\* DoStartReceiving and DoStartSending.
DoStart(c) ==
  IF c.role = "server" THEN CheckTimeout(StartReadSize(c)) ELSE StartConnect(c)

Failed(c, ok) == ~c.open \/ ~ok

HandleConnect(c, ok) == IF Failed(c, ok) THEN CloseOnError(c) ELSE StartWrite(c)

\* Faulty variant of HandleReadSize: a failed read closes without a signal.
SilentHandleReadSize(c, ok, size) ==
  LET checked == CheckTimeout(c)
  IN  IF Failed(checked, ok) THEN DoClose(checked)
      ELSE StartReadData([checked EXCEPT !.left = size])

\* size: how many reads the message will take.
HandleReadSize(c, ok, size) ==
  LET checked == CheckTimeout(c)
  IN  IF Failed(checked, ok) THEN CloseOnError(checked)
      ELSE StartReadData([checked EXCEPT !.left = size])

\* Faulty variant of HandleReadData: the timer keeps running during the dispatch.
WrongHandleReadData(c, ok, size) ==
  LET checked == CheckTimeout(c)
      left    == IF c.left = 0 THEN 0 ELSE c.left - 1
  IN  IF Failed(checked, ok) THEN CloseOnError(checked)
      ELSE IF left = 0 THEN [checked EXCEPT !.left = 0, !.dispatch = TRUE]
      ELSE StartReadData([checked EXCEPT !.left = left])

\* The last read posts DispatchMessage, which no timeout applies to.
HandleReadData(c, ok, size) ==
  LET checked == CheckTimeout(c)
      left    == IF c.left = 0 THEN 0 ELSE c.left - 1
  IN  IF Failed(checked, ok) THEN CloseOnError(checked)
      ELSE IF left = 0 THEN SetTimer([checked EXCEPT !.left = 0, !.dispatch = TRUE], "never")
      ELSE StartReadData([checked EXCEPT !.left = left])

HandleWrite(c, ok) ==
  IF Failed(c, ok) THEN CloseOnError(c)
  ELSE IF c.immediate THEN DoClose(c)
  ELSE StartReadSize(c)

\* Outside the strand.  reply: the application gave a response that can be sent.
DispatchMessage(c, reply, immediate) ==
  IF ~alive THEN [c EXCEPT !.dispatch = FALSE]
  ELSE [c EXCEPT !.dispatch = FALSE, !.messages = @ + 1,
                 !.queue = Append(@, IF reply THEN "write" ELSE "close"),
                 !.immediate = IF reply THEN immediate ELSE @]

-----------------------------------------------------------------------------
(* Steps of a connection.                                                  *)

Set(i, c) ==
  /\ conn' = [conn EXCEPT ![i] = c]
  /\ UNCHANGED <<alive, listening, acceptors, connections>>

\* The handler of a finished operation runs.
Handle(i, size) ==
  LET c == [conn[i] EXCEPT !.op = "none", !.done = "none"]
      ok == conn[i].done = "ok"
  IN  /\ conn[i].done \in {"ok", "failed"}
      /\ Set(i, CASE conn[i].op = "connect" -> HandleConnect(c, ok)
                  [] conn[i].op = "size" -> HandleReadSize(c, ok, size)
                  [] conn[i].op = "data" -> HandleReadData(c, ok, size)
                  [] conn[i].op = "write" -> HandleWrite(c, ok))

\* A call that was posted to the strand of the connection.
RunPosted(i) ==
  LET c == [conn[i] EXCEPT !.queue = Tail(@)]
  IN  /\ conn[i].queue # <<>>
      /\ Set(i, CASE Head(conn[i].queue) = "start" -> DoStart(c)
                  [] Head(conn[i].queue) = "write" -> StartWrite(c)
                  [] Head(conn[i].queue) = "close" -> DoClose(c))

Check(i) ==
  /\ conn[i].woken > 0
  /\ Set(i, CheckTimeout([conn[i] EXCEPT !.woken = @ - 1]))

Dispatch(i, reply, immediate) ==
  /\ conn[i].dispatch
  /\ Set(i, DispatchMessage(conn[i], reply, immediate))

\* Time runs out, and with it perhaps the time for the whole response.
Elapse(i, all) ==
  /\ conn[i].expires = "future"
  /\ all => conn[i].op \in {"size", "data"}
  /\ Set(i, [SetTimer(conn[i], "past") EXCEPT !.overdue = @ \/ all])

\* The operating system finishes an operation.
Finish(i, result) ==
  /\ conn[i].done = "pending"
  /\ conn[i].op \in {"size", "data"} /\ result = "ok" => conn[i].reads > 0
  /\ Set(i, [conn[i] EXCEPT !.done = result,
                            !.reads = IF conn[i].op \in {"size", "data"} /\ result = "ok"
                                        THEN @ - 1 ELSE @])

-----------------------------------------------------------------------------
(* The transport.                                                          *)

Fresh(role, immediate) ==
  [role |-> role, open |-> role = "server", op |-> "none", done |-> "none",
   expires |-> "unset", overdue |-> FALSE, waits |-> 0, woken |-> 0, left |-> 0,
   immediate |-> immediate, dispatch |-> FALSE,
   queue |-> IF role = "unused" THEN <<>> ELSE <<"start">>,
   inbox |-> IF role = "client" THEN <<"insert">> ELSE <<>>,
   reads |-> MaxReads, errors |-> 0, messages |-> 0]

\* Only a transport that is still referenced is called.
\* A message above the limit is refused before a connection is made for it.
Send(i, immediate) ==
  /\ alive
  /\ conn[i].role = "unused"
  /\ Set(i, Fresh("client", immediate))

\* DoInsertConnection and DoRemoveConnection, posted to the transport's strand.
UpdateConnections(i) ==
  /\ conn[i].inbox # <<>>
  /\ connections' = IF Head(conn[i].inbox) = "insert"
                      THEN connections \cup {i} ELSE connections \ {i}
  /\ conn' = [conn EXCEPT ![i].inbox = Tail(@)]
  /\ UNCHANGED <<alive, listening, acceptors>>

NoAcceptor == [open |-> FALSE, accept |-> "none", closing |-> FALSE]

\* A call that fails on the way leaves listening_port_ 0 and an acceptor that
\* accepts nothing.
StartListening(a) ==
  /\ alive
  /\ listening = 0
  /\ acceptors[a] = NoAcceptor
  /\ a > 1 => acceptors[a - 1] # NoAcceptor
  /\ listening' = a
  /\ acceptors' = [acceptors EXCEPT ![a] = [open |-> TRUE, accept |-> "pending",
                                            closing |-> FALSE]]
  /\ UNCHANGED <<alive, connections, conn>>

StopListening ==
  /\ alive
  /\ listening # 0
  /\ listening' = 0
  /\ acceptors' = [acceptors EXCEPT ![listening].closing = TRUE]
  /\ UNCHANGED <<alive, connections, conn>>

CloseAcceptor(a) ==
  /\ acceptors[a].closing
  /\ acceptors' = [acceptors EXCEPT
       ![a] = [open |-> FALSE, closing |-> FALSE,
               accept |-> IF @.accept = "pending" THEN "failed" ELSE @.accept]]
  /\ UNCHANGED <<alive, listening, connections, conn>>

\* A peer connects, or the accept fails.
Accept(a, result) ==
  /\ acceptors[a].accept = "pending"
  /\ acceptors' = [acceptors EXCEPT ![a].accept = result]
  /\ UNCHANGED <<alive, listening, connections, conn>>

\* i: the connection object that was kept for the peer.
HandleAccept(a, i) ==
  /\ acceptors[a].accept \in {"ok", "failed"}
  /\ acceptors' = [acceptors EXCEPT
       ![a].accept = IF acceptors[a].open THEN "pending" ELSE "none"]
  /\ IF acceptors[a].open /\ acceptors[a].accept = "ok"
       THEN /\ conn[i].role = "unused"
            /\ connections' = connections \cup {i}
            /\ conn' = [conn EXCEPT ![i] = Fresh("server", FALSE)]
       ELSE UNCHANGED <<connections, conn>>
  /\ UNCHANGED <<alive, listening>>

\* The last reference to the transport goes: no handler of it is left, but
\* connections may be.  They are closed.
Destroy ==
  /\ alive
  /\ listening = 0
  /\ \A a \in Acceptors : ~acceptors[a].closing /\ acceptors[a].accept = "none"
  /\ \A i \in Conns : conn[i].inbox = <<>>
  /\ alive' = FALSE
  /\ connections' = {}
  /\ conn' = [i \in Conns |-> IF i \in connections
                                THEN [conn[i] EXCEPT !.queue = Append(@, "close")]
                                ELSE conn[i]]
  /\ UNCHANGED <<listening, acceptors>>

-----------------------------------------------------------------------------
Init ==
  /\ alive = TRUE
  /\ listening = 0
  /\ acceptors = [a \in Acceptors |-> NoAcceptor]
  /\ connections = {}
  /\ conn = [i \in Conns |-> Fresh("unused", FALSE)]

Posted(i) ==
  \/ \E size \in 0 .. MaxSize : Handle(i, size)
  \/ RunPosted(i)
  \/ Check(i)
  \/ \E reply, immediate \in BOOLEAN : Dispatch(i, reply, immediate)
  \/ UpdateConnections(i)

Next ==
  \/ \E i \in Conns :
       \/ Posted(i)
       \/ \E all \in BOOLEAN : Elapse(i, all)
       \/ \E result \in {"ok", "failed"} : Finish(i, result)
       \/ \E immediate \in BOOLEAN : Send(i, immediate)
  \/ \E a \in Acceptors :
       \/ StartListening(a)
       \/ CloseAcceptor(a)
       \/ \E result \in {"ok", "failed"} : Accept(a, result)
       \/ \E i \in Conns : HandleAccept(a, i)
  \/ StopListening
  \/ Destroy

Spec == Init /\ [][Next]_vars

-----------------------------------------------------------------------------
(* Properties.                                                             *)

\* Type invariant.
TypeOK ==
  /\ alive \in BOOLEAN
  /\ listening \in 0 .. MaxListens
  /\ acceptors \in [Acceptors -> [open : BOOLEAN, accept : {"none", "pending", "ok", "failed"},
                                  closing : BOOLEAN]]
  /\ connections \subseteq Conns
  /\ conn \in [Conns -> [role : {"unused", "client", "server"}, open : BOOLEAN,
                         op : {"none", "connect", "size", "data", "write"},
                         done : {"none", "pending", "ok", "failed"},
                         expires : {"unset", "future", "past", "never"},
                         overdue : BOOLEAN, waits : Nat, woken : Nat,
                         left : 0 .. MaxSize, immediate : BOOLEAN, dispatch : BOOLEAN,
                         queue : Seq({"start", "write", "close"}),
                         inbox : Seq({"insert", "remove"}),
                         reads : 0 .. MaxReads, errors : Nat, messages : Nat]]

\* The assertions of StartReadSize, StartReadData, StartConnect and StartWrite
\* hold whenever these can run: a queued StartWrite never meets a closed socket.
AssertsHold ==
  \A i \in Conns :
    /\ conn[i].queue # <<>> /\ Head(conn[i].queue) = "write" => conn[i].open
    /\ conn[i].queue # <<>> /\ Head(conn[i].queue) = "start" =>
         (conn[i].open <=> conn[i].role = "server")

\* "Timeout not yet reached. Go back to sleep.": while data is read or written
\* some CheckTimeout waits or is about to run, whatever cancelled the earlier ones.
Watched ==
  \A i \in Conns : conn[i].open /\ conn[i].op \in {"size", "data", "write"} =>
                     conn[i].waits + conn[i].woken > 0

Busy(c) == \/ c.op # "none" \/ c.dispatch \/ c.queue # <<>> \/ c.inbox # <<>>
           \/ c.waits + c.woken > 0

\* connections_ holds a connection exactly as long as it has something to do: it
\* neither keeps one that no handler will remove, nor misses one that
\* ~TcpTransport would have to close.
Registered ==
  \A i \in Conns :
    /\ ~Busy(conn[i]) => i \notin connections
    /\ alive /\ conn[i].open =>
         i \in connections \/ \E k \in DOMAIN conn[i].inbox : conn[i].inbox[k] = "insert"

\* As long as the transport listens, an accept is outstanding or its handler will
\* start the next one.
AcceptsAgain ==
  \A a \in Acceptors : acceptors[a].open => acceptors[a].accept # "none"

\* What the transport keeps: no assertion fails, a running transfer is under a
\* timeout, connections_ is neither short nor stale, and an accept is outstanding.
TcpIsKept == TypeOK /\ AssertsHold /\ Watched /\ Registered /\ AcceptsAgain

\* An error is the last thing that a connection signals.
ErrorIsLast ==
  [][\A i \in Conns : conn[i].errors > 0 =>
       conn'[i].errors = conn[i].errors /\ conn'[i].messages = conn[i].messages]_vars

\* Every connection closes in the end, and is forgotten by the transport.
ConnectionEnds(i) ==
  conn[i].role # "unused" ~> [](~conn[i].open /\ i \notin connections)

\* A message that wants a response has an outcome: the response is received or
\* an error is signalled, unless the transport goes first.
OutcomeSignalled(i) ==
  conn[i].role = "client" /\ ~conn[i].immediate ~>
    conn[i].errors > 0 \/ conn[i].messages > 0 \/ ~alive
=============================================================================
