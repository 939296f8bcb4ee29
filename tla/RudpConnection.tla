--------------------------- MODULE RudpConnection ---------------------------
(***************************************************************************)
(* The life of one RudpConnection: connect, exchange messages, close.  Its *)
(* handlers run one at a time on the strand of the transport; each is a    *)
(* function from the connection to the connection that it leaves.  Of the  *)
(* RudpSocket only the asynchronous operations are seen: one is "pending"  *)
(* until the socket completes or aborts it and then "posted" until its     *)
(* handler runs, and its error code is read when the handler runs.         *)
(***************************************************************************)
EXTENDS Integers

CONSTANTS
  MaxSize,     \* bound: reads that one message takes
  MaxSocketReads,    \* bound: reads completed by the socket over a connection
  MaxProgress  \* bound: ticks of one write that find more data sent

ConnectionAssumption ==
  MaxSize \in Nat /\ MaxSocketReads \in Nat /\ MaxProgress \in Nat

\* A read for the size of a message and one for its data have their own handler.
Ops == {"connect", "write", "size", "data", "flush"}

VARIABLE
  conn  \* the fields of the connection and of its socket:
        \*   role           server, client (sends a message) or simple (only connects)
        \*   started        the first handler has run
        \*   attached, orphan  transport_ is set; it was destroyed first
        \*   timeout_state  timeout_state_
        \*   timer, check   timer_, and the CheckTimeout that waits for it
        \*   sock           state of socket_: closed, opening or connected
        \*   op, aborted    its operations, and their error codes
        \*   clean          sender_.Flushed() && receiver_.Flushed()
        \*   remaining      data_size_ - data_received_, in reads
        \*   dispatch       DispatchMessage is posted; then what it asks of the strand
        \*   immediate      timeout_for_response_ == kImmediateTimeout
        \*   reads, progress  what the bounds leave
        \*   errors, messages, called  signals sent: on_error_,
        \*                  on_message_received_, the ConnectFunctor

Stopped(c) == ~c.attached \/ c.sock = "closed"

-----------------------------------------------------------------------------
(* The timer and the socket.                                               *)

\* expires_at, expires_from_now and cancel abort the waiting CheckTimeout.
SetTimer(c, t) ==
  [c EXCEPT !.timer = t, !.check = IF @ = "waiting" THEN "posted" ELSE @]

Complete(c, o) == [c EXCEPT !.op[o] = "posted", !.aborted[o] = FALSE]

\* RudpSocket::Close.
SocketClose(c) ==
  [c EXCEPT !.sock = "closed",
            !.op = [o \in Ops |-> IF @[o] = "pending" THEN "posted" ELSE @[o]],
            !.aborted = [o \in Ops |-> TRUE]]

\* RudpSocket::AsyncFlush completes at once if there is nothing to flush.
AsyncFlush(c) ==
  IF c.clean THEN Complete(c, "flush") ELSE [c EXCEPT !.op["flush"] = "pending"]

-----------------------------------------------------------------------------
(* The members of RudpConnection.                                          *)

\* The first call detaches and flushes, the second tears down.
DoClose(c) ==
  IF c.attached
    THEN SetTimer(AsyncFlush([c EXCEPT !.attached = FALSE]), "running")
    ELSE SetTimer(SocketClose(c), c.timer)

CloseOnError(c) == DoClose([c EXCEPT !.errors = IF c.attached THEN @ + 1 ELSE @])

\* Faulty variant of CheckTimeout: it does not wait again after a timeout.
WrongCheckTimeout(c) ==
  IF c.sock = "closed"
    THEN IF c.timeout_state = "sending" THEN CloseOnError(c) ELSE c
    ELSE IF c.timer = "expired" THEN CloseOnError(c) ELSE [c EXCEPT !.check = "waiting"]

\* Faulty variant of CheckTimeout: a socket that was shut down is no error.
SilentCheckTimeout(c) ==
  IF c.sock = "closed" THEN c
  ELSE [(IF c.timer = "expired" THEN CloseOnError(c) ELSE c) EXCEPT !.check = "waiting"]

CheckTimeout(c) ==
  IF c.sock = "closed"
    THEN IF c.timeout_state = "sending" THEN CloseOnError(c) ELSE c
    ELSE [(IF c.timer = "expired" THEN CloseOnError(c) ELSE c) EXCEPT !.check = "waiting"]

StartReadSize(c) ==
  [SetTimer([c EXCEPT !.op["size"] = "pending"], "running")
     EXCEPT !.timeout_state = "receiving"]

\* A read into an empty buffer completes at once.
StartReadData(c) ==
  IF Stopped(c) THEN CloseOnError(c)
  ELSE IF c.remaining = 0 THEN Complete(c, "data")
  ELSE [c EXCEPT !.op["data"] = "pending"]

StartWrite(c) ==
  IF Stopped(c) THEN CloseOnError(c)
  ELSE [SetTimer([c EXCEPT !.op["write"] = "pending", !.clean = FALSE], "running")
          EXCEPT !.timeout_state = "sending", !.progress = MaxProgress]

\* DoStartReceiving, DoStartSending and DoConnect: StartTick, then connect, then
\* the first CheckTimeout.
DoStart(c) ==
  CheckTimeout(SetTimer([c EXCEPT !.started = TRUE, !.sock = "opening",
                                  !.op["connect"] = "pending",
                                  !.timeout_state = "sending"], "running"))

\* HandleServerConnect, HandleClientConnect and HandleSimpleClientConnect.
HandleConnect(c) ==
  IF Stopped(c) THEN c
  ELSE IF c.role = "simple" THEN [c EXCEPT !.called = ~c.aborted["connect"]]
  ELSE IF c.aborted["connect"] THEN CloseOnError(c)
  ELSE IF c.role = "server" THEN StartReadSize(c)
  ELSE StartWrite(c)

HandleReadSize(c, size) ==
  IF Stopped(c) \/ c.aborted["size"] THEN CloseOnError(c)
  ELSE StartReadData(SetTimer([c EXCEPT !.remaining = size], "running"))

\* n: what arrived, in reads of the message.  After a message of size zero the
\* count of the size read is added and data_received_ passes data_size_.
HandleReadData(c, n, slow) ==
  IF Stopped(c) \/ c.aborted["data"] THEN CloseOnError(c)
  ELSE IF c.remaining - n = 0
    THEN [SetTimer(c, "infinite") EXCEPT !.remaining = 0, !.dispatch = "posted"]
    ELSE LET more == SetTimer([c EXCEPT !.remaining = c.remaining - n], "running")
         IN  StartReadData(IF slow THEN CloseOnError(more) ELSE more)

\* DispatchMessage runs outside the strand and leaves the Close or StartWrite to
\* it.  reply: "none", "small" or "large", above kMaxTransportMessageSize, for
\* which EncodeData closes the connection.
DispatchMessage(c, reply, immediate) ==
  IF ~c.attached THEN [c EXCEPT !.dispatch = "none"]
  ELSE LET told == [c EXCEPT !.messages = @ + 1]
       IN  IF reply = "none" THEN [told EXCEPT !.dispatch = "close"]
           ELSE [(IF reply = "large" THEN CloseOnError(told) ELSE told)
                   EXCEPT !.immediate = immediate, !.dispatch = "write"]

HandleWrite(c) ==
  IF Stopped(c) \/ c.aborted["write"] THEN CloseOnError(c)
  ELSE LET sent == [SetTimer(c, "infinite") EXCEPT !.timeout_state = "none"]
       IN  IF c.immediate THEN DoClose(sent) ELSE StartReadSize(sent)

\* HandleTick: sent tells whether data went out since the last tick.
HandleTick(c, sent, slow) ==
  IF c.timeout_state # "sending" THEN c
  ELSE LET moved == IF sent THEN [SetTimer(c, "running") EXCEPT !.progress = @ - 1] ELSE c
       IN  IF slow THEN CloseOnError(moved) ELSE moved

-----------------------------------------------------------------------------
(* Steps.                                                                  *)

\* A handler that is posted runs.
Ran(o) == [conn EXCEPT !.op[o] = "idle"]

\* StartSending encodes the message before its handler is dispatched: one that
\* is too large is an error, but the handler runs all the same.
Start(large) ==
  /\ ~conn.started
  /\ large => conn.role = "client"
  /\ conn' = DoStart(IF large THEN CloseOnError(conn) ELSE conn)

Connected ==
  /\ conn.op["connect"] = "posted"
  /\ conn' = HandleConnect(Ran("connect"))

SizeRead(size) ==
  /\ conn.op["size"] = "posted"
  /\ conn' = HandleReadSize(Ran("size"), size)

DataRead(n, slow) ==
  /\ conn.op["data"] = "posted"
  /\ conn.remaining > 0 => n <= conn.remaining
  /\ conn' = HandleReadData(Ran("data"), n, slow)

Written ==
  /\ conn.op["write"] = "posted"
  /\ conn' = HandleWrite(Ran("write"))

\* The flush that DoClose started ends in the second DoClose.
Flushed ==
  /\ conn.op["flush"] = "posted"
  /\ conn' = DoClose(Ran("flush"))

Dispatch(reply, immediate) ==
  /\ conn.dispatch = "posted"
  /\ conn' = DispatchMessage(conn, reply, immediate)

Dispatched ==
  /\ conn.dispatch \in {"close", "write"}
  /\ LET c == [conn EXCEPT !.dispatch = "none"]
     IN  conn' = IF conn.dispatch = "close" THEN DoClose(c) ELSE StartWrite(c)

Check ==
  /\ conn.check = "posted" \/ (conn.check = "waiting" /\ conn.timer = "expired")
  /\ conn' = CheckTimeout([conn EXCEPT !.check = "idle"])

\* There is an outstanding tick as long as the socket is open.
Tick(sent, slow) ==
  /\ conn.started /\ conn.sock # "closed"
  /\ sent => conn.progress > 0
  /\ conn' = HandleTick(conn, sent, slow)

\* Time runs out.
Expire ==
  /\ conn.timer = "running"
  /\ conn' = [conn EXCEPT !.timer = "expired"]

\* ~RudpTransport closes its connections.
TransportDestroyed ==
  /\ conn.started /\ conn.attached
  /\ conn' = DoClose([conn EXCEPT !.attached = FALSE, !.orphan = TRUE])

-----------------------------------------------------------------------------
(* What the socket does by itself.                                         *)

\* RudpSocket::HandleHandshake connects; the receiver starts anew.
SocketConnects ==
  /\ conn.sock = "opening"
  /\ conn' = [Complete(conn, "connect") EXCEPT !.sock = "connected", !.clean = TRUE]

\* RudpSocket::ProcessWrite and ProcessRead complete an operation.
SocketCompletes(o) ==
  /\ conn.sock = "connected"
  /\ conn.op[o] = "pending"
  /\ o # "write" => conn.reads > 0
  /\ conn' = [Complete(conn, o) EXCEPT !.reads = IF o = "write" THEN @ ELSE @ - 1]

\* Packets and acknowledgements come and go; RudpSocket::ProcessFlush completes
\* a waiting flush once everything is acknowledged.
SocketFlushes(clean) ==
  /\ conn.sock = "connected"
  /\ clean => conn.op["write"] # "pending"
  /\ LET c == [conn EXCEPT !.clean = clean]
     IN  conn' = IF clean /\ conn.op["flush"] = "pending" THEN Complete(c, "flush") ELSE c

\* A shutdown packet closes the socket.
PeerShutdown ==
  /\ conn.sock # "closed"
  /\ conn' = SocketClose(conn)

-----------------------------------------------------------------------------
ConnectionInit ==
  \E role \in {"server", "client", "simple"}, immediate \in BOOLEAN :
    conn = [role |-> role, started |-> FALSE, attached |-> TRUE, orphan |-> FALSE,
            timeout_state |-> "none", timer |-> "infinite", check |-> "idle",
            sock |-> "closed", op |-> [o \in Ops |-> "idle"],
            aborted |-> [o \in Ops |-> FALSE], clean |-> FALSE,
            remaining |-> 0, dispatch |-> "none", immediate |-> immediate,
            reads |-> MaxSocketReads, progress |-> 0,
            errors |-> 0, messages |-> 0, called |-> FALSE]

Replies == {"none", "small", "large"}

Handlers ==
  \/ \E large \in BOOLEAN : Start(large)
  \/ Connected
  \/ \E size \in 0 .. MaxSize : SizeRead(size)
  \/ \E n \in 1 .. MaxSize, slow \in BOOLEAN : DataRead(n, slow)
  \/ Written
  \/ Flushed
  \/ \E reply \in Replies, immediate \in BOOLEAN : Dispatch(reply, immediate)
  \/ Dispatched
  \/ Check

ConnectionNext ==
  \/ Handlers
  \/ \E sent, slow \in BOOLEAN : Tick(sent, slow)
  \/ Expire
  \/ TransportDestroyed
  \/ SocketConnects
  \/ \E o \in {"write", "size", "data"} : SocketCompletes(o)
  \/ \E clean \in BOOLEAN : SocketFlushes(clean)
  \/ PeerShutdown

ConnectionSpec == ConnectionInit /\ [][ConnectionNext]_conn

-----------------------------------------------------------------------------
(* Properties.                                                             *)

\* Type invariant.
ConnectionTypeOK ==
  conn \in [role : {"server", "client", "simple"}, started : BOOLEAN,
           attached : BOOLEAN, orphan : BOOLEAN,
           timeout_state : {"none", "sending", "receiving"},
           timer : {"running", "expired", "infinite"},
           check : {"idle", "waiting", "posted"},
           sock : {"closed", "opening", "connected"},
           op : [Ops -> {"idle", "pending", "posted"}],
           aborted : [Ops -> BOOLEAN], clean : BOOLEAN,
           remaining : -MaxSize * MaxSocketReads - MaxSize .. MaxSize,
           dispatch : {"none", "posted", "close", "write"},
           immediate : BOOLEAN, reads : 0 .. MaxSocketReads, progress : 0 .. MaxProgress,
           errors : 0 .. 1, messages : Nat, called : BOOLEAN]

\* "Keep processing timeouts until the socket is completely closed": an open
\* socket is always under a timeout, except while its message is dispatched.
Watched ==
  conn.sock # "closed" =>
    /\ conn.check # "idle"
    /\ conn.timer = "infinite" => conn.dispatch # "none"

\* RudpSocket "allows only one outstanding asynchronous read operation at a
\* time": the connection never has two, and it has no operation that would
\* change buffer_ while the message in it is being dispatched.
OneAtATime ==
  /\ conn.op["size"] = "idle" \/ conn.op["data"] = "idle"
  /\ conn.dispatch # "none" => \A o \in {"size", "data", "write"} : conn.op[o] = "idle"

\* An open socket of a RudpConnection is always under a timeout, except while its
\* message is dispatched (CheckTimeout); then, and while it reads, no other read
\* is outstanding that would change buffer_.
ConnectionIsWatched == ConnectionTypeOK /\ Watched /\ OneAtATime

\* After it has detached, a connection signals nothing to the transport, and an
\* error is the last thing that it signals.
SignalsEnd ==
  [][~conn.attached =>
       /\ conn'.errors = conn.errors
       /\ conn'.messages = conn.messages
       /\ ~conn'.attached]_conn

\* Whatever the peer does or does not do, the socket closes in the end and
\* leaves the dispatcher.
SocketCloses == conn.started ~> [](conn.sock = "closed")

\* A message that wants a response has an outcome: the response is received or
\* an error is signalled, unless the transport goes first.
OutcomeSignalled ==
  conn.started /\ conn.role = "client" /\ ~conn.immediate ~>
    conn.errors > 0 \/ conn.messages > 0 \/ conn.orphan
=============================================================================
