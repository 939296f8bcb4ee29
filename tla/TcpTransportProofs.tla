------------------------- MODULE TcpTransportProofs -------------------------
(***************************************************************************)
(* Proofs about TcpTransport for every set of connections and all bounds.  *)
(* Each handler is shown to lead from a connection that took its turn to a *)
(* sound one, then each step to keep all connections sound.                *)
(***************************************************************************)
EXTENDS TcpTransport, TLAPS

\* What is posted to the strand of a connection: DoStartReceiving or
\* DoStartSending, StartWrite, DoClose.
Calls == {"start", "write", "close"}
\* What is posted to the strand of the transport: DoInsertConnection,
\* DoRemoveConnection.
Updates == {"insert", "remove"}

\* The fields of a connection.
ConnStates == [role : {"unused", "client", "server"}, open : BOOLEAN,
               op : {"none", "connect", "size", "data", "write"},
               done : {"none", "pending", "ok", "failed"},
               expires : {"unset", "future", "past", "never"},
               overdue : BOOLEAN, waits : Nat, woken : Nat,
               left : 0 .. MaxSize, immediate : BOOLEAN, dispatch : BOOLEAN,
               queue : Seq(Calls), inbox : Seq(Updates),
               reads : 0 .. MaxReads, errors : Nat, messages : Nat]

\* Something of the connection will run that is not a timeout.
Active(c) == c.op # "none" \/ c.dispatch \/ c.queue # <<>>

\* Only ~TcpTransport posts a call to a connection that is busy: a "close".
OnlyClose(q, live) == Len(q) <= 1 /\ (q # <<>> => q[1] = "close" /\ ~live)

\* One thing at a time: an operation, a dispatch or a posted call.
InTurn(c, live) ==
  /\ c.op = "none" <=> c.done = "none"
  /\ c.op # "none" => ~c.dispatch
  /\ c.op # "none" \/ c.dispatch => OnlyClose(c.queue, live)
  /\ Len(c.queue) <= 2
  /\ Len(c.queue) = 2 => c.queue[2] = "close" /\ ~live

\* The socket stays open, and no timeout runs, until the posted StartWrite.
Prepared(c, live) ==
  /\ c.dispatch => c.expires = "never" /\ (live => c.open)
  /\ c.queue # <<>> /\ c.queue[1] = "write" => c.open /\ c.expires = "never"
  /\ c.queue # <<>> /\ c.queue[1] = "start" =>
       (c.open <=> c.role = "server") /\ c.expires = "unset"

\* A transfer is under a timeout.
Timed(c) == c.open /\ c.op \in {"size", "data", "write"} => c.waits + c.woken > 0

\* A connection of a living transport that is done is closed and stays so.
Finishes(c, live) ==
  /\ live /\ c.open => Active(c)
  /\ live /\ c.errors > 0 => ~Active(c)
  /\ c.role = "unused" => c = Fresh("unused", FALSE)

\* Once the posted updates have run, connections_ has the connection exactly if
\* it is active.
Listed(c, live, member) ==
  /\ ~live => c.inbox = <<>> /\ ~member
  /\ live /\ Active(c) => \/ c.inbox = <<>> /\ member
                          \/ Len(c.inbox) = 1 /\ c.inbox[1] = "insert"
  /\ live /\ ~Active(c) => \/ c.inbox = <<>> /\ ~member
                           \/ c.inbox # <<>> /\ c.inbox[Len(c.inbox)] = "remove"

\* What holds of a connection between any two steps.
Sound(c, live, member) ==
  /\ c \in ConnStates
  /\ InTurn(c, live) /\ Prepared(c, live) /\ Timed(c) /\ Finishes(c, live)
  /\ Listed(c, live, member)

\* A transport that was destroyed has left no acceptor at work.
AcceptorInv == AcceptsAgain /\ (~alive => \A a \in Acceptors : acceptors[a].accept = "none")

\* The inductive invariant.
IInv == TypeOK /\ AcceptorInv /\ \A i \in Conns : Sound(conn[i], alive, i \in connections)

-----------------------------------------------------------------------------
(* Helpers.                                                                *)

\* The fields that timers and the socket do not touch.
Same(c, d) ==
  /\ d.role = c.role /\ d.op = c.op /\ d.left = c.left /\ d.dispatch = c.dispatch
  /\ d.queue = c.queue /\ d.inbox = c.inbox /\ d.errors = c.errors /\ d.messages = c.messages
  /\ d.immediate = c.immediate

\* Setting timer_ wakes the CheckTimeouts that wait and loses none.
LEMMA SetTimerKeeps ==
  ASSUME NEW c \in ConnStates, NEW t \in {"unset", "future", "past", "never"}
  PROVE  /\ SetTimer(c, t) \in ConnStates /\ Same(c, SetTimer(c, t))
         /\ SetTimer(c, t).open = c.open /\ SetTimer(c, t).done = c.done
         /\ SetTimer(c, t).overdue = c.overdue /\ SetTimer(c, t).expires = t
         /\ SetTimer(c, t).waits + SetTimer(c, t).woken = c.waits + c.woken
<1> DEFINE w == c.woken + c.waits
           d == [c EXCEPT !.expires = t, !.woken = w, !.waits = 0]
<1>1. w \in Nat /\ w = c.waits + c.woken
  BY DEF ConnStates
<1>2. SetTimer(c, t) = d
  BY DEF SetTimer
<1> HIDE DEF w
<1>3. d \in ConnStates
  BY ZenonT(60), <1>1 DEF ConnStates
<1>4. /\ Same(c, d) /\ d.open = c.open /\ d.done = c.done /\ d.overdue = c.overdue
      /\ d.expires = t /\ d.waits = 0 /\ d.woken = w
  BY DEF ConnStates, Same
<1> HIDE DEF d
<1>. QED BY <1>1, <1>2, <1>3, <1>4

\* So does setting it to the earlier of the two deadlines of a read.
LEMMA SetReadTimerKeeps ==
  ASSUME NEW c \in ConnStates
  PROVE  /\ SetReadTimer(c) \in ConnStates /\ Same(c, SetReadTimer(c))
         /\ SetReadTimer(c).open = c.open /\ SetReadTimer(c).done = c.done
         /\ SetReadTimer(c).expires = (IF c.overdue THEN "past" ELSE "future")
         /\ SetReadTimer(c).waits + SetReadTimer(c).woken = c.waits + c.woken
BY SetTimerKeeps DEF SetReadTimer

\* Closing the socket makes the operation on it fail; its handler still runs.
LEMMA CloseSocketKeeps ==
  ASSUME NEW c \in ConnStates
  PROVE  /\ CloseSocket(c) \in ConnStates /\ Same(c, CloseSocket(c))
         /\ ~CloseSocket(c).open /\ (CloseSocket(c).done = "none" <=> c.done = "none")
         /\ CloseSocket(c).expires = c.expires
         /\ CloseSocket(c).waits + CloseSocket(c).woken = c.waits + c.woken
<1> DEFINE s == IF c.done = "pending" THEN "failed" ELSE c.done
<1>1. s \in {"none", "pending", "ok", "failed"} /\ (s = "none" <=> c.done = "none")
  BY DEF ConnStates
<1>2. CloseSocket(c) = [c EXCEPT !.open = FALSE, !.done = s]
  BY DEF CloseSocket
<1> HIDE DEF s
<1>. QED BY ZenonT(60), <1>1, <1>2 DEF ConnStates, Same

\* A CheckTimeout that leaves the socket open waits again.
LEMMA CheckTimeoutKeeps ==
  ASSUME NEW c \in ConnStates
  PROVE  /\ CheckTimeout(c) \in ConnStates /\ Same(c, CheckTimeout(c))
         /\ CheckTimeout(c).done = "none" <=> c.done = "none"
         /\ CheckTimeout(c).expires = c.expires
         /\ CheckTimeout(c).open <=> c.open /\ c.expires # "past"
         /\ CheckTimeout(c).open => CheckTimeout(c).waits + CheckTimeout(c).woken > 0
<1>1. CASE ~c.open
  BY <1>1 DEF CheckTimeout, Same
<1>2. CASE c.open /\ c.expires = "past"
  BY <1>2, CloseSocketKeeps DEF CheckTimeout
<1>3. CASE c.open /\ c.expires # "past"
  <2> DEFINE w == c.waits + 1
             d == [c EXCEPT !.waits = w]
  <2>1. CheckTimeout(c) = d
    BY <1>3 DEF CheckTimeout
  <2>2. w \in Nat /\ w > 0 /\ c.woken \in Nat
    BY DEF ConnStates
  <2> HIDE DEF w
  <2>3. d \in ConnStates
    BY Zenon, <2>2 DEF ConnStates
  <2>4. /\ Same(c, d) /\ d.open = c.open /\ d.done = c.done /\ d.expires = c.expires
        /\ d.waits = w /\ d.woken = c.woken
    BY DEF ConnStates, Same
  <2> HIDE DEF d
  <2>. QED BY <1>3, <2>1, <2>2, <2>3, <2>4
<1>. QED BY <1>1, <1>2, <1>3 DEF ConnStates

-----------------------------------------------------------------------------
(* A handler that is running: it has taken its turn.                       *)

\* A handler of the connection is running and has taken its turn: nothing of
\* the connection is outstanding but the DoClose of ~TcpTransport, and
\* connections_ has it or will.
Running(c, member) ==
  /\ c \in ConnStates /\ c.op = "none" /\ c.done = "none" /\ ~c.dispatch
  /\ OnlyClose(c.queue, alive) /\ c.role # "unused"
  /\ ~alive => c.inbox = <<>> /\ ~member
  /\ alive => \/ c.inbox = <<>> /\ member
              \/ Len(c.inbox) = 1 /\ c.inbox[1] = "insert"

\* Nothing is signalled once the transport has gone.
Quiet(c, d) == ~alive => d.errors = c.errors /\ d.messages = c.messages

\* A handler that ran leads from c to d.
Leads(c, d, member) == Sound(d, alive, member) /\ Quiet(c, d)

\* A handler that starts an operation under a timeout, with nothing else
\* outstanding, leaves a sound connection.
LEMMA OpStarts ==
  ASSUME NEW member \in BOOLEAN, NEW c, Running(c, member), alive \in BOOLEAN,
         NEW d \in ConnStates, alive => d.errors = 0,
         d.op # "none", d.done # "none", ~d.dispatch, d.queue = c.queue, d.inbox = c.inbox,
         d.errors = c.errors, d.messages = c.messages, d.role = c.role, Timed(d)
  PROVE  Leads(c, d, member)
<1>1. InTurn(d, alive)
  BY SMTT(30) DEF Running, InTurn, OnlyClose, ConnStates
<1>2. Prepared(d, alive)
  BY Zenon DEF Running, Prepared, OnlyClose, ConnStates
<1>3. Finishes(d, alive)
  <2>1. Active(d) /\ d.role # "unused" /\ (alive => ~(d.errors > 0))
    BY DEF Running, Active
  <2>. QED BY Zenon, <2>1 DEF Finishes
<1>4. Listed(d, alive, member)
  BY DEF Running, Listed, Active
<1>. QED BY <1>1, <1>2, <1>3, <1>4 DEF Leads, Sound, Quiet

\* So does the one that posts DispatchMessage, with an infinite timer.
LEMMA DispatchStarts ==
  ASSUME NEW member \in BOOLEAN, NEW c, Running(c, member), alive \in BOOLEAN,
         NEW d \in ConnStates, alive => d.errors = 0,
         d.op = "none", d.done = "none", d.dispatch, d.queue = c.queue, d.inbox = c.inbox,
         d.errors = c.errors, d.messages = c.messages, d.role = c.role, d.open,
         d.expires = "never"
  PROVE  Leads(c, d, member)
<1>1. InTurn(d, alive)
  <2>1. OnlyClose(d.queue, alive)
    BY DEF Running
  <2> DEFINE n == Len(d.queue)
  <2>2. n \in Nat /\ n <= 1
    BY <2>1 DEF OnlyClose, ConnStates
  <2>3. n <= 2 /\ n # 2
    <3> HIDE DEF n
    <3>. QED BY <2>2
  <2>. QED BY <2>1, <2>3 DEF InTurn
<1>2. Prepared(d, alive)
  BY Zenon DEF Running, Prepared, OnlyClose, ConnStates
<1>3. Finishes(d, alive)
  <2>1. Active(d) /\ d.role # "unused" /\ (alive => ~(d.errors > 0))
    BY DEF Running, Active
  <2>. QED BY Zenon, <2>1 DEF Finishes
<1>4. Listed(d, alive, member) /\ Timed(d)
  BY DEF Running, Listed, Active, Timed
<1>. QED BY <1>1, <1>2, <1>3, <1>4 DEF Leads, Sound, Quiet

\* DoClose closes the socket and asks the transport, if there still is one, to
\* remove the connection.
LEMMA DoCloseKeeps ==
  ASSUME NEW c \in ConnStates, alive \in BOOLEAN
  PROVE  LET d == DoClose(c)
         IN  /\ d \in ConnStates /\ ~d.open /\ (d.done = "none" <=> c.done = "none")
             /\ d.role = c.role /\ d.op = c.op /\ d.dispatch = c.dispatch /\ d.queue = c.queue
             /\ d.errors = c.errors /\ d.messages = c.messages /\ d.expires = c.expires
             /\ d.inbox = IF alive THEN Append(c.inbox, "remove") ELSE c.inbox
<1> DEFINE b == SetTimer(CloseSocket(c), c.expires)
           box == IF alive THEN Append(b.inbox, "remove") ELSE b.inbox
           d == [b EXCEPT !.inbox = box]
<1>1. DoClose(c) = d
  BY DEF DoClose
<1>2. c.expires \in {"unset", "future", "past", "never"}
  BY DEF ConnStates
<1>3. /\ b \in ConnStates /\ Same(c, b) /\ ~b.open /\ (b.done = "none" <=> c.done = "none")
      /\ b.expires = c.expires
  BY <1>2, CloseSocketKeeps, SetTimerKeeps DEF Same
<1> HIDE DEF b
<1>4. box \in Seq(Updates)
  BY <1>3 DEF ConnStates, Updates
<1>5. box = IF alive THEN Append(c.inbox, "remove") ELSE c.inbox
  BY <1>3 DEF Same
<1> HIDE DEF box
<1>6. d \in ConnStates
  BY Zenon, <1>3, <1>4 DEF ConnStates
<1>7. /\ d.inbox = box /\ d.open = b.open /\ d.done = b.done /\ d.role = b.role /\ d.op = b.op
      /\ d.dispatch = b.dispatch /\ d.queue = b.queue /\ d.errors = b.errors
      /\ d.messages = b.messages /\ d.expires = b.expires
  BY <1>3 DEF ConnStates
<1> HIDE DEF d
<1>. QED BY <1>1, <1>3, <1>5, <1>6, <1>7 DEF Same

\* DoClose ends a connection that has nothing else outstanding: it is inactive,
\* and a DoRemoveConnection is the last update.
LEMMA DoCloseLeads ==
  ASSUME NEW member \in BOOLEAN, alive \in BOOLEAN, NEW c, Running(c, member)
  PROVE  Leads(c, DoClose(c), member)
<1> DEFINE d == DoClose(c)
<1>1. /\ d \in ConnStates /\ ~d.open /\ (d.done = "none" <=> c.done = "none")
      /\ d.role = c.role /\ d.op = c.op /\ d.dispatch = c.dispatch /\ d.queue = c.queue
      /\ d.errors = c.errors /\ d.messages = c.messages
      /\ d.inbox = IF alive THEN Append(c.inbox, "remove") ELSE c.inbox
  BY DoCloseKeeps DEF Running
<1> HIDE DEF d
<1>2. alive => d.inbox # <<>> /\ d.inbox[Len(d.inbox)] = "remove"
  <2>1. c.inbox \in Seq(Updates)
    BY DEF Running, ConnStates
  <2>. QED BY <1>1, <2>1 DEF Updates
<1>3. InTurn(d, alive)
  <2>1. /\ d.op = "none" /\ d.done = "none" /\ ~d.dispatch
        /\ Len(d.queue) \in Nat /\ Len(d.queue) <= 1
    BY <1>1 DEF Running, OnlyClose, ConnStates
  <2>. QED BY <2>1 DEF InTurn
<1>4. Prepared(d, alive)
  BY <1>1 DEF Running, Prepared, OnlyClose
<1>5. alive => ~Active(d)
  BY <1>1 DEF Running, Active, OnlyClose
<1>6. Finishes(d, alive)
  <2>1. d.role # "unused"
    BY <1>1 DEF Running
  <2>. QED BY Zenon, <1>1, <1>5, <2>1 DEF Finishes
<1>7. Listed(d, alive, member) /\ Timed(d)
  BY <1>1, <1>2, <1>5 DEF Running, Listed, Timed
<1>. QED BY <1>1, <1>3, <1>4, <1>6, <1>7 DEF Leads, Sound, Quiet, d

\* CloseOnError does so too, and signals only if the transport lives.
LEMMA CloseOnErrorLeads ==
  ASSUME NEW member \in BOOLEAN, alive \in BOOLEAN, NEW c, Running(c, member)
  PROVE  Leads(c, CloseOnError(c), member)
<1> DEFINE e == IF alive THEN c.errors + 1 ELSE c.errors
           d == [c EXCEPT !.errors = e]
<1>1. CloseOnError(c) = DoClose(d)
  BY DEF CloseOnError
<1>2. e \in Nat /\ (~alive => e = c.errors)
  BY DEF Running, ConnStates
<1> HIDE DEF e
<1>3. d \in ConnStates
  BY Zenon, <1>2 DEF Running, ConnStates
<1>4. /\ d.op = c.op /\ d.done = c.done /\ d.dispatch = c.dispatch /\ d.queue = c.queue
      /\ d.role = c.role /\ d.inbox = c.inbox /\ d.messages = c.messages /\ d.errors = e
  BY DEF Running, ConnStates
<1> HIDE DEF d
<1>5. Running(d, member) /\ Quiet(c, d)
  BY <1>2, <1>3, <1>4 DEF Running, Quiet
<1>. QED BY <1>1, <1>5, DoCloseLeads DEF Leads, Quiet

-----------------------------------------------------------------------------
(* Handlers that start an operation.                                       *)

\* No error has been signalled: a handler runs before any error, and only then.
Fit(c, member) == Running(c, member) /\ (alive => c.errors = 0)

\* d has an operation started and is otherwise like c.
Begins(c, d) ==
  /\ d \in ConnStates /\ d.op # "none" /\ d.done # "none" /\ ~d.dispatch
  /\ d.queue = c.queue /\ d.inbox = c.inbox /\ d.errors = c.errors
  /\ d.messages = c.messages /\ d.role = c.role

\* An operation that has begun under a timeout leaves a sound connection.
LEMMA BeginsLeads ==
  ASSUME NEW member \in BOOLEAN, alive \in BOOLEAN, NEW c, Fit(c, member),
         NEW d, Begins(c, d), Timed(d)
  PROVE  Leads(c, d, member)
BY OpStarts DEF Fit, Begins

\* The timer may be set after the operation was started.
LEMMA BeginsTimed ==
  ASSUME NEW c, NEW d, Begins(c, d), NEW t \in {"unset", "future", "past", "never"}
  PROVE  /\ Begins(c, SetTimer(d, t)) /\ SetTimer(d, t).open = d.open
         /\ SetTimer(d, t).waits + SetTimer(d, t).woken = d.waits + d.woken
         /\ SetTimer(d, t).op = d.op
BY SetTimerKeeps DEF Begins, Same

\* A CheckTimeout that follows puts the operation under a timeout.
LEMMA BeginsChecked ==
  ASSUME NEW c, NEW d, Begins(c, d)
  PROVE  Begins(c, CheckTimeout(d)) /\ Timed(CheckTimeout(d))
BY CheckTimeoutKeeps DEF Begins, Same, Timed

\* An asynchronous call on the socket.
Operation(c, o, done, open, overdue) ==
  [c EXCEPT !.op = o, !.done = done, !.open = open, !.overdue = overdue]

\* Such a call begins an operation.
LEMMA OpBegins ==
  ASSUME NEW c \in ConnStates, ~c.dispatch, NEW o \in {"connect", "size", "data", "write"},
         NEW done \in {"pending", "ok"}, NEW open \in BOOLEAN, NEW overdue \in BOOLEAN
  PROVE  /\ Begins(c, Operation(c, o, done, open, overdue))
         /\ Operation(c, o, done, open, overdue).op = o
         /\ Operation(c, o, done, open, overdue).open = open
         /\ Operation(c, o, done, open, overdue).waits +
              Operation(c, o, done, open, overdue).woken = c.waits + c.woken
<1> DEFINE d == Operation(c, o, done, open, overdue)
<1>1. d \in ConnStates
  BY Zenon DEF ConnStates, Operation
<1>2. /\ d.op = o /\ d.done = done /\ d.open = open
      /\ d.dispatch = c.dispatch /\ d.queue = c.queue /\ d.role = c.role
      /\ d.inbox = c.inbox /\ d.errors = c.errors /\ d.messages = c.messages
      /\ d.waits = c.waits /\ d.woken = c.woken
  BY DEF ConnStates, Operation
<1> HIDE DEF d
<1>3. Begins(c, d) /\ d.op = o /\ d.open = open /\ d.waits + d.woken = c.waits + c.woken
  BY <1>1, <1>2 DEF Begins
<1>. QED BY <1>3 DEF d

\* StartReadSize begins a read and relies on the CheckTimeouts there are.
LEMMA StartReadSizeBegins ==
  ASSUME NEW c \in ConnStates, ~c.dispatch
  PROVE  /\ Begins(c, StartReadSize(c)) /\ StartReadSize(c).open = c.open
         /\ StartReadSize(c).waits + StartReadSize(c).woken = c.waits + c.woken
<1> DEFINE no == FALSE
           e == Operation(c, "size", "pending", c.open, no)
<1>1. e = [StartOp(c, "size") EXCEPT !.overdue = FALSE]
  BY Zenon DEF StartOp, ConnStates, Operation
<1>2. c.open \in BOOLEAN /\ no \in BOOLEAN
  BY DEF ConnStates
<1> HIDE DEF no
<1>3. Begins(c, e) /\ e.open = c.open /\ e.waits + e.woken = c.waits + c.woken
  BY <1>2, OpBegins
<1> HIDE DEF e
<1> DEFINE t == IF e.overdue THEN "past" ELSE "future"
<1>4. StartReadSize(c) = SetTimer(e, t)
  BY <1>1 DEF StartReadSize, SetReadTimer
<1>5. t \in {"unset", "future", "past", "never"}
  OBVIOUS
<1> HIDE DEF t
<1>. QED BY <1>3, <1>4, <1>5, BeginsTimed

\* StartReadData begins a read and relies on the CheckTimeouts there are.
LEMMA StartReadDataBegins ==
  ASSUME NEW c \in ConnStates, ~c.dispatch
  PROVE  /\ Begins(c, StartReadData(c)) /\ StartReadData(c).open = c.open
         /\ StartReadData(c).waits + StartReadData(c).woken = c.waits + c.woken
<1> DEFINE done == IF c.left = 0 THEN "ok" ELSE "pending"
           e == Operation(c, "data", done, c.open, c.overdue)
<1>1. e = IF c.left = 0 THEN [c EXCEPT !.op = "data", !.done = "ok"] ELSE StartOp(c, "data")
  BY Zenon DEF StartOp, ConnStates, Operation
<1>2. c.open \in BOOLEAN /\ c.overdue \in BOOLEAN /\ done \in {"pending", "ok"}
  BY DEF ConnStates
<1> HIDE DEF done
<1>3. Begins(c, e) /\ e.open = c.open /\ e.waits + e.woken = c.waits + c.woken
  BY <1>2, OpBegins
<1> HIDE DEF e
<1> DEFINE t == IF e.overdue THEN "past" ELSE "future"
<1>4. StartReadData(c) = SetTimer(e, t)
  BY <1>1 DEF StartReadData, SetReadTimer
<1>5. t \in {"unset", "future", "past", "never"}
  OBVIOUS
<1> HIDE DEF t
<1>. QED BY <1>3, <1>4, <1>5, BeginsTimed

\* StartWrite begins a write and makes a CheckTimeout wait for it.
LEMMA StartWriteLeads ==
  ASSUME NEW member \in BOOLEAN, alive \in BOOLEAN, NEW c, Fit(c, member)
  PROVE  Leads(c, StartWrite(c), member)
<1> DEFINE e == Operation(c, "write", "pending", c.open, c.overdue)
<1>0. c \in ConnStates /\ ~c.dispatch
  BY DEF Fit, Running
<1>1. e = StartOp(c, "write")
  BY Zenon, <1>0 DEF StartOp, ConnStates, Operation
<1>2. c.open \in BOOLEAN /\ c.overdue \in BOOLEAN
  BY <1>0 DEF ConnStates
<1>3. Begins(c, e)
  BY <1>0, <1>2, OpBegins
<1> HIDE DEF e
<1>4. Begins(c, SetTimer(e, "future"))
  BY <1>3, BeginsTimed
<1>. QED BY <1>1, <1>4, BeginsChecked, BeginsLeads DEF StartWrite

\* DoStartReceiving begins a read under a timeout, DoStartSending a connect.
LEMMA DoStartLeads ==
  ASSUME NEW member \in BOOLEAN, alive \in BOOLEAN, NEW c, Fit(c, member)
  PROVE  Leads(c, DoStart(c), member)
<1>0. c \in ConnStates /\ ~c.dispatch
  BY DEF Fit, Running
<1>1. CASE c.role = "server"
  BY <1>0, <1>1, StartReadSizeBegins, BeginsChecked, BeginsLeads DEF DoStart
<1>2. CASE c.role # "server"
  <2> DEFINE yes == TRUE
             e == Operation(c, "connect", "pending", yes, c.overdue)
  <2>1. e = [StartOp(c, "connect") EXCEPT !.open = TRUE]
    BY Zenon, <1>0 DEF StartOp, ConnStates, Operation
  <2>2. c.overdue \in BOOLEAN /\ yes \in BOOLEAN
    BY <1>0 DEF ConnStates
  <2> HIDE DEF yes
  <2>3. Begins(c, e) /\ e.op = "connect"
    BY <1>0, <2>2, OpBegins
  <2> HIDE DEF e
  <2>4. Begins(c, SetTimer(e, "future")) /\ SetTimer(e, "future").op = "connect"
    BY <2>3, BeginsTimed
  <2>5. Timed(SetTimer(e, "future"))
    BY <2>4 DEF Timed
  <2>. QED BY <1>2, <2>1, <2>4, <2>5, BeginsLeads DEF DoStart, StartConnect
<1>. QED BY <1>1, <1>2

\* The CheckTimeout at the start of HandleReadSize and HandleReadData waits
\* again or closes the socket, and nothing else.
LEMMA CheckedIsFit ==
  ASSUME NEW member \in BOOLEAN, alive \in BOOLEAN, NEW c, Fit(c, member)
  PROVE  /\ Fit(CheckTimeout(c), member) /\ Quiet(c, CheckTimeout(c))
         /\ CheckTimeout(c).open => CheckTimeout(c).waits + CheckTimeout(c).woken > 0
<1> DEFINE d == CheckTimeout(c)
<1>1. /\ d \in ConnStates /\ Same(c, d) /\ (d.done = "none" <=> c.done = "none")
      /\ d.open => d.waits + d.woken > 0
  BY CheckTimeoutKeeps DEF Fit, Running
<1> HIDE DEF d
<1>2. Fit(d, member) /\ Quiet(c, d)
  BY <1>1 DEF Fit, Running, Same, Quiet
<1>. QED BY <1>1, <1>2 DEF d

\* data_size_ - data_received_ becomes n.
Remaining(c, n) == [c EXCEPT !.left = n]

\* Going on with a read under a timeout leaves a sound connection.
LEMMA RemainingIsFit ==
  ASSUME NEW member \in BOOLEAN, alive \in BOOLEAN, NEW c, Fit(c, member),
         NEW n \in 0 .. MaxSize, c.open => c.waits + c.woken > 0
  PROVE  Leads(c, StartReadData(Remaining(c, n)), member)
<1> DEFINE d == Remaining(c, n)
<1>0. c \in ConnStates
  BY DEF Fit, Running
<1>1. /\ d \in ConnStates /\ d.role = c.role /\ d.op = c.op /\ d.done = c.done
      /\ d.dispatch = c.dispatch /\ d.queue = c.queue /\ d.inbox = c.inbox
      /\ d.errors = c.errors /\ d.messages = c.messages /\ d.open = c.open
      /\ d.waits = c.waits /\ d.woken = c.woken
  BY Zenon, <1>0 DEF ConnStates, Remaining
<1> HIDE DEF d
<1>2. Fit(d, member) /\ Quiet(c, d) /\ ~d.dispatch
  BY <1>1 DEF Fit, Running, Quiet
<1> DEFINE e == StartReadData(d)
<1>3. Begins(d, e) /\ e.open = d.open /\ e.waits + e.woken = d.waits + d.woken
  BY <1>1, <1>2, StartReadDataBegins
<1> HIDE DEF e
<1>4. Timed(e)
  BY <1>1, <1>3 DEF Timed
<1>5. Leads(d, e, member)
  BY <1>2, <1>3, <1>4, BeginsLeads
<1>. QED BY <1>2, <1>5 DEF Leads, Quiet, d, e

\* HandleConnect leaves a sound connection.
LEMMA HandleConnectLeads ==
  ASSUME NEW member \in BOOLEAN, alive \in BOOLEAN, NEW c, Fit(c, member), NEW ok
  PROVE  Leads(c, HandleConnect(c, ok), member)
BY CloseOnErrorLeads, StartWriteLeads DEF HandleConnect, Fit

\* HandleReadSize leaves a sound connection for every size that is read.
LEMMA HandleReadSizeLeads ==
  ASSUME NEW member \in BOOLEAN, alive \in BOOLEAN, NEW c, Fit(c, member), NEW ok,
         NEW size \in 0 .. MaxSize
  PROVE  Leads(c, HandleReadSize(c, ok, size), member)
<1> DEFINE b == CheckTimeout(c)
<1>1. Fit(b, member) /\ Quiet(c, b) /\ (b.open => b.waits + b.woken > 0)
  BY CheckedIsFit
<1> HIDE DEF b
<1>2. HandleReadSize(c, ok, size) =
        IF Failed(b, ok) THEN CloseOnError(b) ELSE StartReadData(Remaining(b, size))
  BY DEF HandleReadSize, b, Remaining
<1>3. Leads(b, CloseOnError(b), member)
  BY <1>1, CloseOnErrorLeads DEF Fit
<1>4. Leads(b, StartReadData(Remaining(b, size)), member)
  BY <1>1, RemainingIsFit
<1>. QED BY <1>1, <1>2, <1>3, <1>4 DEF Leads, Quiet

\* The last read posts DispatchMessage with an infinite timer.
LEMMA LastReadLeads ==
  ASSUME NEW member \in BOOLEAN, alive \in BOOLEAN, NEW c, Fit(c, member), c.open,
         0 \in 0 .. MaxSize
  PROVE  Leads(c, SetTimer([c EXCEPT !.left = 0, !.dispatch = TRUE], "never"), member)
<1> DEFINE b == [c EXCEPT !.left = 0, !.dispatch = TRUE]
           d == SetTimer(b, "never")
<1>0. c \in ConnStates /\ Running(c, member)
  BY DEF Fit, Running
<1>1. /\ b \in ConnStates /\ b.role = c.role /\ b.op = c.op /\ b.done = c.done
      /\ b.dispatch /\ b.queue = c.queue /\ b.inbox = c.inbox
      /\ b.errors = c.errors /\ b.messages = c.messages /\ b.open = c.open
  BY Zenon, <1>0 DEF ConnStates
<1> HIDE DEF b
<1>2. d \in ConnStates /\ Same(b, d) /\ d.open = b.open /\ d.done = b.done /\ d.expires = "never"
  BY Zenon, <1>1, SetTimerKeeps
<1> HIDE DEF d
<1>3. /\ d.op = "none" /\ d.done = "none" /\ d.dispatch /\ d.queue = c.queue /\ d.inbox = c.inbox
      /\ d.errors = c.errors /\ d.messages = c.messages /\ d.role = c.role /\ d.open
      /\ (alive => d.errors = 0)
  BY <1>1, <1>2 DEF Same, Fit, Running
<1>4. Leads(c, d, member)
  BY <1>0, <1>2, <1>3, DispatchStarts
<1>. QED BY <1>4 DEF b, d

\* HandleReadData leaves a sound connection.
LEMMA HandleReadDataLeads ==
  ASSUME TcpAssumption,
         NEW member \in BOOLEAN, alive \in BOOLEAN, NEW c, Fit(c, member), NEW ok, NEW size
  PROVE  Leads(c, HandleReadData(c, ok, size), member)
<1> DEFINE b == CheckTimeout(c)
           left == IF c.left = 0 THEN 0 ELSE c.left - 1
<1>1. Fit(b, member) /\ Quiet(c, b) /\ (b.open => b.waits + b.woken > 0)
  BY CheckedIsFit
<1>2. left \in 0 .. MaxSize /\ 0 \in 0 .. MaxSize
  <2>1. c.left \in 0 .. MaxSize /\ MaxSize \in Nat
    BY DEF Fit, Running, ConnStates, TcpAssumption
  <2>. QED BY <2>1
<1>3. HandleReadData(c, ok, size) =
        IF Failed(b, ok) THEN CloseOnError(b)
        ELSE IF left = 0 THEN SetTimer([b EXCEPT !.left = 0, !.dispatch = TRUE], "never")
        ELSE StartReadData(Remaining(b, left))
  BY DEF HandleReadData, Remaining
<1> HIDE DEF b, left
<1>4. Leads(b, CloseOnError(b), member)
  BY <1>1, CloseOnErrorLeads DEF Fit
<1>5. Leads(b, StartReadData(Remaining(b, left)), member)
  BY <1>1, <1>2, RemainingIsFit
<1>6. ASSUME ~Failed(b, ok)
      PROVE  Leads(b, SetTimer([b EXCEPT !.left = 0, !.dispatch = TRUE], "never"), member)
  <2>1. b.open
    BY <1>6 DEF Failed
  <2>. QED BY Zenon, <1>1, <1>2, <2>1, LastReadLeads
<1>. QED BY <1>1, <1>3, <1>4, <1>5, <1>6 DEF Leads, Quiet

\* HandleWrite leaves a sound connection: the read of a response is under the
\* CheckTimeout that the write was under.
LEMMA HandleWriteLeads ==
  ASSUME NEW member \in BOOLEAN, alive \in BOOLEAN, NEW c, Fit(c, member), NEW ok,
         c.open => c.waits + c.woken > 0
  PROVE  Leads(c, HandleWrite(c, ok), member)
<1>0. c \in ConnStates /\ ~c.dispatch
  BY DEF Fit, Running
<1>1. Leads(c, CloseOnError(c), member) /\ Leads(c, DoClose(c), member)
  BY CloseOnErrorLeads, DoCloseLeads DEF Fit
<1> DEFINE e == StartReadSize(c)
<1>2. Begins(c, e) /\ e.open = c.open /\ e.waits + e.woken = c.waits + c.woken
  BY <1>0, StartReadSizeBegins
<1> HIDE DEF e
<1>3. Timed(e)
  BY <1>2 DEF Timed
<1>4. Leads(c, e, member)
  BY <1>2, <1>3, BeginsLeads
<1>. QED BY <1>1, <1>4 DEF HandleWrite, e

-----------------------------------------------------------------------------
(* The steps of one connection.                                            *)

\* An error was the last signal.
Settled(c, d) == c.errors > 0 => d.errors = c.errors /\ d.messages = c.messages

\* A connection goes from c to d.
Goes(c, d, member) == Sound(d, alive, member) /\ Settled(c, d)

\* A handler runs on a connection that has signalled no error, or signals nothing.
LEMMA FitGoes ==
  ASSUME NEW member \in BOOLEAN, alive \in BOOLEAN, NEW c, NEW b, Fit(b, member),
         b.errors = c.errors, b.messages = c.messages, NEW d, Leads(b, d, member)
  PROVE  Goes(c, d, member)
BY DEF Fit, Leads, Quiet, Goes, Settled

\* A connection that has something to do was started, has signalled no error
\* and is in connections_ or will be.
LEMMA UsedWhenActive ==
  ASSUME NEW member \in BOOLEAN, alive \in BOOLEAN, NEW c, Sound(c, alive, member), Active(c)
  PROVE  /\ c.role # "unused" /\ (alive => c.errors = 0)
         /\ ~alive => c.inbox = <<>> /\ ~member
         /\ alive => \/ c.inbox = <<>> /\ member
                     \/ Len(c.inbox) = 1 /\ c.inbox[1] = "insert"
<1>1. ASSUME c.role = "unused" PROVE FALSE
  <2>1. c = Fresh("unused", FALSE)
    BY <1>1 DEF Sound, Finishes
  <2>2. c.op = "none" /\ c.dispatch = FALSE /\ c.queue = <<>>
    BY <2>1 DEF Fresh
  <2>. QED BY <2>2 DEF Active
<1>2. c.errors \in Nat /\ (alive => ~(c.errors > 0))
  BY DEF Sound, Finishes, ConnStates
<1>3. Listed(c, alive, member)
  BY DEF Sound
<1>. QED BY <1>1, <1>2, <1>3 DEF Listed

\* The handler of a finished operation leaves a sound connection.
LEMMA HandleGoes ==
  ASSUME TcpAssumption, NEW i \in Conns, NEW size \in 0 .. MaxSize, alive \in BOOLEAN,
         NEW member \in BOOLEAN, Sound(conn[i], alive, member), Handle(i, size)
  PROVE  \E d : Goes(conn[i], d, member) /\ Set(i, d)
<1> DEFINE f == conn[i]
           c == [f EXCEPT !.op = "none", !.done = "none"]
           ok == f.done = "ok"
<1>1. f \in ConnStates /\ f.done \in {"ok", "failed"} /\ f.op # "none"
  BY DEF Handle, Sound, InTurn
<1>2. Active(f) /\ ~f.dispatch /\ OnlyClose(f.queue, alive)
  BY <1>1 DEF Active, Sound, InTurn
<1>3. f.role # "unused" /\ (alive => f.errors = 0)
  BY <1>2, UsedWhenActive
<1>4. /\ ~alive => f.inbox = <<>> /\ ~member
      /\ alive => \/ f.inbox = <<>> /\ member
                  \/ Len(f.inbox) = 1 /\ f.inbox[1] = "insert"
  BY <1>2, UsedWhenActive
<1>5. f.open /\ f.op \in {"size", "data", "write"} => f.waits + f.woken > 0
  BY DEF Sound, Timed
<1>6. \/ f.op = "connect" /\ Set(i, HandleConnect(c, ok))
      \/ f.op = "size" /\ Set(i, HandleReadSize(c, ok, size))
      \/ f.op = "data" /\ Set(i, HandleReadData(c, ok, size))
      \/ f.op = "write" /\ Set(i, HandleWrite(c, ok))
  BY Zenon, <1>1 DEF Handle, ConnStates
<1> HIDE DEF f
<1>7. /\ c \in ConnStates /\ c.op = "none" /\ c.done = "none" /\ c.dispatch = f.dispatch
      /\ c.queue = f.queue /\ c.role = f.role /\ c.inbox = f.inbox /\ c.errors = f.errors
      /\ c.messages = f.messages /\ c.open = f.open /\ c.waits = f.waits /\ c.woken = f.woken
  BY Zenon, <1>1 DEF ConnStates
<1> HIDE DEF c, ok
<1>8. Fit(c, member)
  BY Zenon, <1>2, <1>3, <1>4, <1>7 DEF Fit, Running
<1>9. CASE f.op = "connect" /\ Set(i, HandleConnect(c, ok))
  BY Zenon, <1>7, <1>8, <1>9, HandleConnectLeads, FitGoes DEF f
<1>10. CASE f.op = "size" /\ Set(i, HandleReadSize(c, ok, size))
  BY Zenon, <1>7, <1>8, <1>10, HandleReadSizeLeads, FitGoes DEF f
<1>11. CASE f.op = "data" /\ Set(i, HandleReadData(c, ok, size))
  BY Zenon, <1>7, <1>8, <1>11, HandleReadDataLeads, FitGoes DEF f
<1>12. CASE f.op = "write" /\ Set(i, HandleWrite(c, ok))
  <2>1. c.open => c.waits + c.woken > 0
    BY <1>5, <1>7, <1>12
  <2>. QED BY Zenon, <1>7, <1>8, <1>12, <2>1, HandleWriteLeads, FitGoes DEF f
<1>. QED BY <1>6, <1>9, <1>10, <1>11, <1>12

\* So does a posted call; the DoClose of ~TcpTransport may meet a connection in
\* the middle of an operation.
LEMMA RunPostedGoes ==
  ASSUME NEW i \in Conns, alive \in BOOLEAN,
         NEW member \in BOOLEAN, Sound(conn[i], alive, member), RunPosted(i)
  PROVE  \E d : Goes(conn[i], d, member) /\ Set(i, d)
<1> DEFINE f == conn[i]
           q == Tail(f.queue)
           c == [f EXCEPT !.queue = q]
<1>1. f \in ConnStates /\ f.queue \in Seq(Calls) /\ f.queue # <<>> /\ f.queue[1] = Head(f.queue)
  BY DEF RunPosted, Sound, ConnStates
<1>2. Active(f)
  BY <1>1 DEF Active
<1>3. f.role # "unused" /\ (alive => f.errors = 0)
  BY <1>2, UsedWhenActive
<1>4. /\ ~alive => f.inbox = <<>> /\ ~member
      /\ alive => \/ f.inbox = <<>> /\ member
                  \/ Len(f.inbox) = 1 /\ f.inbox[1] = "insert"
  BY <1>2, UsedWhenActive
<1>5. \/ f.queue[1] = "start" /\ Set(i, DoStart(c))
      \/ f.queue[1] = "write" /\ Set(i, StartWrite(c))
      \/ f.queue[1] = "close" /\ Set(i, DoClose(c))
  <2>1. f.queue[1] \in Calls
    BY <1>1
  <2>. QED BY <1>1, <2>1 DEF RunPosted, Calls
<1>6. InTurn(f, alive) /\ Prepared(f, alive)
  BY DEF Sound
<1> HIDE DEF f
<1>7. q \in Seq(Calls) /\ Len(q) = Len(f.queue) - 1 /\ (q # <<>> => q[1] = f.queue[2])
  BY <1>1
<1> HIDE DEF q
<1>8. OnlyClose(q, alive)
  <2>1. Len(f.queue) \in Nat /\ Len(q) \in Nat /\ (q # <<>> => Len(q) # 0)
    BY <1>1, <1>7
  <2>2. Len(f.queue) <= 2 /\ (Len(f.queue) = 2 => f.queue[2] = "close" /\ ~alive)
    BY <1>6 DEF InTurn
  <2>3. Len(q) <= 1
    BY <1>7, <2>1, <2>2
  <2> DEFINE m == Len(q)
             n == Len(f.queue)
  <2>4. m \in Nat /\ n \in Nat /\ m = n - 1 /\ n <= 2 /\ (q # <<>> => m # 0)
    BY <1>7, <2>1, <2>2
  <2> HIDE DEF m, n
  <2>5. q # <<>> => n = 2
    BY <2>4
  <2>. QED BY <1>7, <2>2, <2>3, <2>5 DEF OnlyClose, n
<1>9. f.op # "none" \/ f.dispatch => f.queue[1] = "close" /\ ~alive /\ q = <<>>
  BY <1>1, <1>6, <1>7 DEF InTurn, OnlyClose
<1>10. /\ c \in ConnStates /\ c.op = f.op /\ c.done = f.done /\ c.dispatch = f.dispatch
       /\ c.queue = q /\ c.role = f.role /\ c.inbox = f.inbox /\ c.errors = f.errors
       /\ c.messages = f.messages /\ c.expires = f.expires
  BY Zenon, <1>1, <1>7 DEF ConnStates
<1> HIDE DEF c
<1>11. CASE f.op = "none" /\ ~f.dispatch
  <2>1. f.done = "none"
    BY <1>6, <1>11 DEF InTurn
  <2>2. Fit(c, member)
    BY <1>3, <1>4, <1>8, <1>10, <1>11, <2>1 DEF Fit, Running
  <2>3. Leads(c, DoStart(c), member) /\ Leads(c, StartWrite(c), member)
        /\ Leads(c, DoClose(c), member)
    BY <2>2, DoStartLeads, StartWriteLeads, DoCloseLeads DEF Fit
  <2>. QED BY <1>5, <1>10, <2>2, <2>3, FitGoes DEF f
<1>12. CASE f.op # "none" \/ f.dispatch
  <2> DEFINE d == DoClose(c)
  <2>1. /\ d \in ConnStates /\ ~d.open /\ (d.done = "none" <=> c.done = "none")
        /\ d.role = c.role /\ d.op = c.op /\ d.dispatch = c.dispatch /\ d.queue = c.queue
        /\ d.errors = c.errors /\ d.messages = c.messages /\ d.expires = c.expires
        /\ d.inbox = c.inbox
    BY <1>9, <1>10, <1>12, DoCloseKeeps
  <2> HIDE DEF d
  <2>2. ~alive /\ d.queue = <<>> /\ f.queue[1] = "close"
    BY <1>9, <1>10, <1>12, <2>1
  <2>3. InTurn(d, alive)
    BY <1>6, <1>10, <2>1, <2>2 DEF InTurn, OnlyClose
  <2>4. Prepared(d, alive)
    BY <1>6, <1>10, <2>1, <2>2 DEF Prepared
  <2>5. Timed(d) /\ Finishes(d, alive) /\ Listed(d, alive, member)
    BY Zenon, <1>3, <1>4, <1>10, <2>1, <2>2 DEF Timed, Finishes, Listed
  <2>6. Goes(f, d, member)
    BY Zenon, <1>10, <2>1, <2>3, <2>4, <2>5 DEF Goes, Sound, Settled
  <2>7. Set(i, d)
    BY <1>5, <2>2 DEF d
  <2>. QED BY <2>6, <2>7 DEF f
<1>. QED BY Zenon, <1>1, <1>11, <1>12 DEF ConnStates

\* A CheckTimeout that was woken leaves a sound connection.
LEMMA CheckGoes ==
  ASSUME NEW i \in Conns, alive \in BOOLEAN,
         NEW member \in BOOLEAN, Sound(conn[i], alive, member), Check(i)
  PROVE  \E d : Goes(conn[i], d, member) /\ Set(i, d)
<1> DEFINE f == conn[i]
           w == f.woken - 1
           c == [f EXCEPT !.woken = w]
           d == CheckTimeout(c)
<1>1. f \in ConnStates /\ f.woken > 0 /\ Sound(f, alive, member)
  BY DEF Check, Sound
<1>2. Set(i, d)
  BY DEF Check
<1>3. f.role # "unused"
  <2>1. f.role = "unused" => f = Fresh("unused", FALSE)
    BY Zenon DEF Sound, Finishes
  <2>. QED BY <1>1, <2>1 DEF Fresh
<1> HIDE DEF f
<1>4. w \in Nat
  BY <1>1 DEF ConnStates
<1> HIDE DEF w
<1>5. /\ c \in ConnStates /\ c.op = f.op /\ c.done = f.done /\ c.dispatch = f.dispatch
      /\ c.queue = f.queue /\ c.role = f.role /\ c.inbox = f.inbox /\ c.errors = f.errors
      /\ c.messages = f.messages /\ c.expires = f.expires /\ c.open = f.open
  BY Zenon, <1>1, <1>4 DEF ConnStates
<1> HIDE DEF c
<1>6. /\ d \in ConnStates /\ Same(c, d) /\ (d.done = "none" <=> c.done = "none")
      /\ d.expires = c.expires /\ (d.open <=> c.open /\ c.expires # "past")
      /\ d.open => d.waits + d.woken > 0
  BY <1>5, CheckTimeoutKeeps
<1> HIDE DEF d
<1>7. /\ d.op = f.op /\ (d.done = "none" <=> f.done = "none") /\ d.dispatch = f.dispatch
      /\ d.queue = f.queue /\ d.role = f.role /\ d.inbox = f.inbox /\ d.errors = f.errors
      /\ d.messages = f.messages /\ d.expires = f.expires
      /\ (d.open <=> f.open /\ f.expires # "past")
  BY Zenon, <1>5, <1>6 DEF Same
<1>8. InTurn(d, alive)
  BY Zenon, <1>1, <1>7 DEF Sound, InTurn
<1>9. Prepared(d, alive)
  BY <1>1, <1>7 DEF Sound, Prepared
<1>10. Timed(d)
  BY <1>6 DEF Timed
<1>11. Finishes(d, alive) /\ Listed(d, alive, member)
  BY Zenon, <1>1, <1>3, <1>7 DEF Sound, Finishes, Listed, Active
<1>12. Goes(f, d, member)
  BY <1>6, <1>7, <1>8, <1>9, <1>10, <1>11 DEF Goes, Sound, Settled
<1>. QED BY <1>2, <1>12 DEF f

\* DispatchMessage posts one call in its place, or nothing when the transport
\* has gone.
LEMMA DispatchGoes ==
  ASSUME NEW i \in Conns, NEW reply \in BOOLEAN, NEW immediate \in BOOLEAN, alive \in BOOLEAN,
         NEW member \in BOOLEAN, Sound(conn[i], alive, member), Dispatch(i, reply, immediate)
  PROVE  \E d : Goes(conn[i], d, member) /\ Set(i, d)
<1> DEFINE f == conn[i]
<1>1. f \in ConnStates /\ f.dispatch /\ Sound(f, alive, member) /\ Active(f)
  BY DEF Dispatch, Sound, Active
<1>2. Set(i, DispatchMessage(f, reply, immediate))
  BY DEF Dispatch
<1>3. /\ f.role # "unused" /\ (alive => f.errors = 0)
      /\ ~alive => f.inbox = <<>> /\ ~member
      /\ alive => \/ f.inbox = <<>> /\ member
                  \/ Len(f.inbox) = 1 /\ f.inbox[1] = "insert"
  BY Zenon, <1>1, UsedWhenActive
<1>4. /\ f.op = "none" /\ f.done = "none" /\ OnlyClose(f.queue, alive)
      /\ f.expires = "never" /\ (alive => f.open)
  BY <1>1 DEF Sound, InTurn, Prepared
<1> HIDE DEF f
<1>5. CASE ~alive
  <2> DEFINE d == [f EXCEPT !.dispatch = FALSE]
  <2>1. /\ d \in ConnStates /\ d.op = f.op /\ d.done = f.done /\ d.dispatch = FALSE
        /\ d.queue = f.queue /\ d.role = f.role /\ d.inbox = f.inbox /\ d.errors = f.errors
        /\ d.messages = f.messages /\ d.expires = f.expires /\ d.open = f.open
    BY Zenon, <1>1 DEF ConnStates
  <2>2. Set(i, d)
    BY <1>2, <1>5 DEF DispatchMessage
  <2> HIDE DEF d
  <2>3. InTurn(d, alive)
    <3>1. Len(d.queue) \in Nat /\ Len(d.queue) <= 1
      BY <1>4, <2>1 DEF OnlyClose, ConnStates
    <3>. QED BY <1>4, <2>1, <3>1 DEF InTurn
  <2>4. Prepared(d, alive) /\ Timed(d)
    BY <1>4, <2>1 DEF Prepared, Timed, OnlyClose
  <2>5. Finishes(d, alive) /\ Listed(d, alive, member)
    BY Zenon, <1>3, <1>5, <2>1 DEF Finishes, Listed
  <2>6. Goes(f, d, member)
    BY Zenon, <2>1, <2>3, <2>4, <2>5 DEF Goes, Sound, Settled
  <2>. QED BY <2>2, <2>6 DEF f
<1>6. CASE alive
  <2> DEFINE call == IF reply THEN "write" ELSE "close"
             q == Append(f.queue, call)
             m == f.messages + 1
             now == IF reply THEN immediate ELSE f.immediate
             d == [f EXCEPT !.dispatch = FALSE, !.messages = m, !.queue = q, !.immediate = now]
  <2>1. Set(i, d)
    BY <1>2, <1>6 DEF DispatchMessage
  <2>2. call \in Calls /\ call # "start" /\ f.queue \in Seq(Calls) /\ m \in Nat
        /\ now \in BOOLEAN
    BY <1>1 DEF ConnStates, Calls
  <2>3. Len(f.queue) = 0
    BY <1>4, <1>6, <2>2 DEF OnlyClose
  <2> HIDE DEF call, m, now
  <2>4. q \in Seq(Calls) /\ Len(q) = 1 /\ q # <<>> /\ q[1] = call
    <3>1. q \in Seq(Calls) /\ Len(q) = Len(f.queue) + 1 /\ q[Len(f.queue) + 1] = call
      BY <2>2
    <3>2. Len(f.queue) + 1 = 1
      BY <2>3
    <3>3. q # <<>>
      BY <3>1, <3>2
    <3>. QED BY <3>1, <3>2, <3>3
  <2> HIDE DEF q
  <2>5. /\ d \in ConnStates /\ d.op = f.op /\ d.done = f.done /\ d.dispatch = FALSE
        /\ d.queue = q /\ d.role = f.role /\ d.inbox = f.inbox /\ d.errors = f.errors
        /\ d.expires = f.expires /\ d.open = f.open
    BY ZenonT(60), <1>1, <2>2, <2>4 DEF ConnStates
  <2> HIDE DEF d
  <2>6. InTurn(d, alive)
    <3>1. Len(d.queue) = 1 /\ d.op = "none" /\ d.done = "none" /\ ~d.dispatch
      BY <1>4, <2>4, <2>5
    <3>. QED BY <3>1 DEF InTurn
  <2>7. Prepared(d, alive) /\ Timed(d)
    BY <1>4, <1>6, <2>2, <2>4, <2>5 DEF Prepared, Timed
  <2>8. Active(d)
    BY <2>4, <2>5 DEF Active
  <2>9. d.errors = 0 /\ f.errors = 0
    BY <1>3, <1>6, <2>5
  <2>10. Finishes(d, alive) /\ Listed(d, alive, member)
    <3>1. d.role # "unused" /\ ~(d.errors > 0)
      BY <1>3, <2>5, <2>9
    <3>2. Finishes(d, alive)
      BY Zenon, <2>8, <3>1 DEF Finishes
    <3>3. Listed(d, alive, member)
      BY Zenon, <1>3, <1>6, <2>5, <2>8 DEF Listed
    <3>. QED BY <3>2, <3>3
  <2>11. Goes(f, d, member)
    BY <2>5, <2>6, <2>7, <2>9, <2>10 DEF Goes, Sound, Settled
  <2>. QED BY <2>1, <2>11 DEF f
<1>. QED BY Zenon, <1>5, <1>6

\* A timer that expires wakes the CheckTimeouts.
LEMMA ElapseGoes ==
  ASSUME NEW i \in Conns, NEW all \in BOOLEAN, alive \in BOOLEAN,
         NEW member \in BOOLEAN, Sound(conn[i], alive, member), Elapse(i, all)
  PROVE  \E d : Goes(conn[i], d, member) /\ Set(i, d)
<1> DEFINE f == conn[i]
           b == SetTimer(f, "past")
           late == b.overdue \/ all
           d == [b EXCEPT !.overdue = late]
<1>1. f \in ConnStates /\ f.expires = "future" /\ Sound(f, alive, member)
  BY DEF Elapse, Sound
<1>2. Set(i, d)
  BY Zenon DEF Elapse
<1>3. f.role # "unused"
  <2>1. f.role = "unused" => f = Fresh("unused", FALSE)
    BY Zenon DEF Sound, Finishes
  <2>. QED BY <1>1, <2>1 DEF Fresh
<1> HIDE DEF f
<1>4. /\ b \in ConnStates /\ Same(f, b) /\ b.open = f.open /\ b.done = f.done
      /\ b.waits + b.woken = f.waits + f.woken
  BY <1>1, SetTimerKeeps
<1> HIDE DEF b
<1>5. late \in BOOLEAN
  OBVIOUS
<1> HIDE DEF late
<1>6. /\ d \in ConnStates /\ d.op = b.op /\ d.done = b.done /\ d.dispatch = b.dispatch
      /\ d.queue = b.queue /\ d.role = b.role /\ d.inbox = b.inbox /\ d.errors = b.errors
      /\ d.messages = b.messages /\ d.open = b.open /\ d.waits = b.waits /\ d.woken = b.woken
  BY Zenon, <1>4, <1>5 DEF ConnStates
<1> HIDE DEF d
<1>7. /\ d.op = f.op /\ d.done = f.done /\ d.dispatch = f.dispatch
      /\ d.queue = f.queue /\ d.role = f.role /\ d.inbox = f.inbox /\ d.errors = f.errors
      /\ d.messages = f.messages /\ d.open = f.open
      /\ d.waits + d.woken = f.waits + f.woken
  BY Zenon, <1>4, <1>6 DEF Same
<1>8. InTurn(d, alive)
  BY Zenon, <1>1, <1>7 DEF Sound, InTurn
<1>9. Prepared(d, alive)
  BY Zenon, <1>1, <1>7 DEF Sound, Prepared
<1>10. Timed(d)
  BY <1>1, <1>7 DEF Sound, Timed
<1>11. Finishes(d, alive) /\ Listed(d, alive, member)
  BY Zenon, <1>1, <1>3, <1>7 DEF Sound, Finishes, Listed, Active
<1>12. Goes(f, d, member)
  BY <1>6, <1>7, <1>8, <1>9, <1>10, <1>11 DEF Goes, Sound, Settled
<1>. QED BY <1>2, <1>12 DEF f

\* The end of an operation makes its handler run.
LEMMA FinishGoes ==
  ASSUME NEW i \in Conns, NEW result \in {"ok", "failed"}, alive \in BOOLEAN, TcpAssumption,
         NEW member \in BOOLEAN, Sound(conn[i], alive, member), Finish(i, result)
  PROVE  \E d : Goes(conn[i], d, member) /\ Set(i, d)
<1> DEFINE f == conn[i]
           r == IF f.op \in {"size", "data"} /\ result = "ok" THEN f.reads - 1 ELSE f.reads
           d == [f EXCEPT !.done = result, !.reads = r]
<1>1. f \in ConnStates /\ f.done = "pending" /\ Sound(f, alive, member)
      /\ (f.op \in {"size", "data"} /\ result = "ok" => f.reads > 0)
  BY DEF Finish, Sound
<1>2. Set(i, d)
  BY Zenon DEF Finish
<1>3. f.op # "none"
  BY Zenon, <1>1 DEF Sound, InTurn
<1>4. f.role # "unused"
  <2>1. f.role = "unused" => f = Fresh("unused", FALSE)
    BY Zenon DEF Sound, Finishes
  <2>. QED BY <1>1, <2>1 DEF Fresh
<1> HIDE DEF f
<1>5. r \in 0 .. MaxReads
  BY <1>1 DEF ConnStates, TcpAssumption
<1> HIDE DEF r
<1>6. /\ d \in ConnStates /\ d.op = f.op /\ d.done = result /\ d.dispatch = f.dispatch
      /\ d.queue = f.queue /\ d.role = f.role /\ d.inbox = f.inbox /\ d.errors = f.errors
      /\ d.messages = f.messages /\ d.open = f.open /\ d.expires = f.expires
      /\ d.waits = f.waits /\ d.woken = f.woken
  BY Zenon, <1>1, <1>5 DEF ConnStates
<1> HIDE DEF d
<1>7. InTurn(d, alive)
  BY Zenon, <1>1, <1>3, <1>6 DEF Sound, InTurn
<1>8. Prepared(d, alive)
  BY Zenon, <1>1, <1>6 DEF Sound, Prepared
<1>9. Timed(d)
  BY <1>1, <1>6 DEF Sound, Timed
<1>10. Finishes(d, alive) /\ Listed(d, alive, member)
  BY Zenon, <1>1, <1>4, <1>6 DEF Sound, Finishes, Listed, Active
<1>11. Goes(f, d, member)
  BY <1>6, <1>7, <1>8, <1>9, <1>10 DEF Goes, Sound, Settled
<1>. QED BY <1>2, <1>11 DEF f

\* A connection that Send or HandleAccept made is sound; the one of Send will
\* be inserted.
LEMMA FreshIsSound ==
  ASSUME TcpAssumption, alive \in BOOLEAN, alive, NEW role \in {"client", "server"}, NEW immediate \in BOOLEAN,
         NEW member \in BOOLEAN, role = "server" => member
  PROVE  Sound(Fresh(role, immediate), alive, member)
<1> DEFINE q == <<"start">>
           server == role = "server"
           box == IF role = "client" THEN <<"insert">> ELSE <<>>
           d == Fresh(role, immediate)
<1>1. q \in Seq(Calls) /\ Len(q) = 1 /\ q # <<>> /\ q[1] = "start"
  BY DEF Calls
<1>2. box \in Seq(Updates) /\ (role = "client" => Len(box) = 1 /\ box[1] = "insert")
      /\ (role = "server" => box = <<>>)
  <2>1. CASE role = "client"
    BY <2>1 DEF Updates
  <2>2. CASE role = "server"
    BY <2>2 DEF Updates
  <2>. QED BY <2>1, <2>2
<1>3. d = [role |-> role, open |-> server, op |-> "none", done |-> "none",
           expires |-> "unset", overdue |-> FALSE, waits |-> 0, woken |-> 0, left |-> 0,
           immediate |-> immediate, dispatch |-> FALSE, queue |-> q, inbox |-> box,
           reads |-> MaxReads, errors |-> 0, messages |-> 0]
  BY Zenon DEF Fresh
<1>0. server \in BOOLEAN /\ (server <=> role = "server")
  BY Zenon
<1> HIDE DEF q, box, server
<1>4. d \in ConnStates
  BY <1>0, <1>1, <1>2, <1>3 DEF ConnStates, TcpAssumption
<1>5. /\ d.role = role /\ d.open = server /\ d.op = "none" /\ d.done = "none"
      /\ d.expires = "unset" /\ ~d.dispatch /\ d.queue = q /\ d.inbox = box
      /\ d.errors = 0
  BY <1>3
<1> HIDE DEF d
<1>6. InTurn(d, alive)
  <2>1. Len(d.queue) = 1 /\ d.op = "none" /\ d.done = "none" /\ ~d.dispatch
    BY <1>1, <1>5
  <2>. QED BY <2>1 DEF InTurn, OnlyClose
<1>7. Prepared(d, alive) /\ Timed(d)
  BY <1>0, <1>1, <1>5 DEF Prepared, Timed
<1>8. Active(d)
  BY <1>1, <1>5 DEF Active
<1>9. Finishes(d, alive)
  <2>1. d.role # "unused" /\ ~(d.errors > 0)
    BY <1>5
  <2>. QED BY Zenon, <1>8, <2>1 DEF Finishes
<1>10. Listed(d, alive, member)
  BY Zenon, <1>2, <1>5, <1>8 DEF Listed
<1>. QED BY Zenon, <1>4, <1>6, <1>7, <1>9, <1>10 DEF Sound, d

-----------------------------------------------------------------------------
(* Steps.                                                                  *)

\* No connection signals anything after an error.
LastSignal == \A i \in Conns : Settled(conn[i], conn'[i])

\* What every step is shown to do.
StepKeeps == IInv' /\ LastSignal

\* What the invariant says of one connection.
LEMMA TypeIsConnStates ==
  ASSUME NEW i \in Conns, IInv
  PROVE  /\ alive \in BOOLEAN /\ conn[i] \in ConnStates /\ (i \in connections) \in BOOLEAN
         /\ Sound(conn[i], alive, i \in connections) /\ conn \in [Conns -> ConnStates]
BY DEF IInv, TypeOK, Sound, ConnStates, Calls, Updates

\* A step of one connection that leaves it sound keeps the invariant.
LEMMA SetKeeps ==
  ASSUME IInv, NEW i \in Conns, NEW d, Goes(conn[i], d, i \in connections), Set(i, d)
  PROVE  StepKeeps
<1>1. /\ conn' = [conn EXCEPT ![i] = d]
      /\ UNCHANGED <<alive, listening, acceptors, connections>>
  BY DEF Set
<1>2. d \in ConnStates
  BY DEF Goes, Sound
<1>3. conn \in [Conns -> ConnStates]
  BY TypeIsConnStates
<1>4. conn' \in [Conns -> ConnStates] /\ conn'[i] = d
      /\ \A j \in Conns \ {i} : conn'[j] = conn[j]
  BY Zenon, <1>1, <1>2, <1>3
<1>5. TypeOK'
  BY Zenon, <1>1, <1>4 DEF IInv, TypeOK, ConnStates, Calls, Updates
<1>6. AcceptorInv'
  BY <1>1 DEF IInv, AcceptorInv, AcceptsAgain
<1>7. ASSUME NEW j \in Conns
      PROVE  Sound(conn'[j], alive', j \in connections') /\ Settled(conn[j], conn'[j])
  <2>1. CASE j = i
    BY <1>1, <1>4, <2>1 DEF Goes
  <2>2. CASE j # i
    <3>1. conn'[j] = conn[j] /\ alive' = alive /\ connections' = connections
      BY <1>1, <1>4, <2>2
    <3>2. Sound(conn[j], alive, j \in connections)
      BY DEF IInv
    <3>. QED BY <3>1, <3>2 DEF Settled
  <2>. QED BY <2>1, <2>2
<1>. QED BY <1>5, <1>6, <1>7 DEF StepKeeps, IInv, LastSignal

\* Send keeps the invariant.
LEMMA SendKeeps ==
  ASSUME TcpAssumption, IInv, NEW i \in Conns, NEW immediate \in BOOLEAN, Send(i, immediate)
  PROVE  StepKeeps
<1> DEFINE d == Fresh("client", immediate)
           member == i \in connections
<1>1. alive \in BOOLEAN /\ alive /\ conn[i].role = "unused" /\ Set(i, d)
  BY DEF Send, IInv, TypeOK
<1>2. member \in BOOLEAN /\ Sound(conn[i], alive, member)
  BY TypeIsConnStates
<1>3. conn[i] = Fresh("unused", FALSE)
  BY Zenon, <1>1, <1>2 DEF Sound, Finishes
<1>4. Settled(conn[i], d)
  BY <1>3 DEF Settled, Fresh
<1>5. "client" \in {"client", "server"} /\ "client" # "server"
  OBVIOUS
<1> HIDE DEF member
<1>6. Sound(d, alive, member)
  BY Zenon, <1>1, <1>2, <1>5, FreshIsSound
<1> HIDE DEF d
<1>. QED BY Zenon, <1>1, <1>4, <1>6, SetKeeps DEF Goes, member

\* DoInsertConnection and DoRemoveConnection keep the invariant: an insertion
\* is never run after the removal of the same connection.
LEMMA UpdateKeeps ==
  ASSUME IInv, NEW i \in Conns, UpdateConnections(i)
  PROVE  StepKeeps
<1> DEFINE f == conn[i]
           box == Tail(f.inbox)
           d == [f EXCEPT !.inbox = box]
           set == IF Head(f.inbox) = "insert" THEN connections \cup {i} ELSE connections \ {i}
           member == i \in connections
           now == i \in set
<1>1. /\ f.inbox # <<>> /\ connections' = set
      /\ conn' = [conn EXCEPT ![i].inbox = Tail(@)]
      /\ UNCHANGED <<alive, listening, acceptors>>
  BY DEF UpdateConnections
<1>2. /\ f \in ConnStates /\ Sound(f, alive, member) /\ conn \in [Conns -> ConnStates]
      /\ alive \in BOOLEAN /\ member \in BOOLEAN
  BY TypeIsConnStates
<1>3. conn' = [conn EXCEPT ![i] = d]
  BY <1>1, <1>2
<1>4. now \in BOOLEAN /\ (now <=> Head(f.inbox) = "insert")
  OBVIOUS
<1>5. set \subseteq Conns /\ \A j \in Conns \ {i} : j \in set <=> j \in connections
  BY DEF IInv, TypeOK
<1>6. Listed(f, alive, member) /\ InTurn(f, alive) /\ Prepared(f, alive) /\ Timed(f)
      /\ Finishes(f, alive)
  BY <1>2 DEF Sound
<1>7. f.role # "unused"
  <2>1. f.role = "unused" => f = Fresh("unused", FALSE)
    BY Zenon, <1>6 DEF Finishes
  <2>. QED BY <1>1, <2>1 DEF Fresh
<1>8. i \in connections' <=> now
  BY <1>1
<1> HIDE DEF f, set, member, now
<1>9. alive
  BY <1>1, <1>6 DEF Listed
<1>10. /\ f.inbox \in Seq(Updates) /\ box \in Seq(Updates) /\ Len(box) = Len(f.inbox) - 1
       /\ f.inbox[1] = Head(f.inbox)
       /\ (Len(f.inbox) > 1 => box # <<>> /\ box[Len(box)] = f.inbox[Len(f.inbox)])
       /\ (Len(f.inbox) = 1 => box = <<>>) /\ Len(f.inbox) \in Nat /\ Len(f.inbox) > 0
  <2>1. f.inbox \in Seq(Updates)
    BY <1>2 DEF ConnStates
  <2>2. Len(f.inbox) \in Nat /\ Len(f.inbox) > 0 /\ f.inbox[1] = Head(f.inbox)
    BY <1>1, <2>1
  <2>3. /\ box \in Seq(Updates) /\ Len(box) = Len(f.inbox) - 1
        /\ \A k \in 1 .. Len(f.inbox) - 1 : box[k] = f.inbox[k + 1]
    BY <1>1, <2>1
  <2> HIDE DEF box
  <2>4. ASSUME Len(f.inbox) > 1
        PROVE  box # <<>> /\ box[Len(box)] = f.inbox[Len(f.inbox)]
    <3>1. Len(box) \in 1 .. Len(f.inbox) - 1 /\ Len(box) + 1 = Len(f.inbox)
      BY <2>2, <2>3, <2>4
    <3>2. box # <<>>
      BY <3>1
    <3>. QED BY <2>3, <3>1, <3>2
  <2>5. Len(f.inbox) = 1 => box = <<>>
    BY <2>3
  <2>. QED BY <2>1, <2>2, <2>3, <2>4, <2>5
<1> HIDE DEF box
<1>11. /\ d \in ConnStates /\ d.op = f.op /\ d.done = f.done /\ d.dispatch = f.dispatch
       /\ d.queue = f.queue /\ d.role = f.role /\ d.inbox = box /\ d.errors = f.errors
       /\ d.messages = f.messages /\ d.open = f.open /\ d.expires = f.expires
       /\ d.waits = f.waits /\ d.woken = f.woken
  BY Zenon, <1>2, <1>10 DEF ConnStates
<1> HIDE DEF d
<1>12. InTurn(d, alive) /\ Prepared(d, alive) /\ Timed(d)
  BY <1>6, <1>11 DEF InTurn, Prepared, Timed
<1>13. Finishes(d, alive) /\ (Active(d) <=> Active(f))
  BY Zenon, <1>6, <1>7, <1>11 DEF Finishes, Active
<1>14. Listed(d, alive, now)
  <2>1. CASE Active(f)
    <3>1. Len(f.inbox) = 1 /\ f.inbox[1] = "insert"
      BY Zenon, <1>1, <1>6, <1>9, <2>1 DEF Listed
    <3>2. d.inbox = <<>> /\ now
      BY <1>4, <1>10, <1>11, <3>1
    <3>. QED BY <1>9, <1>13, <2>1, <3>2 DEF Listed
  <2>2. CASE ~Active(f)
    <3>1. f.inbox[Len(f.inbox)] = "remove"
      BY <1>1, <1>6, <1>9, <2>2 DEF Listed
    <3>2. CASE Len(f.inbox) = 1
      <4>1. d.inbox = <<>> /\ ~now
        BY Zenon, <1>4, <1>10, <1>11, <3>1, <3>2
      <4>. QED BY Zenon, <1>9, <1>13, <2>2, <4>1 DEF Listed
    <3>3. CASE Len(f.inbox) > 1
      <4>1. d.inbox # <<>> /\ d.inbox[Len(d.inbox)] = "remove"
        BY <1>10, <1>11, <3>1, <3>3
      <4>. QED BY Zenon, <1>9, <1>13, <2>2, <4>1 DEF Listed
    <3>4. Len(f.inbox) \in Nat /\ Len(f.inbox) > 0
      BY <1>10
    <3> DEFINE n == Len(f.inbox)
    <3>5. n = 1 \/ n > 1
      <4>1. n \in Nat /\ n > 0
        BY <3>4
      <4> HIDE DEF n
      <4>. QED BY <4>1
    <3>. QED BY <3>2, <3>3, <3>5
  <2>. QED BY <2>1, <2>2
<1>15. Sound(d, alive, now) /\ Settled(f, d)
  BY Zenon, <1>11, <1>12, <1>13, <1>14 DEF Sound, Settled
<1>16. conn' \in [Conns -> ConnStates] /\ conn'[i] = d
       /\ \A j \in Conns \ {i} : conn'[j] = conn[j]
  BY <1>2, <1>3, <1>11
<1>17. TypeOK'
  BY Zenon, <1>1, <1>5, <1>16 DEF IInv, TypeOK, ConnStates, Calls, Updates
<1>18. AcceptorInv'
  BY Zenon, <1>1 DEF IInv, AcceptorInv, AcceptsAgain
<1>19. ASSUME NEW j \in Conns
       PROVE  Sound(conn'[j], alive', j \in connections') /\ Settled(conn[j], conn'[j])
  <2>1. CASE j = i
    <3>1. (j \in connections') = now /\ alive' = alive /\ conn'[j] = d /\ conn[j] = f
      BY Zenon, <1>1, <1>4, <1>8, <1>16, <2>1 DEF f
    <3>. QED BY <1>15, <3>1
  <2>2. CASE j # i
    <3>1. conn'[j] = conn[j] /\ alive' = alive /\ (j \in connections') = (j \in connections)
      BY <1>1, <1>5, <1>16, <2>2
    <3>2. Sound(conn[j], alive, j \in connections)
      BY DEF IInv
    <3>. QED BY <3>1, <3>2 DEF Settled
  <2>. QED BY Zenon, <2>1, <2>2
<1>. QED BY <1>17, <1>18, <1>19 DEF StepKeeps, IInv, LastSignal

\* What is kept of one acceptor.
AcceptorStates == [open : BOOLEAN, accept : {"none", "pending", "ok", "failed"}, closing : BOOLEAN]

\* A step of the acceptors leaves the connections sound.
LEMMA OnlyAcceptors ==
  ASSUME IInv, UNCHANGED <<alive, connections, conn>>, listening' \in 0 .. MaxListens,
         acceptors' \in [Acceptors -> AcceptorStates], AcceptorInv'
  PROVE  StepKeeps
<1>1. TypeOK'
  BY DEF IInv, TypeOK, AcceptorStates
<1>2. ASSUME NEW j \in Conns
      PROVE  Sound(conn'[j], alive', j \in connections') /\ Settled(conn[j], conn'[j])
  BY DEF IInv, Settled
<1>. QED BY Zenon, <1>1, <1>2 DEF StepKeeps, IInv, LastSignal

\* StartListening, CloseAcceptor and the end of an accept keep the invariant.
LEMMA AcceptorsKeep ==
  ASSUME TcpAssumption, IInv, NEW a \in Acceptors,
         \/ StartListening(a) \/ CloseAcceptor(a)
         \/ \E result \in {"ok", "failed"} : Accept(a, result)
  PROVE  StepKeeps
<1>1. /\ acceptors \in [Acceptors -> AcceptorStates] /\ listening \in 0 .. MaxListens
      /\ alive \in BOOLEAN /\ acceptors[a] \in AcceptorStates
  BY Zenon DEF IInv, TypeOK, AcceptorStates
<1>2. \A b \in Acceptors : acceptors[b].open => acceptors[b].accept # "none"
  BY DEF IInv, AcceptorInv, AcceptsAgain
<1>3. ~alive => \A b \in Acceptors : acceptors[b].accept = "none"
  BY DEF IInv, AcceptorInv
<1>4. ASSUME NEW r \in AcceptorStates, acceptors' = [acceptors EXCEPT ![a] = r],
             r.open => r.accept # "none", ~alive => r.accept = "none",
             UNCHANGED <<alive, connections, conn>>, listening' \in 0 .. MaxListens
      PROVE  StepKeeps
  <2>1. acceptors' \in [Acceptors -> AcceptorStates]
    BY <1>1, <1>4
  <2>2. \A b \in Acceptors : acceptors'[b] = IF b = a THEN r ELSE acceptors[b]
    BY <1>1, <1>4
  <2>3. AcceptorInv'
    BY <1>2, <1>3, <1>4, <2>2 DEF AcceptorInv, AcceptsAgain
  <2>. QED BY <1>4, <2>1, <2>3, OnlyAcceptors
<1>5. CASE StartListening(a)
  <2> DEFINE r == [open |-> TRUE, accept |-> "pending", closing |-> FALSE]
  <2>1. /\ r \in AcceptorStates /\ r.accept # "none" /\ alive
        /\ acceptors' = [acceptors EXCEPT ![a] = r] /\ UNCHANGED <<alive, connections, conn>>
    BY <1>5 DEF StartListening, AcceptorStates
  <2>2. listening' \in 0 .. MaxListens
    BY <1>5 DEF StartListening, Acceptors, TcpAssumption
  <2> HIDE DEF r
  <2>. QED BY Zenon, <1>4, <2>1, <2>2
<1>6. CASE CloseAcceptor(a)
  <2> DEFINE was == acceptors[a].accept
             s == IF was = "pending" THEN "failed" ELSE was
             r == [open |-> FALSE, closing |-> FALSE, accept |-> s]
  <2>1. acceptors' = [acceptors EXCEPT ![a] = r] /\ UNCHANGED <<alive, listening, connections, conn>>
    BY <1>6 DEF CloseAcceptor
  <2>2. s \in {"none", "pending", "ok", "failed"} /\ (~alive => s = "none")
    BY <1>1, <1>3 DEF AcceptorStates
  <2> HIDE DEF s
  <2>3. r \in AcceptorStates /\ ~r.open /\ r.accept = s
    BY <2>2 DEF AcceptorStates
  <2> HIDE DEF r
  <2>. QED BY Zenon, <1>1, <1>4, <2>1, <2>2, <2>3
<1>7. ASSUME NEW result \in {"ok", "failed"}, Accept(a, result)
      PROVE  StepKeeps
  <2> DEFINE r == [acceptors[a] EXCEPT !.accept = result]
  <2>1. /\ acceptors' = [acceptors EXCEPT ![a] = r] /\ acceptors[a].accept = "pending"
        /\ UNCHANGED <<alive, listening, connections, conn>>
    BY <1>1, <1>7 DEF Accept, AcceptorStates
  <2>2. r \in AcceptorStates /\ r.accept = result
    BY <1>1, <1>7 DEF AcceptorStates
  <2>3. alive
    BY <1>1, <1>3, <2>1
  <2> HIDE DEF r
  <2>. QED BY Zenon, <1>1, <1>4, <1>7, <2>1, <2>2, <2>3
<1>. QED BY <1>5, <1>6, <1>7

\* StopListening closes nothing by itself.
LEMMA StopListeningKeeps ==
  ASSUME TcpAssumption, IInv, StopListening
  PROVE  StepKeeps
<1>1. /\ acceptors \in [Acceptors -> AcceptorStates] /\ listening \in 0 .. MaxListens
      /\ listening # 0 /\ listening' = 0 /\ UNCHANGED <<alive, connections, conn>>
      /\ acceptors' = [acceptors EXCEPT ![listening].closing = TRUE]
  BY DEF IInv, TypeOK, AcceptorStates, StopListening
<1>2. listening \in Acceptors /\ 0 \in 0 .. MaxListens
  BY <1>1 DEF Acceptors, TcpAssumption
<1>3. acceptors' \in [Acceptors -> AcceptorStates]
  BY Zenon, <1>1, <1>2 DEF AcceptorStates
<1>4. \A b \in Acceptors : /\ acceptors'[b].open = acceptors[b].open
                           /\ acceptors'[b].accept = acceptors[b].accept
  BY <1>1, <1>2 DEF AcceptorStates
<1>5. AcceptorInv'
  BY <1>1, <1>4 DEF IInv, AcceptorInv, AcceptsAgain
<1>. QED BY <1>1, <1>2, <1>3, <1>5, OnlyAcceptors

\* HandleAccept accepts again as long as the acceptor is open, and inserts the
\* connection it made at once.
LEMMA HandleAcceptKeeps ==
  ASSUME TcpAssumption, IInv, NEW a \in Acceptors, NEW i \in Conns, HandleAccept(a, i)
  PROVE  StepKeeps
<1> DEFINE s == IF acceptors[a].open THEN "pending" ELSE "none"
           r == [acceptors[a] EXCEPT !.accept = s]
           d == Fresh("server", FALSE)
<1>1. /\ acceptors \in [Acceptors -> AcceptorStates] /\ listening \in 0 .. MaxListens
      /\ alive \in BOOLEAN /\ acceptors[a] \in AcceptorStates
  BY DEF IInv, TypeOK, AcceptorStates
<1>2. /\ acceptors' = [acceptors EXCEPT ![a].accept = s] /\ UNCHANGED <<alive, listening>>
      /\ acceptors[a].accept # "none"
      /\ \/ /\ conn[i].role = "unused" /\ connections' = connections \cup {i}
            /\ conn' = [conn EXCEPT ![i] = d]
         \/ UNCHANGED <<connections, conn>>
  BY Zenon DEF HandleAccept
<1>3. alive
  BY <1>1, <1>2 DEF IInv, AcceptorInv
<1>4. acceptors' = [acceptors EXCEPT ![a] = r] /\ s \in {"none", "pending", "ok", "failed"}
      /\ (acceptors[a].open => s # "none")
  BY <1>1, <1>2 DEF AcceptorStates
<1> HIDE DEF s
<1>5. r \in AcceptorStates /\ r.open = acceptors[a].open /\ r.accept = s
  BY <1>1, <1>4 DEF AcceptorStates
<1> HIDE DEF r
<1>6. /\ acceptors' \in [Acceptors -> AcceptorStates]
      /\ \A b \in Acceptors : acceptors'[b] = IF b = a THEN r ELSE acceptors[b]
  BY <1>1, <1>4, <1>5
<1>7. AcceptorInv'
  BY <1>2, <1>3, <1>4, <1>5, <1>6 DEF IInv, AcceptorInv, AcceptsAgain
<1>8. CASE UNCHANGED <<connections, conn>>
  BY Zenon, <1>1, <1>2, <1>6, <1>7, <1>8, OnlyAcceptors
<1>9. CASE conn[i].role = "unused" /\ connections' = connections \cup {i}
           /\ conn' = [conn EXCEPT ![i] = d]
  <2> DEFINE member == i \in connections'
             no == FALSE
  <2>1. member /\ member \in BOOLEAN /\ no \in BOOLEAN /\ "server" \in {"client", "server"}
    BY <1>9
  <2>2. conn \in [Conns -> ConnStates] /\ Sound(conn[i], alive, i \in connections)
    BY Zenon, TypeIsConnStates
  <2>3. conn[i] = Fresh("unused", FALSE)
    BY <1>9, <2>2 DEF Sound, Finishes
  <2>4. Settled(conn[i], d)
    <3>1. conn[i].errors = 0
      BY <2>3 DEF Fresh
    <3> HIDE DEF d
    <3>. QED BY <3>1 DEF Settled
  <2>5. d = Fresh("server", no)
    OBVIOUS
  <2> HIDE DEF member, no, d
  <2>6. Sound(d, alive, member)
    BY Zenon, <1>1, <1>3, <2>1, <2>5, FreshIsSound
  <2>7. conn' \in [Conns -> ConnStates] /\ conn'[i] = d
        /\ \A j \in Conns \ {i} : conn'[j] = conn[j]
    BY Zenon, <1>9, <2>2, <2>6 DEF Sound
  <2>8. TypeOK'
    BY Zenon, <1>1, <1>2, <1>6, <1>9, <2>7
       DEF IInv, TypeOK, ConnStates, Calls, Updates, AcceptorStates
  <2>9. ASSUME NEW j \in Conns
        PROVE  Sound(conn'[j], alive', j \in connections') /\ Settled(conn[j], conn'[j])
    <3>1. CASE j = i
      BY <1>2, <2>4, <2>6, <2>7, <3>1 DEF member
    <3>2. CASE j # i
      <4>1. conn'[j] = conn[j] /\ alive' = alive /\ (j \in connections') = (j \in connections)
        BY <1>2, <1>9, <2>7, <3>2
      <4>2. Sound(conn[j], alive, j \in connections)
        BY DEF IInv
      <4>. QED BY <4>1, <4>2 DEF Settled
    <3>. QED BY <3>1, <3>2
  <2>. QED BY Zenon, <1>7, <2>8, <2>9 DEF StepKeeps, IInv, LastSignal
<1>. QED BY Zenon, <1>2, <1>8, <1>9

\* The DoClose that ~TcpTransport posts to a connection in connections_ waits
\* behind the one call that may be posted already.
LEMMA ClosedIsSound ==
  ASSUME NEW c, NEW member \in BOOLEAN, Sound(c, TRUE, member), c.inbox = <<>>, member
  PROVE  Sound([c EXCEPT !.queue = Append(@, "close")], FALSE, FALSE)
<1> DEFINE q == Append(c.queue, "close")
           d == [c EXCEPT !.queue = q]
<1>1. /\ c \in ConnStates /\ c.queue \in Seq(Calls) /\ "close" \in Calls
      /\ InTurn(c, TRUE) /\ Prepared(c, TRUE) /\ Timed(c)
  BY Zenon DEF Sound, ConnStates, Calls
<1>2. Active(c)
  BY DEF Sound, Listed
<1>3. c.role # "unused"
  <2>1. ASSUME c.role = "unused" PROVE FALSE
    <3>1. c = Fresh("unused", FALSE)
      BY Zenon, <2>1 DEF Sound, Finishes
    <3>2. c.op = "none" /\ ~c.dispatch /\ c.queue = <<>>
      BY <3>1 DEF Fresh
    <3>. QED BY Zenon, <1>2, <3>2 DEF Active
  <2>. QED BY <2>1
<1>4. Len(c.queue) = 0 \/ Len(c.queue) = 1
  <2> DEFINE n == Len(c.queue)
  <2>1. n \in Nat /\ n <= 2 /\ n # 2
    BY <1>1 DEF InTurn
  <2> HIDE DEF n
  <2>2. n = 0 \/ n = 1
    BY <2>1
  <2>. QED BY <2>2 DEF n
<1>5. c.op # "none" \/ c.dispatch => Len(c.queue) = 0
  BY <1>1 DEF InTurn, OnlyClose
<1>6. /\ q \in Seq(Calls) /\ Len(q) = Len(c.queue) + 1 /\ q[Len(c.queue) + 1] = "close"
      /\ \A k \in 1 .. Len(c.queue) : q[k] = c.queue[k]
  BY <1>1
<1> HIDE DEF q
<1>7. /\ d \in ConnStates /\ d.op = c.op /\ d.done = c.done /\ d.dispatch = c.dispatch
      /\ d.queue = q /\ d.role = c.role /\ d.inbox = c.inbox /\ d.errors = c.errors
      /\ d.messages = c.messages /\ d.open = c.open /\ d.expires = c.expires
      /\ d.waits = c.waits /\ d.woken = c.woken
  BY Zenon, <1>1, <1>6 DEF ConnStates
<1>8. d = [c EXCEPT !.queue = Append(@, "close")]
  BY DEF q
<1> HIDE DEF d
<1>9. CASE Len(c.queue) = 0
  <2>1. Len(q) = 1 /\ q[1] = "close"
    BY <1>6, <1>9
  <2>2. InTurn(d, FALSE)
    BY <1>1, <1>7, <2>1 DEF InTurn, OnlyClose
  <2>3. Prepared(d, FALSE)
    BY <1>1, <1>7, <2>1 DEF Prepared
  <2>4. Timed(d) /\ Finishes(d, FALSE) /\ Listed(d, FALSE, FALSE)
    BY Zenon, <1>1, <1>3, <1>7 DEF Timed, Finishes, Listed
  <2>. QED BY Zenon, <1>7, <1>8, <2>2, <2>3, <2>4 DEF Sound
<1>10. CASE Len(c.queue) = 1
  <2>1. Len(q) = 2 /\ q[2] = "close" /\ q[1] = c.queue[1] /\ c.queue # <<>>
    BY <1>6, <1>10
  <2>2. c.op = "none" /\ ~c.dispatch
    BY <1>5, <1>10
  <2>3. InTurn(d, FALSE)
    BY <1>1, <1>7, <2>1, <2>2 DEF InTurn, OnlyClose
  <2>4. Prepared(d, FALSE)
    BY <1>1, <1>7, <2>1, <2>2 DEF Prepared
  <2>5. Timed(d) /\ Finishes(d, FALSE) /\ Listed(d, FALSE, FALSE)
    BY Zenon, <1>1, <1>3, <1>7 DEF Timed, Finishes, Listed
  <2>. QED BY Zenon, <1>7, <1>8, <2>3, <2>4, <2>5 DEF Sound
<1>. QED BY Zenon, <1>4, <1>9, <1>10

\* ~TcpTransport leaves alone a connection that has ended.
LEMMA LeftAloneIsSound ==
  ASSUME NEW c, NEW member \in BOOLEAN, Sound(c, TRUE, member), c.inbox = <<>>
  PROVE  Sound(c, FALSE, FALSE)
<1>1. /\ c \in ConnStates /\ InTurn(c, TRUE) /\ Prepared(c, TRUE) /\ Timed(c)
      /\ Finishes(c, TRUE)
  BY Zenon DEF Sound
<1>2. InTurn(c, FALSE)
  BY <1>1 DEF InTurn, OnlyClose
<1>3. Prepared(c, FALSE) /\ Finishes(c, FALSE) /\ Listed(c, FALSE, FALSE)
  BY Zenon, <1>1 DEF Prepared, Finishes, Listed
<1>. QED BY Zenon, <1>1, <1>2, <1>3 DEF Sound

\* ~TcpTransport keeps the invariant.
LEMMA DestroyKeeps ==
  ASSUME IInv, Destroy
  PROVE  StepKeeps
<1>1. /\ alive = TRUE /\ alive' = FALSE /\ connections' = {} /\ UNCHANGED <<listening, acceptors>>
      /\ \A a \in Acceptors : acceptors[a].accept = "none"
      /\ \A i \in Conns : conn[i].inbox = <<>>
      /\ conn' = [i \in Conns |-> IF i \in connections
                                   THEN [conn[i] EXCEPT !.queue = Append(@, "close")]
                                   ELSE conn[i]]
  BY DEF Destroy, IInv, TypeOK
<1>2. AcceptorInv'
  BY Zenon, <1>1 DEF IInv, AcceptorInv, AcceptsAgain
<1>3. ASSUME NEW i \in Conns
      PROVE  /\ Sound(conn'[i], alive', i \in connections') /\ Settled(conn[i], conn'[i])
             /\ conn'[i] \in ConnStates
  <2> DEFINE member == i \in connections
             d == [conn[i] EXCEPT !.queue = Append(@, "close")]
  <2>1. conn[i] \in ConnStates /\ member \in BOOLEAN /\ Sound(conn[i], TRUE, member)
    BY Zenon, <1>1, TypeIsConnStates
  <2>2. conn[i].inbox = <<>> /\ (i \in connections') = FALSE /\ alive' = FALSE
    BY <1>1
  <2>3. CASE i \in connections
    <3>1. conn'[i] = d /\ member
      BY <1>1, <2>3
    <3>2. d.errors = conn[i].errors /\ d.messages = conn[i].messages
      BY <2>1 DEF ConnStates
    <3> HIDE DEF member
    <3>3. Sound(d, FALSE, FALSE)
      BY Zenon, <2>1, <2>2, <3>1, ClosedIsSound
    <3> HIDE DEF d
    <3>. QED BY Zenon, <2>2, <3>1, <3>2, <3>3 DEF Settled, Sound
  <2>4. CASE i \notin connections
    <3>1. conn'[i] = conn[i]
      BY <1>1, <2>4
    <3> HIDE DEF member
    <3>2. Sound(conn[i], FALSE, FALSE)
      BY Zenon, <2>1, <2>2, LeftAloneIsSound
    <3>. QED BY Zenon, <2>1, <2>2, <3>1, <3>2 DEF Settled
  <2>. QED BY <2>3, <2>4
<1>4. conn' \in [Conns -> ConnStates]
  <2>1. DOMAIN conn' = Conns /\ conn' = [i \in Conns |-> conn'[i]]
    BY <1>1
  <2>. QED BY <1>3, <2>1
<1>5. TypeOK'
  BY Zenon, <1>1, <1>4 DEF IInv, TypeOK, ConnStates, Calls, Updates
<1>. QED BY <1>2, <1>3, <1>5 DEF StepKeeps, IInv, LastSignal

\* A transport that was just made satisfies the invariant.
LEMMA InitHolds ==
  ASSUME TcpAssumption, Init
  PROVE  IInv
<1> DEFINE u == Fresh("unused", FALSE)
<1>1. u = [role |-> "unused", open |-> FALSE, op |-> "none", done |-> "none",
           expires |-> "unset", overdue |-> FALSE, waits |-> 0, woken |-> 0, left |-> 0,
           immediate |-> FALSE, dispatch |-> FALSE, queue |-> <<>>, inbox |-> <<>>,
           reads |-> MaxReads, errors |-> 0, messages |-> 0]
  BY Zenon DEF Fresh
<1> HIDE DEF u
<1>2. u \in ConnStates
  <2>1. <<>> \in Seq(Calls) /\ <<>> \in Seq(Updates) /\ 0 \in 0 .. MaxSize
        /\ MaxReads \in 0 .. MaxReads
    BY DEF TcpAssumption
  <2>. QED BY <1>1, <2>1 DEF ConnStates
<1>3. /\ ~u.open /\ u.op = "none" /\ u.done = "none" /\ ~u.dispatch /\ u.queue = <<>>
      /\ u.inbox = <<>> /\ u.errors = 0
  BY <1>1
<1>4. Sound(u, TRUE, FALSE)
  <2>1. Len(u.queue) = 0
    BY <1>3
  <2>2. InTurn(u, TRUE)
    BY <1>3, <2>1 DEF InTurn, OnlyClose
  <2>3. Prepared(u, TRUE) /\ Timed(u) /\ Listed(u, TRUE, FALSE)
    BY <1>3 DEF Prepared, Timed, Listed, Active
  <2>4. ~Active(u)
    BY <1>3 DEF Active
  <2>5. Finishes(u, TRUE)
    <3>1. u = Fresh("unused", FALSE)
      BY DEF u
    <3>2. ~(u.errors > 0) /\ ~u.open
      BY <1>3
    <3>. QED BY Zenon, <2>4, <3>1, <3>2 DEF Finishes
  <2>. QED BY Zenon, <1>2, <2>2, <2>3, <2>5 DEF Sound
<1>5. /\ alive = TRUE /\ listening = 0 /\ acceptors = [a \in Acceptors |-> NoAcceptor]
      /\ connections = {} /\ conn = [i \in Conns |-> u]
  BY DEF Init, u
<1>6. conn \in [Conns -> ConnStates]
  BY Zenon, <1>2, <1>5
<1>7. TypeOK
  BY <1>5, <1>6 DEF TypeOK, ConnStates, Calls, Updates, NoAcceptor, TcpAssumption
<1>8. AcceptorInv
  BY <1>5 DEF AcceptorInv, AcceptsAgain, NoAcceptor
<1>9. ASSUME NEW i \in Conns PROVE Sound(conn[i], alive, i \in connections)
  <2>1. (i \in connections) = FALSE /\ conn[i] = u /\ alive = TRUE
    BY <1>5
  <2>. QED BY Zenon, <1>4, <2>1
<1>. QED BY <1>7, <1>8, <1>9 DEF IInv

\* Everything that is posted for a connection keeps the invariant.
LEMMA PostedKeeps ==
  ASSUME TcpAssumption, IInv, NEW i \in Conns, Posted(i)
  PROVE  StepKeeps
<1> DEFINE member == i \in connections
<1>1. alive \in BOOLEAN /\ member \in BOOLEAN /\ Sound(conn[i], alive, member)
  BY TypeIsConnStates
<1> HIDE DEF member
<1>2. ASSUME NEW size \in 0 .. MaxSize, Handle(i, size) PROVE StepKeeps
  BY Zenon, <1>1, <1>2, HandleGoes, SetKeeps DEF member
<1>3. CASE RunPosted(i)
  BY Zenon, <1>1, <1>3, RunPostedGoes, SetKeeps DEF member
<1>4. CASE Check(i)
  BY Zenon, <1>1, <1>4, CheckGoes, SetKeeps DEF member
<1>5. ASSUME NEW reply \in BOOLEAN, NEW immediate \in BOOLEAN, Dispatch(i, reply, immediate)
      PROVE  StepKeeps
  BY Zenon, <1>1, <1>5, DispatchGoes, SetKeeps DEF member
<1>6. CASE UpdateConnections(i)
  BY <1>6, UpdateKeeps
<1>. QED BY Zenon, <1>2, <1>3, <1>4, <1>5, <1>6 DEF Posted

\* Every step keeps the invariant, and an error stays the last signal.
LEMMA NextKeeps ==
  ASSUME TcpAssumption, IInv, Next
  PROVE  StepKeeps
<1>1. ASSUME NEW i \in Conns, Posted(i) PROVE StepKeeps
  BY <1>1, PostedKeeps
<1>2. ASSUME NEW i \in Conns, NEW all \in BOOLEAN, Elapse(i, all) PROVE StepKeeps
  <2> DEFINE member == i \in connections
  <2>1. alive \in BOOLEAN /\ member \in BOOLEAN /\ Sound(conn[i], alive, member)
    BY TypeIsConnStates
  <2> HIDE DEF member
  <2>. QED BY Zenon, <1>2, <2>1, ElapseGoes, SetKeeps DEF member
<1>3. ASSUME NEW i \in Conns, NEW result \in {"ok", "failed"}, Finish(i, result) PROVE StepKeeps
  <2> DEFINE member == i \in connections
  <2>1. alive \in BOOLEAN /\ member \in BOOLEAN /\ Sound(conn[i], alive, member)
    BY TypeIsConnStates
  <2> HIDE DEF member
  <2>. QED BY Zenon, <1>3, <2>1, FinishGoes, SetKeeps DEF member
<1>4. ASSUME NEW i \in Conns, NEW immediate \in BOOLEAN, Send(i, immediate) PROVE StepKeeps
  BY <1>4, SendKeeps
<1>5. ASSUME NEW a \in Acceptors,
             \/ StartListening(a) \/ CloseAcceptor(a)
             \/ \E result \in {"ok", "failed"} : Accept(a, result)
      PROVE  StepKeeps
  BY <1>5, AcceptorsKeep
<1>6. ASSUME NEW a \in Acceptors, NEW i \in Conns, HandleAccept(a, i) PROVE StepKeeps
  BY <1>6, HandleAcceptKeeps
<1>7. CASE StopListening
  BY <1>7, StopListeningKeeps
<1>8. CASE Destroy
  BY Zenon, <1>8, DestroyKeeps
<1>. QED BY Zenon, <1>1, <1>2, <1>3, <1>4, <1>5, <1>6, <1>7, <1>8 DEF Next

\* A step that changes nothing keeps the invariant.
LEMMA StutterKeeps ==
  ASSUME IInv, UNCHANGED vars
  PROVE  IInv'
<1>1. TypeOK' /\ AcceptorInv'
  BY DEF IInv, TypeOK, AcceptorInv, AcceptsAgain, vars
<1>2. ASSUME NEW j \in Conns PROVE Sound(conn'[j], alive', j \in connections')
  BY DEF IInv, vars
<1>. QED BY Zenon, <1>1, <1>2 DEF IInv

\* The invariant holds throughout, for every set of connections, every number
\* of acceptors and all sizes of messages.
THEOREM Invariance ==
  ASSUME TcpAssumption
  PROVE  Spec => []IInv
<1>1. Init => IInv
  BY InitHolds
<1>2. IInv /\ [Next]_vars => IInv'
  BY Zenon, NextKeeps, StutterKeeps DEF StepKeeps
<1>. QED BY <1>1, <1>2, PTL DEF Spec

\* The invariant implies what the transport keeps.
LEMMA IInvKeeps ==
  ASSUME IInv
  PROVE  TcpIsKept
<1>1. TypeOK /\ AcceptsAgain
  BY Zenon DEF IInv, AcceptorInv
<1>2. ASSUME NEW i \in Conns
      PROVE  /\ conn[i].queue # <<>> /\ Head(conn[i].queue) = "write" => conn[i].open
             /\ conn[i].queue # <<>> /\ Head(conn[i].queue) = "start" =>
                  (conn[i].open <=> conn[i].role = "server")
  <2>1. conn[i] \in ConnStates /\ Prepared(conn[i], alive)
    BY Zenon, TypeIsConnStates DEF Sound
  <2>2. conn[i].queue # <<>> => Head(conn[i].queue) = conn[i].queue[1]
    BY <2>1 DEF ConnStates
  <2>. QED BY <2>1, <2>2 DEF Prepared
<1>3. ASSUME NEW i \in Conns
      PROVE  conn[i].open /\ conn[i].op \in {"size", "data", "write"} =>
               conn[i].waits + conn[i].woken > 0
  BY Zenon, TypeIsConnStates DEF Sound, Timed
<1>4. ASSUME NEW i \in Conns
      PROVE  /\ ~Busy(conn[i]) => i \notin connections
             /\ alive /\ conn[i].open =>
                  i \in connections \/ \E k \in DOMAIN conn[i].inbox : conn[i].inbox[k] = "insert"
  <2> DEFINE c == conn[i]
             member == i \in connections
  <2>1. /\ c \in ConnStates /\ alive \in BOOLEAN /\ member \in BOOLEAN
        /\ Sound(c, alive, member)
    BY TypeIsConnStates
  <2>2. Listed(c, alive, member) /\ Finishes(c, alive)
    BY Zenon, <2>1 DEF Sound
  <2> HIDE DEF c
  <2>3. ASSUME ~Busy(c) PROVE ~member
    <3>1. ~Active(c) /\ c.inbox = <<>>
      BY <2>3 DEF Busy, Active
    <3>. QED BY <2>1, <2>2, <3>1 DEF Listed
  <2>4. ASSUME alive, c.open, ~member PROVE \E k \in DOMAIN c.inbox : c.inbox[k] = "insert"
    <3>1. Active(c)
      BY <2>2, <2>4 DEF Finishes
    <3>2. Len(c.inbox) = 1 /\ c.inbox[1] = "insert"
      BY <2>2, <2>4, <3>1 DEF Listed
    <3>3. DOMAIN c.inbox = 1 .. Len(c.inbox)
      BY <2>1 DEF ConnStates
    <3>. QED BY <3>2, <3>3
  <2>. QED BY <2>1, <2>3, <2>4 DEF c
<1>. QED BY Zenon, <1>1, <1>2, <1>3, <1>4 DEF TcpIsKept, AssertsHold, Watched, Registered

\* TcpIsKept for all constants: the assertions of StartReadSize, StartConnect
\* and StartWrite hold when these run, a transfer always has a CheckTimeout to
\* come, connections_ neither misses an open connection nor keeps one that has
\* ended, and a transport that listens accepts again.
THEOREM IsKept ==
  ASSUME TcpAssumption
  PROVE  Spec => []TcpIsKept
<1>1. IInv => TcpIsKept
  BY IInvKeeps
<1>. QED BY <1>1, Invariance, PTL

\* ErrorIsLast for all constants: after CloseOnError has signalled an error, a
\* connection signals neither a message nor another error, also while
\* ~TcpTransport runs.
THEOREM ErrorStaysLast ==
  ASSUME TcpAssumption
  PROVE  Spec => ErrorIsLast
<1>1. IInv /\ [Next]_vars =>
        [\A i \in Conns : conn[i].errors > 0 =>
           conn'[i].errors = conn[i].errors /\ conn'[i].messages = conn[i].messages]_vars
  BY NextKeeps DEF StepKeeps, LastSignal, Settled
<1>. QED BY <1>1, Invariance, PTL DEF Spec, ErrorIsLast

=============================================================================
