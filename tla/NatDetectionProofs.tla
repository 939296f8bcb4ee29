------------------------- MODULE NatDetectionProofs -------------------------
(***************************************************************************)
(* What NatDetectionService tells the nodes about their NATs is true of    *)
(* the nodes whose outcomes its calls have used, and it tells it once, for *)
(* any number of nodes, ports, threads and failures.                       *)
(***************************************************************************)
EXTENDS NatDetectionService, TLAPS

-----------------------------------------------------------------------------
(* The inductive invariant.                                                *)

\* The messages that nodes A and ports U can send each other.
MessagesOver(A, U) ==
  [type : {"NatDetectionRequest"}, o : A, port : {0}, value : BOOLEAN]
  \cup [type : {"ProxyConnectRequest", "ProxyConnectResponse"}, o : A, port : U, value : BOOLEAN]
  \cup [type : {"ForwardRendezvousRequest", "RendezvousRequest"}, o : A, port : U, value : {TRUE}]
  \cup [type : {"NatDetectionResponse"}, o : A, port : {0}, value : Types \ {"kPortRestricted"}]
  \cup [type : {"NatDetectionResponse"}, o : A, port : U, value : {"kPortRestricted"}]

ConnectionsOver(A, U) == [port : U, o : A, late : BOOLEAN]
OutcomesOver(A) == [o : A, port : Ports, condition : BOOLEAN, result : BOOLEAN, todo : SUBSET A]

Calls == [pc : {"idle", "sent", "waiting", "woken", "done"}, of : Originators \cup {Nobody},
          condition : BOOLEAN, result : BOOLEAN]

\* The types, in full: nodes that have asked, and ports in use.
Shape ==
  /\ asked \subseteq Originators /\ used \subseteq Ports /\ connected \subseteq asked
  /\ messages \subseteq MessagesOver(asked, used)
  /\ connecting \subseteq ConnectionsOver(asked, used)
  /\ emitting \subseteq OutcomesOver(asked)
  /\ call \in [Originators -> Calls]
  /\ holes \in [Originators -> SUBSET used]
  /\ answers \in [Originators -> SUBSET Types]

\* The first attempt to reach a node, and the second one, with the help of the node.
FirstRequest(m) == m.type = "ProxyConnectRequest" /\ ~m.value
SecondRequest(m) == m.type = "ProxyConnectRequest" /\ m.value
Helps(m) == m.type \in {"ForwardRendezvousRequest", "RendezvousRequest"}

FirstAt(p) == \/ \E m \in messages : FirstRequest(m) /\ m.port = p
              \/ \E c \in connecting : c.port = p
SecondAt(p) == \/ \E m \in messages : (SecondRequest(m) \/ Helps(m)) /\ m.port = p
               \/ \E o \in Originators : p \in holes[o]

\* A port serves one of the two attempts: no node has opened its NAT to a port
\* from which it is tried to be reached without its help.
PortsApart == \A p \in used : ~(FirstAt(p) /\ SecondAt(p))

\* A proxy tries to reach a node.
Tried(o) == call[o].pc # "idle" /\ nat[o] # "direct"

\* What the outcome of an attempt says of the NAT.  (The outcome of the second attempt is
\* always the same; the call for the node has returned then.)
OutcomeTrue(o, result) ==
  IF result THEN nat[o] = "full_cone"
  ELSE o \in lost \/ nat[o] # "full_cone" \/ call[o].pc = "done"

\* A verdict, with the outcome that the call has used and that cannot change any more.
IsTrue(o, type) ==
  /\ type = "kDirectConnected" => nat[o] = "direct"
  /\ type \in {"kNotConnected", "kFullCone", "kPortRestricted"} => nat[o] # "direct"
  /\ type \in {"kFullCone", "kPortRestricted"} => call[o].pc = "done"
  /\ type = "kFullCone" => call[o].of \in Originators /\ nat[call[o].of] = "full_cone"
  /\ type = "kPortRestricted" => nat[o] # "full_cone" \/ o \in lost \/ call[o].of # o

MessageTrue(m) ==
  /\ m.type = "ProxyConnectRequest" => Tried(m.o)
  /\ m.type = "ProxyConnectResponse" => OutcomeTrue(m.o, m.value)
  /\ m.type = "NatDetectionResponse" => IsTrue(m.o, m.value)
  /\ SecondRequest(m) => IsTrue(m.o, "kPortRestricted")

CallTrue(o) ==
  /\ call[o].pc # "idle" => nat[o] # "direct"
  /\ call[o].result => call[o].of \in Originators /\ nat[call[o].of] = "full_cone"
  /\ ~call[o].result /\ call[o].of = o => o \in lost \/ nat[o] # "full_cone"

AnswerTrue(o, type) ==
  IsTrue(o, type) /\ (type = "kPortRestricted" => nat[o] \in {"full_cone", "port_restricted"})

\* What is on its way, what the calls hold and what was told are true.
Truth ==
  /\ \A m \in messages : MessageTrue(m)
  /\ \A c \in connecting : Tried(c.o)
  /\ \A e \in emitting : OutcomeTrue(e.o, e.result)
  /\ \A o \in Originators : CallTrue(o) /\ \A type \in answers[o] : AnswerTrue(o, type)

\* What will become the answer to m.o.
Source(m) == m.type \in {"NatDetectionRequest", "NatDetectionResponse"} \/ SecondRequest(m)

\* The answer to a node, or what will become it, is in one place.
OneSource ==
  /\ \A m, n \in messages : Source(m) /\ Source(n) /\ m.o = n.o => m = n
  /\ \A m \in messages : Source(m) => answers[m.o] = {} /\ m.o \notin Running
  /\ \A o \in Running : answers[o] = {}
  /\ \A o \in Originators : \A x, y \in answers[o] : x = y
  /\ \A o \in Originators \ asked : answers[o] = {} /\ call[o].pc = "idle"
  /\ \A m \in messages : m.type = "NatDetectionRequest" => call[m.o].pc = "idle"

Inv == Shape /\ PortsApart /\ Truth /\ OneSource

-----------------------------------------------------------------------------
(* Lemmas.                                                                 *)

LEMMA MoreMessages ==
  ASSUME NEW A, NEW U, NEW B, NEW V, A \subseteq B, U \subseteq V
  PROVE  /\ MessagesOver(A, U) \subseteq MessagesOver(B, V)
         /\ ConnectionsOver(A, U) \subseteq ConnectionsOver(B, V)
         /\ OutcomesOver(A) \subseteq OutcomesOver(B)
<1>1. OutcomesOver(A) \subseteq OutcomesOver(B)
  BY DEF OutcomesOver
<1>. QED
  BY Zenon, <1>1 DEF MessagesOver, ConnectionsOver

LEMMA MessageTypes ==
  ASSUME NEW A, NEW U, NEW o \in A
  PROVE  /\ \A v \in BOOLEAN : Message("NatDetectionRequest", o, 0, v) \in MessagesOver(A, U)
         /\ \A t \in Types \ {"kPortRestricted"} :
              Message("NatDetectionResponse", o, 0, t) \in MessagesOver(A, U)
         /\ \A p \in U :
              /\ \A v \in BOOLEAN :
                   /\ Message("ProxyConnectRequest", o, p, v) \in MessagesOver(A, U)
                   /\ Message("ProxyConnectResponse", o, p, v) \in MessagesOver(A, U)
              /\ Message("ForwardRendezvousRequest", o, p, TRUE) \in MessagesOver(A, U)
              /\ Message("RendezvousRequest", o, p, TRUE) \in MessagesOver(A, U)
              /\ Message("NatDetectionResponse", o, p, "kPortRestricted") \in MessagesOver(A, U)
BY DEF MessagesOver, Message

\* The fields of a message.
LEMMA MessageFields ==
  ASSUME NEW A, NEW U, NEW m \in MessagesOver(A, U)
  PROVE  /\ m.o \in A /\ m.port \in U \cup {0}
         /\ m.type \in {"ProxyConnectRequest", "ProxyConnectResponse"} =>
              m.port \in U /\ m.value \in BOOLEAN
         /\ m.type \in {"ForwardRendezvousRequest", "RendezvousRequest"} =>
              m.port \in U /\ m.value = TRUE
         /\ m.type = "NatDetectionRequest" => m.port = 0 /\ m.value \in BOOLEAN
         /\ m.type = "NatDetectionResponse" =>
              /\ m.value \in Types
              /\ \/ m.port = 0 /\ m.value # "kPortRestricted"
                 \/ m.port \in U /\ m.value = "kPortRestricted"
BY Zenon DEF MessagesOver, Types

LEMMA ConnectionFields ==
  ASSUME NEW A, NEW U, NEW c \in ConnectionsOver(A, U)
  PROVE  c.o \in A /\ c.port \in U /\ c.late \in BOOLEAN
BY DEF ConnectionsOver

LEMMA OutcomeFields ==
  ASSUME NEW A, NEW e \in OutcomesOver(A)
  PROVE  /\ e.o \in A /\ e.condition \in BOOLEAN /\ e.result \in BOOLEAN /\ e.todo \subseteq A
         /\ \A o : [e EXCEPT !.todo = @ \ {o}] \in OutcomesOver(A)
                   /\ [e EXCEPT !.todo = @ \ {o}].o = e.o
                   /\ [e EXCEPT !.todo = @ \ {o}].result = e.result
BY DEF OutcomesOver

\* Everything that is on its way is about a node that has asked.
LEMMA AboutNodes ==
  ASSUME Inv
  PROVE  /\ \A m \in messages : m.o \in asked /\ m.o \in Originators
         /\ \A c \in connecting : c.o \in asked /\ c.o \in Originators
         /\ \A e \in emitting : e.o \in asked /\ e.o \in Originators /\ e.result \in BOOLEAN
<1>1. \A m \in MessagesOver(asked, used) : m.o \in asked
  BY Zenon, MessageFields
<1>2. \A c \in ConnectionsOver(asked, used) : c.o \in asked
  BY Zenon, ConnectionFields
<1>3. \A e \in OutcomesOver(asked) : e.o \in asked /\ e.result \in BOOLEAN
  BY Zenon, OutcomeFields
<1>. QED
  BY Zenon, <1>1, <1>2, <1>3 DEF Inv, Shape

\* What no step undoes: a failure, and what a call that has returned holds.
Later ==
  /\ nat' = nat /\ lost \subseteq lost'
  /\ \A o \in Originators : /\ call[o].pc = "done" => call'[o] = call[o]
                            /\ call[o].pc # "idle" => call'[o].pc # "idle"

LEMMA StaysTrue ==
  ASSUME Later, NEW o \in Originators
  PROVE  /\ Tried(o) => Tried(o)'
         /\ \A type : IsTrue(o, type) => IsTrue(o, type)'
         /\ \A type : AnswerTrue(o, type) => AnswerTrue(o, type)'
         /\ \A result : OutcomeTrue(o, result) => OutcomeTrue(o, result)'
<1>1. Tried(o) => Tried(o)'
  BY Zenon DEF Later, Tried
<1>2. \A type : IsTrue(o, type) => IsTrue(o, type)'
  BY DEF Later, IsTrue
<1>3. \A type : AnswerTrue(o, type) => AnswerTrue(o, type)'
  BY Zenon, <1>2 DEF AnswerTrue, Later
<1>4. \A result : OutcomeTrue(o, result) => OutcomeTrue(o, result)'
  BY Zenon DEF Later, OutcomeTrue
<1>. QED
  BY Zenon, <1>1, <1>2, <1>3, <1>4

LEMMA MessageStaysTrue ==
  ASSUME Later, NEW m, m.o \in Originators, MessageTrue(m) PROVE MessageTrue(m)'
BY Zenon, StaysTrue DEF MessageTrue, SecondRequest

\* A step keeps Truth if what it adds is true.
LEMMA TruthKept ==
  ASSUME Inv, Later,
         \A m \in messages' : m \in messages \/ MessageTrue(m)',
         \A c \in connecting' : (\E d \in connecting : c.o = d.o) \/ Tried(c.o)',
         \A e \in emitting' : \/ \E d \in emitting : e.o = d.o /\ e.result = d.result
                              \/ OutcomeTrue(e.o, e.result)',
         \A o \in Originators : CallTrue(o)',
         \A o \in Originators : \A type \in answers'[o] : type \in answers[o] \/ AnswerTrue(o, type)'
  PROVE  Truth'
<1>1. \A m \in messages' : MessageTrue(m)'
  BY Zenon, AboutNodes, MessageStaysTrue DEF Inv, Truth
<1>2. \A c \in connecting' : Tried(c.o)'
  BY Zenon, AboutNodes, StaysTrue DEF Inv, Truth
<1>3. \A e \in emitting' : OutcomeTrue(e.o, e.result)'
  BY Zenon, AboutNodes, StaysTrue DEF Inv, Truth
<1>4. \A o \in Originators : \A type \in answers'[o] : AnswerTrue(o, type)'
  BY Zenon, StaysTrue DEF Inv, Truth
<1>. QED
  BY Zenon, <1>1, <1>2, <1>3, <1>4 DEF Truth

\* While the calls stay as they are.
LEMMA CallsKept ==
  ASSUME Inv, UNCHANGED <<nat, call>>, lost \subseteq lost'
  PROVE  Later /\ (\A o \in Originators : CallTrue(o)') /\ Running' = Running
<1>1. Later
  BY Zenon DEF Later
<1>2. \A o \in Originators : CallTrue(o)'
  BY Zenon DEF Inv, Truth, CallTrue
<1>. QED
  BY Zenon, <1>1, <1>2 DEF Running

-----------------------------------------------------------------------------
(* The steps.                                                              *)

LEMMA AskKeeps == ASSUME Inv, NEW o \in Originators, Ask(o) PROVE Inv'
<1>. DEFINE new == Message("NatDetectionRequest", o, 0, o \in Full)
<1>1. /\ o \notin asked /\ asked' = asked \cup {o} /\ messages' = messages \cup {new}
      /\ UNCHANGED <<nat, call, connected, emitting, used, connecting, holes, answers, lost>>
  BY DEF Ask, callVars, proxyVars
<1>2. new.type = "NatDetectionRequest" /\ new.o = o /\ new.port = 0
  BY DEF Message
<1>3. Shape'
  <2>. DEFINE accepts == o \in Full
  <2>0. accepts \in BOOLEAN
    OBVIOUS
  <2>1. new \in MessagesOver(asked', used')
    BY Zenon, <1>1, <2>0, MessageTypes
  <2>. QED
    BY Zenon, <1>1, <2>1, MoreMessages DEF Inv, Shape
<1>. HIDE DEF new
<1>4. PortsApart'
  BY Zenon, <1>1, <1>2
  DEF Inv, PortsApart, FirstAt, SecondAt, FirstRequest, SecondRequest, Helps
<1>5. MessageTrue(new)'
  BY <1>2 DEF MessageTrue, SecondRequest
<1>6. Truth'
  BY Zenon, <1>1, <1>5, CallsKept, TruthKept
<1>7. OneSource'
  <2>1. Running' = Running
    BY Zenon, <1>1 DEF Running
  <2>2. /\ answers[o] = {} /\ call[o].pc = "idle" /\ o \notin Running
        /\ \A m \in messages : m.o # o
    BY <1>1, AboutNodes DEF Inv, OneSource, Running
  <2>3. \A m, n \in messages' : Source(m) /\ Source(n) /\ m.o = n.o => m = n
    BY Zenon, <1>1, <1>2, <2>2 DEF Inv, OneSource
  <2>4. \A m \in messages' : Source(m) => answers[m.o] = {} /\ m.o \notin Running
    BY Zenon, <1>1, <1>2, <2>2 DEF Inv, OneSource
  <2>5. \A m \in messages' : m.type = "NatDetectionRequest" => call[m.o].pc = "idle"
    BY Zenon, <1>1, <1>2, <2>2 DEF Inv, OneSource
  <2>. QED
    BY Zenon, <1>1, <2>1, <2>3, <2>4, <2>5 DEF Inv, OneSource
<1>. QED
  BY Zenon, <1>3, <1>4, <1>6, <1>7 DEF Inv

\* A step of a call that only changes where it is.
LEMMA MoveKeeps ==
  ASSUME Inv, NEW o \in Originators, NEW condition \in BOOLEAN,
         call[o].pc \in {"sent", "waiting"},
         NEW pc \in {"waiting", "woken"},
         call' = [call EXCEPT ![o].pc = pc, ![o].condition = condition],
         UNCHANGED <<nat, asked, connected, emitting, messages, used, connecting, holes, answers,
                     lost>>
  PROVE  Inv'
<1>1. call \in [Originators -> Calls]
  BY Zenon DEF Inv, Shape
<1>2. /\ call' \in [Originators -> Calls]
      /\ \A p \in Originators \ {o} : call'[p] = call[p]
      /\ call'[o].pc = pc /\ call'[o].of = call[o].of /\ call'[o].result = call[o].result
  BY <1>1 DEF Calls
<1>3. Shape' /\ PortsApart'
  BY Zenon, <1>2 DEF Inv, Shape, PortsApart, FirstAt, SecondAt
<1>4. Later
  BY <1>2 DEF Later
<1>5. \A p \in Originators : CallTrue(p)'
  BY <1>2 DEF Inv, Truth, CallTrue
<1>6. Truth'
  BY Zenon, <1>4, <1>5, TruthKept
<1>7. Running' = Running
  BY <1>2 DEF Running
<1>8. o \in Running /\ o \in asked /\ \A m \in messages : Source(m) => m.o # o
  <2>1. o \in Running
    BY DEF Running
  <2>. QED
    BY <2>1 DEF Inv, OneSource
<1>9. \A m \in messages : m.type = "NatDetectionRequest" => call'[m.o].pc = "idle"
  BY <1>2, <1>8, AboutNodes DEF Inv, OneSource, Source
<1>10. \A p \in Originators \ asked : call'[p].pc = "idle"
  BY <1>2, <1>8 DEF Inv, OneSource
<1>11. OneSource'
  BY ZenonT(60), <1>7, <1>9, <1>10 DEF Inv, OneSource
<1>. QED
  BY Zenon, <1>3, <1>6, <1>11 DEF Inv

LEMMA WaitKeeps == ASSUME Inv, NEW o \in Originators, Wait(o) PROVE Inv'
<1>1. call[o] \in Calls /\ call \in [Originators -> Calls]
  BY Zenon DEF Inv, Shape
<1>2. /\ call[o].pc = "sent" /\ call' = [call EXCEPT ![o].pc = "waiting"]
      /\ UNCHANGED <<nat, asked, connected, emitting, messages, used, connecting, holes, answers,
                     lost>>
  BY DEF Wait, world, proxyVars
<1>3. /\ call[o].condition \in BOOLEAN
      /\ call' = [call EXCEPT ![o].pc = "waiting", ![o].condition = call[o].condition]
  BY <1>1, <1>2 DEF Calls
<1>. QED
  BY Zenon, <1>2, <1>3, MoveKeeps

LEMMA WakeUpKeeps == ASSUME Inv, NEW o \in Originators, WakeUp(o) PROVE Inv'
<1>1. call[o].condition \in BOOLEAN
  BY DEF Inv, Shape, Calls
<1>2. /\ call[o].pc = "waiting"
      /\ UNCHANGED <<nat, asked, connected, emitting, messages, used, connecting, holes, answers,
                     lost>>
  BY DEF WakeUp, world, proxyVars
<1>3. PICK condition \in BOOLEAN :
        call' = [call EXCEPT ![o].pc = "woken", ![o].condition = condition]
  BY <1>1 DEF WakeUp
<1>. QED
  BY Zenon, <1>2, <1>3, MoveKeeps

\* A port that is not in use belongs to nothing.
LEMMA FreshPort ==
  ASSUME Inv, NEW port \in Ports \ used
  PROVE  /\ \A n \in messages : n.port # port
         /\ \A c \in connecting : c.port # port
         /\ \A o \in Originators : port \notin holes[o]
<1>1. port # 0
  BY ServiceAssumption
<1>2. \A n \in messages : n.port # port
  <2>1. \A n \in MessagesOver(asked, used) : n.port \in used \cup {0}
    BY Zenon, MessageFields
  <2>. QED
    BY <1>1, <2>1 DEF Inv, Shape
<1>3. \A c \in connecting : c.port # port
  BY ConnectionFields DEF Inv, Shape
<1>. QED
  BY <1>2, <1>3 DEF Inv, Shape

\* The request is answered at once, or a proxy gets a port that is not in use.
LEMMA NatDetectionKeeps == ASSUME Inv, NEW m \in messages, NatDetection(m) PROVE Inv'
<1>1. /\ m.type = "NatDetectionRequest"
      /\ UNCHANGED <<nat, asked, emitting, connecting, holes, answers, lost>>
  BY DEF NatDetection, world
<1>2. m.o \in asked /\ m.o \in Originators
  BY Zenon, AboutNodes
<1>3. /\ answers[m.o] = {} /\ m.o \notin Running /\ call[m.o].pc = "idle"
      /\ \A n \in messages : Source(n) /\ n.o = m.o => n = m
  BY Zenon, <1>1 DEF Inv, OneSource, Source
<1>4. CASE DirectlyConnected(m.o) \/ ~m.value
  <2>0. PICK type : type = IF DirectlyConnected(m.o) THEN "kDirectConnected" ELSE "kNotConnected"
    OBVIOUS
  <2>. DEFINE new == Message("NatDetectionResponse", m.o, 0, type)
  <2>1. messages' = (messages \ {m}) \cup {new} /\ UNCHANGED <<call, connected, used>>
    BY Zenon, <1>4, <2>0 DEF NatDetection, SetNatDetectionResponse
  <2>2. new.type = "NatDetectionResponse" /\ new.o = m.o /\ new.value = type /\ IsTrue(m.o, type)
    BY <2>0 DEF Message, DirectlyConnected, IsTrue
  <2>3. new \in MessagesOver(asked', used')
    BY Zenon, <1>1, <1>2, <2>0, <2>1, MessageTypes, type \in Types \ {"kPortRestricted"} DEF Types
  <2>. HIDE DEF new
  <2>4. Shape'
    BY Zenon, <1>1, <2>1, <2>3 DEF Inv, Shape
  <2>5. PortsApart'
    BY Zenon, <1>1, <2>1, <2>2
    DEF Inv, PortsApart, FirstAt, SecondAt, FirstRequest, SecondRequest, Helps
  <2>6. Later /\ (\A o \in Originators : CallTrue(o)') /\ Running' = Running
    BY Zenon, <1>1, <2>1, CallsKept
  <2>7. MessageTrue(new)'
    BY Zenon, <1>2, <2>2, <2>6, StaysTrue DEF MessageTrue, SecondRequest
  <2>8. Truth'
    BY Zenon, <1>1, <2>1, <2>6, <2>7, TruthKept
  <2>9. OneSource'
    <3>1. \A n \in messages' : Source(n) => n = new \/ (n \in messages /\ n.o # m.o)
      BY Zenon, <1>3, <2>1
    <3>2. \A x, y \in messages' : Source(x) /\ Source(y) /\ x.o = y.o => x = y
      BY Zenon, <2>2, <3>1 DEF Inv, OneSource
    <3>3. \A x \in messages' : Source(x) => answers[x.o] = {} /\ x.o \notin Running
      BY Zenon, <1>3, <2>2, <3>1 DEF Inv, OneSource
    <3>4. \A x \in messages' : x.type = "NatDetectionRequest" => call[x.o].pc = "idle"
      BY Zenon, <2>1, <2>2 DEF Inv, OneSource
    <3>. QED
      BY Zenon, <1>1, <2>1, <2>6, <3>2, <3>3, <3>4 DEF Inv, OneSource
  <2>. QED
    BY Zenon, <2>4, <2>5, <2>8, <2>9 DEF Inv
<1>5. CASE ~DirectlyConnected(m.o) /\ m.value
  <2>. DEFINE no == FALSE
  <2>. HIDE DEF no
  <2>1. PICK port \in Ports \ used :
          /\ used' = used \cup {port} /\ connected' = connected \cup {m.o}
          /\ messages' = (messages \ {m}) \cup {Message("ProxyConnectRequest", m.o, port, no)}
          /\ call' = [call EXCEPT ![m.o] = Call("sent")]
    BY Zenon, <1>5 DEF NatDetection, SendProxyConnectRequest, no
  <2>. DEFINE new == Message("ProxyConnectRequest", m.o, port, no)
  <2>2. /\ messages' = (messages \ {m}) \cup {new}
        /\ new.type = "ProxyConnectRequest" /\ new.o = m.o /\ new.port = port /\ ~new.value
    BY <2>1 DEF Message, no
  <2>3. /\ Call("sent") \in Calls /\ Call("sent").pc = "sent" /\ Call("sent").of = Nobody
        /\ ~Call("sent").result
    BY DEF Call, Calls
  <2>4. /\ call' \in [Originators -> Calls] /\ call'[m.o] = Call("sent")
        /\ \A o \in Originators \ {m.o} : call'[o] = call[o]
    BY Zenon, <1>2, <2>1, <2>3 DEF Inv, Shape
  <2>5. Shape'
    <3>1. new \in MessagesOver(asked', used')
      BY Zenon, <1>1, <1>2, <2>1, MessageTypes, no \in BOOLEAN DEF no
    <3>2. holes' \in [Originators -> SUBSET used']
      BY <1>1, <2>1 DEF Inv, Shape
    <3>. QED
      BY Zenon, <1>1, <1>2, <2>1, <2>4, <3>1, <3>2, MoreMessages DEF Inv, Shape
  <2>. HIDE DEF new
  <2>6. PortsApart'
    BY ZenonT(60), <1>1, <2>1, <2>2, FreshPort
    DEF Inv, PortsApart, FirstAt, SecondAt, FirstRequest, SecondRequest, Helps
  <2>7. Later
    BY <1>1, <1>3, <2>3, <2>4 DEF Later
  <2>8. \A o \in Originators : CallTrue(o)'
    <3>1. CallTrue(m.o)'
      BY <1>1, <1>2, <1>5, <2>3, <2>4, ServiceAssumption DEF CallTrue, DirectlyConnected
    <3>2. \A o \in Originators \ {m.o} : CallTrue(o)'
      BY Zenon, <1>1, <2>4 DEF Inv, Truth, CallTrue
    <3>. QED
      BY Zenon, <3>1, <3>2
  <2>9. MessageTrue(new)'
    BY <1>1, <1>2, <1>5, <2>2, <2>3, <2>4
    DEF MessageTrue, SecondRequest, Tried, DirectlyConnected
  <2>10. Truth'
    BY Zenon, <1>1, <2>2, <2>7, <2>8, <2>9, TruthKept
  <2>11. OneSource'
    <3>1. \A n \in messages' : Source(n) => n \in messages /\ n.o # m.o
      BY Zenon, <1>3, <2>2 DEF Source, SecondRequest
    <3>2. Running' \subseteq Running \cup {m.o}
      BY Zenon, <2>4 DEF Running
    <3>3. \A x, y \in messages' : Source(x) /\ Source(y) /\ x.o = y.o => x = y
      BY Zenon, <3>1 DEF Inv, OneSource
    <3>4. \A x \in messages' : Source(x) => answers[x.o] = {} /\ x.o \notin Running'
      BY Zenon, <3>1, <3>2 DEF Inv, OneSource
    <3>5. \A o \in Running' : answers[o] = {}
      BY Zenon, <1>3, <3>2 DEF Inv, OneSource
    <3>6. \A x \in messages' : x.type = "NatDetectionRequest" => call'[x.o].pc = "idle"
      BY Zenon, <2>4, <3>1, AboutNodes DEF Inv, OneSource, Source
    <3>7. \A o \in Originators \ asked : call'[o].pc = "idle"
      BY Zenon, <1>2, <2>4 DEF Inv, OneSource
    <3>. QED
      BY Zenon, <1>1, <3>3, <3>4, <3>5, <3>6, <3>7 DEF Inv, OneSource
  <2>. QED
    BY Zenon, <2>5, <2>6, <2>10, <2>11 DEF Inv
<1>. QED
  BY Zenon, <1>4, <1>5

\* An outcome is raised for the slots that are connected; what it says is true.
LEMMA EmitKeeps ==
  ASSUME Inv, NEW m \in messages, m.type \in {"ProxyConnectRequest", "ProxyConnectResponse"},
         NEW condition \in BOOLEAN, NEW result \in BOOLEAN,
         EmitOutcome(m, condition, result), OutcomeTrue(m.o, result)',
         messages' = messages \ {m}, lost \subseteq lost',
         UNCHANGED <<nat, asked, used, connecting, holes, answers>>
  PROVE  Inv'
<1>. DEFINE new == [o |-> m.o, port |-> m.port, condition |-> condition, result |-> result,
                    todo |-> connected]
<1>1. /\ emitting' = IF connected = {} THEN emitting ELSE emitting \cup {new}
      /\ UNCHANGED <<call, connected>>
  BY Zenon DEF EmitOutcome
<1>2. new.o = m.o /\ new.result = result /\ new \in OutcomesOver(asked)
  <2>1. m.o \in asked /\ m.port \in Ports
    BY Zenon, MessageFields DEF Inv, Shape
  <2>2. connected \subseteq asked
    BY Zenon DEF Inv, Shape
  <2>. QED
    BY <2>1, <2>2 DEF OutcomesOver
<1>3. PICK d : d = new
  OBVIOUS
<1>4. /\ d.o = m.o /\ d.result = result /\ d \in OutcomesOver(asked)
      /\ emitting' \subseteq emitting \cup {d}
  BY Zenon, <1>1, <1>2, <1>3
<1>. HIDE DEF new
<1>5. Shape'
  BY Zenon, <1>1, <1>4 DEF Inv, Shape
<1>6. PortsApart'
  BY Zenon DEF Inv, PortsApart, FirstAt, SecondAt
<1>7. Later /\ (\A o \in Originators : CallTrue(o)') /\ Running' = Running
  BY Zenon, <1>1, CallsKept
<1>8. Truth'
  <2>1. \A e \in emitting' : \/ \E x \in emitting : e.o = x.o /\ e.result = x.result
                             \/ OutcomeTrue(e.o, e.result)'
    BY Zenon, <1>4
  <2>2. \A x \in messages' : x \in messages \/ MessageTrue(x)'
    BY Zenon
  <2>. QED
    BY Zenon, <1>7, <2>1, <2>2, TruthKept
<1>9. OneSource'
  BY Zenon, <1>1, <1>7 DEF Inv, OneSource
<1>. QED
  BY Zenon, <1>5, <1>6, <1>8, <1>9 DEF Inv

LEMMA RespondKeeps == ASSUME Inv, NEW m \in messages, Respond(m) PROVE Inv'
<1>. DEFINE yes == TRUE
<1>. HIDE DEF yes
<1>1. /\ m.type = "ProxyConnectResponse" /\ EmitOutcome(m, yes, m.value)
      /\ messages' = messages \ {m}
      /\ UNCHANGED <<nat, asked, used, connecting, holes, answers, lost>>
  BY Zenon DEF Respond, world, proxyVars, yes
<1>2. m.value \in BOOLEAN /\ yes \in BOOLEAN /\ m.o \in Originators
  BY Zenon, <1>1, MessageFields DEF Inv, Shape, yes
<1>3. OutcomeTrue(m.o, m.value)
  BY Zenon, <1>1 DEF Inv, Truth, MessageTrue
<1>4. OutcomeTrue(m.o, m.value)'
  BY Zenon, <1>1, <1>3 DEF OutcomeTrue, EmitOutcome
<1>. QED
  BY Zenon, <1>1, <1>2, <1>4, EmitKeeps

LEMMA LoseKeeps == ASSUME Inv, NEW m \in messages, Lose(m) PROVE Inv'
<1>. DEFINE no == FALSE
<1>. HIDE DEF no
<1>1. /\ messages' = messages \ {m} /\ lost' = lost \cup {m.o}
      /\ UNCHANGED <<nat, asked, used, connecting, holes, answers>>
  BY DEF Lose, world, proxyVars
<1>2. CASE m.type \in {"ProxyConnectRequest", "ProxyConnectResponse"}
  <2>1. EmitOutcome(m, no, no)
    BY Zenon, <1>2 DEF Lose, no
  <2>2. no \in BOOLEAN /\ OutcomeTrue(m.o, no)'
    BY Zenon, <1>1 DEF no, OutcomeTrue
  <2>3. lost \subseteq lost'
    BY Zenon, <1>1
  <2>. QED
    BY Zenon, <1>1, <1>2, <2>1, <2>2, <2>3, EmitKeeps
<1>3. CASE m.type \notin {"ProxyConnectRequest", "ProxyConnectResponse"}
  <2>1. UNCHANGED <<call, connected, emitting>>
    BY Zenon, <1>3 DEF Lose, callVars
  <2>2. Shape' /\ PortsApart'
    BY Zenon, <1>1, <2>1 DEF Inv, Shape, PortsApart, FirstAt, SecondAt
  <2>3. Later /\ (\A o \in Originators : CallTrue(o)') /\ Running' = Running
    BY Zenon, <1>1, <2>1, CallsKept
  <2>4. Truth'
    BY Zenon, <1>1, <2>1, <2>3, TruthKept
  <2>5. OneSource'
    BY Zenon, <1>1, <2>1, <2>3 DEF Inv, OneSource
  <2>. QED
    BY Zenon, <2>2, <2>4, <2>5 DEF Inv
<1>. QED
  BY Zenon, <1>2, <1>3

\* An outcome is written to the variables of a call that runs.
LEMMA WriteKeeps ==
  ASSUME Inv, NEW o \in Running, NEW e \in emitting, Write(o, e),
         UNCHANGED <<nat, lost>>
  PROVE  /\ call' \in [Originators -> Calls] /\ Later /\ Running' = Running
         /\ \A p \in Originators : CallTrue(p)'
         /\ \A p \in Originators : call[p].pc = "idle" => call'[p] = call[p]
<1>1. /\ o \in Originators /\ call \in [Originators -> Calls]
      /\ call[o].pc \in {"sent", "waiting", "woken"} /\ call[o].condition \in BOOLEAN
  BY DEF Inv, Shape, Running, Calls
<1>2. e.o \in Originators /\ e.condition \in BOOLEAN /\ e.result \in BOOLEAN
  BY Zenon, OutcomeFields DEF Inv, Shape
<1>3. PICK pc \in {"sent", "waiting", "woken"}, condition \in BOOLEAN :
        call' = [call EXCEPT ![o] = [pc |-> pc, of |-> e.o, condition |-> condition,
                                     result |-> e.result]]
  BY <1>1, <1>2 DEF Write
<1>4. /\ call' \in [Originators -> Calls] /\ \A p \in Originators \ {o} : call'[p] = call[p]
      /\ call'[o].pc = pc /\ call'[o].of = e.o /\ call'[o].result = e.result
  BY <1>1, <1>2, <1>3 DEF Calls
<1>5. Later /\ Running' = Running
  BY <1>1, <1>4 DEF Later, Running
<1>6. OutcomeTrue(e.o, e.result)
  BY Zenon DEF Inv, Truth
<1>7. CallTrue(o)'
  BY <1>1, <1>2, <1>4, <1>6 DEF Inv, Truth, CallTrue, OutcomeTrue
<1>8. \A p \in Originators \ {o} : CallTrue(p)'
  BY Zenon, <1>4 DEF Inv, Truth, CallTrue
<1>. QED
  BY Zenon, <1>1, <1>4, <1>5, <1>7, <1>8

\* A slot of a call that runs, or of one that has returned.
LEMMA CallSlotKeeps ==
  ASSUME Inv, NEW e \in emitting, NEW o \in e.todo, CallSlot(e, o) PROVE Inv'
<1>1. /\ ProxyConnectResponse(o, e)
      /\ emitting' \subseteq emitting \cup {[e EXCEPT !.todo = @ \ {o}]}
      /\ UNCHANGED <<nat, asked, connected, messages, used, connecting, holes, answers, lost>>
  BY Zenon DEF CallSlot, world, proxyVars
<1>2. /\ call' \in [Originators -> Calls] /\ Later /\ Running' = Running
      /\ \A p \in Originators : CallTrue(p)'
      /\ \A p \in Originators : call[p].pc = "idle" => call'[p] = call[p]
  <2>1. CASE call' = call
    BY Zenon, <1>1, <2>1, CallsKept DEF Inv, Shape
  <2>2. CASE \E p \in Running : Write(p, e)
    BY Zenon, <1>1, <2>2, WriteKeeps
  <2>. QED
    BY Zenon, <1>1, <2>1, <2>2 DEF ProxyConnectResponse
<1>3. PICK d : d = [e EXCEPT !.todo = @ \ {o}]
  OBVIOUS
<1>4. d \in OutcomesOver(asked) /\ d.o = e.o /\ d.result = e.result
  BY Zenon, <1>3, OutcomeFields DEF Inv, Shape
<1>5. Shape'
  BY Zenon, <1>1, <1>2, <1>3, <1>4 DEF Inv, Shape
<1>6. PortsApart'
  BY Zenon, <1>1 DEF Inv, PortsApart, FirstAt, SecondAt
<1>7. Truth'
  BY Zenon, <1>1, <1>2, <1>3, <1>4, TruthKept
<1>8. OneSource'
  <2>1. \A m \in messages : m.type = "NatDetectionRequest" => call'[m.o].pc = "idle"
    BY Zenon, <1>2, AboutNodes DEF Inv, OneSource
  <2>2. \A p \in Originators \ asked : call'[p].pc = "idle"
    BY Zenon, <1>2 DEF Inv, OneSource
  <2>. QED
    BY ZenonT(60), <1>1, <1>2, <2>1, <2>2 DEF Inv, OneSource
<1>. QED
  BY Zenon, <1>5, <1>6, <1>7, <1>8 DEF Inv

\* A call gives up, answers, or lets the node be helped.
LEMMA ContinueKeeps == ASSUME Inv, NEW o \in Originators, Continue(o) PROVE Inv'
<1>1. /\ call[o].pc = "woken" /\ call' = [call EXCEPT ![o].pc = "done"]
      /\ UNCHANGED <<nat, asked, emitting, connecting, holes, answers>>
  BY DEF Continue, world
<1>2. /\ call' \in [Originators -> Calls] /\ \A p \in Originators \ {o} : call'[p] = call[p]
      /\ call'[o].pc = "done" /\ call'[o].of = call[o].of /\ call'[o].result = call[o].result
  BY <1>1 DEF Inv, Shape, Calls
<1>3. o \in Running /\ Running' = Running \ {o}
  BY <1>1, <1>2 DEF Running
<1>4. o \in asked /\ answers[o] = {} /\ \A m \in messages : Source(m) => m.o # o
  <2>1. o \in asked
    BY <1>1 DEF Inv, OneSource
  <2>. QED
    BY Zenon, <1>3, <2>1 DEF Inv, OneSource
<1>5. lost \subseteq lost' /\ connected' \subseteq connected
  BY Zenon DEF Continue
<1>6. Later
  BY <1>1, <1>2, <1>5 DEF Later
<1>7. \A p \in Originators : CallTrue(p)'
  <2>1. CallTrue(o)'
    BY <1>1, <1>2, <1>5 DEF Inv, Truth, CallTrue
  <2>2. \A p \in Originators \ {o} : CallTrue(p)'
    BY Zenon, <1>1, <1>2, <1>5 DEF Inv, Truth, CallTrue
  <2>. QED
    BY Zenon, <2>1, <2>2
<1>8. CallTrue(o) /\ nat[o] # "direct"
  BY <1>1 DEF Inv, Truth, CallTrue
<1>9. \A m \in messages : m.type = "NatDetectionRequest" => call'[m.o].pc = "idle"
  BY Zenon, <1>2, <1>4, AboutNodes DEF Inv, OneSource, Source
<1>10. \A p \in Originators \ asked : call'[p].pc = "idle"
  BY Zenon, <1>2, <1>4 DEF Inv, OneSource
<1>11. CASE ~call[o].condition
  <2>1. UNCHANGED <<messages, used, connected>>
    BY Zenon, <1>11 DEF Continue
  <2>2. Shape' /\ PortsApart'
    BY Zenon, <1>1, <1>2, <2>1 DEF Inv, Shape, PortsApart, FirstAt, SecondAt
  <2>3. Truth'
    BY Zenon, <1>1, <1>6, <1>7, <2>1, TruthKept
  <2>4. OneSource'
    BY Zenon, <1>1, <1>3, <1>9, <1>10, <2>1 DEF Inv, OneSource
  <2>. QED
    BY Zenon, <2>2, <2>3, <2>4 DEF Inv
\* The answer, or the second request, is the source now.
<1>12. ASSUME NEW new, messages' = messages \cup {new}, new.o = o, MessageTrue(new)',
              new.type # "NatDetectionRequest"
       PROVE  Truth' /\ OneSource'
  <2>1. Truth'
    BY Zenon, <1>1, <1>6, <1>7, <1>12, TruthKept
  <2>2. \A x, y \in messages' : Source(x) /\ Source(y) /\ x.o = y.o => x = y
    BY Zenon, <1>4, <1>12 DEF Inv, OneSource
  <2>3. \A x \in messages' : Source(x) => answers[x.o] = {} /\ x.o \notin Running'
    BY Zenon, <1>3, <1>4, <1>12 DEF Inv, OneSource
  <2>4. \A x \in messages' : x.type = "NatDetectionRequest" => call'[x.o].pc = "idle"
    BY Zenon, <1>9, <1>12
  <2>5. OneSource'
    BY Zenon, <1>1, <1>3, <1>10, <2>2, <2>3, <2>4 DEF Inv, OneSource
  <2>. QED
    BY Zenon, <2>1, <2>5
<1>13. CASE call[o].condition /\ call[o].result
  <2>. DEFINE new == Message("NatDetectionResponse", o, 0, "kFullCone")
  <2>1. messages' = messages \cup {new} /\ UNCHANGED <<used, connected>>
    BY <1>13 DEF Continue, SetNatDetectionResponse
  <2>2. new.type = "NatDetectionResponse" /\ new.o = o /\ new.value = "kFullCone"
    BY DEF Message
  <2>3. IsTrue(o, "kFullCone")'
    BY <1>1, <1>2, <1>8, <1>13 DEF CallTrue, IsTrue
  <2>4. new \in MessagesOver(asked', used')
    BY Zenon, <1>1, <1>4, <2>1, MessageTypes DEF Types
  <2>. HIDE DEF new
  <2>5. Shape'
    BY Zenon, <1>1, <1>2, <2>1, <2>4 DEF Inv, Shape
  <2>6. PortsApart'
    BY Zenon, <1>1, <2>1, <2>2
    DEF Inv, PortsApart, FirstAt, SecondAt, FirstRequest, SecondRequest, Helps
  <2>7. MessageTrue(new)'
    BY Zenon, <2>2, <2>3 DEF MessageTrue, SecondRequest
  <2>8. Truth' /\ OneSource'
    BY Zenon, <1>12, <2>1, <2>2, <2>7
  <2>. QED
    BY Zenon, <2>5, <2>6, <2>8 DEF Inv
<1>14. CASE call[o].condition /\ ~call[o].result
  <2>. DEFINE yes == TRUE
  <2>. HIDE DEF yes
  <2>1. PICK port \in Ports \ used :
          /\ used' = used \cup {port} /\ UNCHANGED lost
          /\ messages' = messages \cup {Message("ProxyConnectRequest", o, port, yes)}
    BY Zenon, <1>14 DEF Continue, SendProxyConnectRequest, yes
  <2>. DEFINE new == Message("ProxyConnectRequest", o, port, yes)
  <2>2. /\ messages' = messages \cup {new}
        /\ new.type = "ProxyConnectRequest" /\ new.o = o /\ new.port = port /\ new.value
    BY Zenon, <2>1 DEF Message, yes
  <2>3. IsTrue(o, "kPortRestricted")' /\ Tried(o)'
    BY <1>1, <1>2, <1>8, <1>14, <2>1 DEF CallTrue, IsTrue, Tried
  <2>4. new \in MessagesOver(asked', used')
    BY Zenon, <1>1, <1>4, <2>1, MessageTypes, yes \in BOOLEAN DEF yes
  <2>. HIDE DEF new
  <2>5. Shape'
    <3>1. holes' \in [Originators -> SUBSET used']
      BY <1>1, <2>1 DEF Inv, Shape
    <3>. QED
      BY Zenon, <1>1, <1>2, <1>5, <2>1, <2>2, <2>4, <3>1, MoreMessages DEF Inv, Shape
  <2>6. PortsApart'
    BY ZenonT(40), <1>1, <2>1, <2>2, FreshPort
    DEF Inv, PortsApart, FirstAt, SecondAt, FirstRequest, SecondRequest, Helps
  <2>7. MessageTrue(new)'
    BY Zenon, <2>2, <2>3 DEF MessageTrue, SecondRequest
  <2>8. Truth' /\ OneSource'
    BY Zenon, <1>12, <2>2, <2>7
  <2>. QED
    BY Zenon, <2>5, <2>6, <2>8 DEF Inv
<1>. QED
  BY Zenon, <1>11, <1>13, <1>14 DEF Continue

\* A message is taken, and others are sent that are no source of an answer.
LEMMA SourceTaken ==
  ASSUME Inv, NEW m \in messages, NEW N, messages' = (messages \ {m}) \cup N,
         \A n \in N : ~Source(n), UNCHANGED <<asked, call, answers>>
  PROVE  OneSource'
<1>1. Running' = Running
  BY Zenon DEF Running
<1>2. \A n \in messages' : Source(n) => n \in messages
  BY Zenon
<1>3. \A n \in messages' : n.type = "NatDetectionRequest" => n \in messages
  BY Zenon, <1>2 DEF Source
<1>. QED
  BY Zenon, <1>1, <1>2, <1>3 DEF Inv, OneSource

\* A proxy fails to listen, tries to connect, or lets the node be helped.
LEMMA ProxyConnectKeeps == ASSUME Inv, NEW m \in messages, ProxyConnect(m) PROVE Inv'
<1>1. /\ m.type = "ProxyConnectRequest"
      /\ UNCHANGED <<nat, asked, call, connected, emitting, used, holes, answers>>
  BY DEF ProxyConnect, world, callVars
<1>2. m.o \in asked /\ m.port \in used /\ m.value \in BOOLEAN /\ m.o \in Originators
  BY Zenon, <1>1, MessageFields DEF Inv, Shape
<1>. DEFINE no == FALSE
            reply == Message("ProxyConnectResponse", m.o, m.port, no)
<1>. HIDE DEF no
<1>3. /\ reply.type = "ProxyConnectResponse" /\ reply.o = m.o /\ reply.port = m.port /\ ~reply.value
      /\ reply \in MessagesOver(asked, used) /\ ~Source(reply)
  BY Zenon, <1>2, MessageTypes, no \in BOOLEAN DEF Message, no, Source, SecondRequest
<1>. HIDE DEF reply
<1>4. Tried(m.o)
  BY Zenon, <1>1 DEF Inv, Truth, MessageTrue
<1>5. CASE /\ messages' = (messages \ {m}) \cup {reply} /\ UNCHANGED connecting
           /\ lost' = lost \cup {m.o}
  <2>1. Shape'
    BY Zenon, <1>1, <1>3, <1>5 DEF Inv, Shape
  <2>2. PortsApart'
    BY Zenon, <1>1, <1>3, <1>5
    DEF Inv, PortsApart, FirstAt, SecondAt, FirstRequest, SecondRequest, Helps
  <2>3. MessageTrue(reply)'
    BY Zenon, <1>3, <1>5 DEF MessageTrue, SecondRequest, OutcomeTrue
  <2>4. Later /\ (\A o \in Originators : CallTrue(o)')
    BY Zenon, <1>1, <1>5, CallsKept
  <2>5. Truth'
    BY Zenon, <1>1, <1>5, <2>3, <2>4, TruthKept
  <2>6. OneSource'
    BY Zenon, <1>1, <1>3, <1>5, SourceTaken
  <2>. QED
    BY Zenon, <2>1, <2>2, <2>5, <2>6 DEF Inv
<1>6. CASE /\ ~m.value /\ messages' = messages \ {m} /\ UNCHANGED lost
           /\ connecting' = connecting \cup {[port |-> m.port, o |-> m.o, late |-> no]}
  <2>1. PICK c : c = [port |-> m.port, o |-> m.o, late |-> no]
    OBVIOUS
  <2>2. c.port = m.port /\ c.o = m.o /\ c \in ConnectionsOver(asked, used)
    BY <1>2, <2>1, no \in BOOLEAN DEF ConnectionsOver, no
  <2>3. Shape'
    BY Zenon, <1>1, <1>6, <2>1, <2>2 DEF Inv, Shape
  <2>4. PortsApart'
    BY Zenon, <1>1, <1>6, <2>1, <2>2
    DEF Inv, PortsApart, FirstAt, SecondAt, FirstRequest, SecondRequest, Helps
  <2>5. Later /\ (\A o \in Originators : CallTrue(o)')
    BY Zenon, <1>1, <1>6, CallsKept
  <2>6. Tried(c.o)'
    BY Zenon, <1>2, <1>4, <2>2, <2>5, StaysTrue
  <2>7. Truth'
    BY Zenon, <1>1, <1>6, <2>1, <2>5, <2>6, TruthKept
  <2>8. OneSource'
    <3>. DEFINE N == {}
    <3>1. messages' = (messages \ {m}) \cup N /\ \A n \in N : ~Source(n)
      BY Zenon, <1>6
    <3>. HIDE DEF N
    <3>. QED
      BY Zenon, <1>1, <3>1, SourceTaken
  <2>. QED
    BY Zenon, <2>3, <2>4, <2>7, <2>8 DEF Inv
<1>7. CASE /\ m.value /\ UNCHANGED <<connecting, lost>>
           /\ messages' = (messages \ {m}) \cup {SendForwardRendezvousRequest(m.o, m.port),
                                                 SendNatDetectionResponse(m.o, m.port), reply}
  <2>. DEFINE help == SendForwardRendezvousRequest(m.o, m.port)
              verdict == SendNatDetectionResponse(m.o, m.port)
  <2>1. /\ help.type = "ForwardRendezvousRequest" /\ help.o = m.o /\ help.port = m.port
        /\ verdict.type = "NatDetectionResponse" /\ verdict.o = m.o /\ verdict.port = m.port
        /\ verdict.value = "kPortRestricted"
        /\ help \in MessagesOver(asked, used) /\ verdict \in MessagesOver(asked, used)
    BY Zenon, <1>2, MessageTypes
    DEF SendForwardRendezvousRequest, SendNatDetectionResponse, Message
  <2>2. messages' = (messages \ {m}) \cup {help, verdict, reply}
    BY Zenon, <1>7
  <2>. HIDE DEF help, verdict
  <2>3. Shape'
    BY Zenon, <1>1, <1>3, <1>7, <2>1, <2>2 DEF Inv, Shape
  <2>4. PortsApart'
    BY ZenonT(40), <1>1, <1>3, <1>7, <2>1, <2>2
    DEF Inv, PortsApart, FirstAt, SecondAt, FirstRequest, SecondRequest, Helps
  <2>5. Later /\ (\A o \in Originators : CallTrue(o)') /\ Running' = Running
    BY Zenon, <1>1, <1>7, CallsKept
  <2>6. Truth'
    <3>1. IsTrue(m.o, "kPortRestricted") /\ OutcomeTrue(m.o, no)
      BY Zenon, <1>1, <1>7 DEF Inv, Truth, MessageTrue, SecondRequest, IsTrue, OutcomeTrue, no
    <3>2. IsTrue(m.o, "kPortRestricted")' /\ OutcomeTrue(m.o, no)'
      BY Zenon, <1>2, <2>5, <3>1, StaysTrue
    <3>3. MessageTrue(help)' /\ MessageTrue(verdict)'
      BY Zenon, <2>1, <3>2 DEF MessageTrue, SecondRequest
    <3>4. MessageTrue(reply)'
      BY Zenon, <1>3, <3>2 DEF MessageTrue, SecondRequest, OutcomeTrue, no
    <3>. QED
      BY Zenon, <1>1, <1>7, <2>2, <2>5, <3>3, <3>4, TruthKept
  <2>7. OneSource'
    <3>1. Source(m) /\ ~Source(help) /\ ~Source(reply)
      BY Zenon, <1>1, <1>3, <1>7, <2>1 DEF Source, SecondRequest
    <3>2. \A n \in messages' : Source(n) => n = verdict \/ (n \in messages /\ n.o # m.o)
      BY Zenon, <2>2, <3>1 DEF Inv, OneSource
    <3>3. answers[m.o] = {} /\ m.o \notin Running
      BY Zenon, <3>1 DEF Inv, OneSource
    <3>4. \A x, y \in messages' : Source(x) /\ Source(y) /\ x.o = y.o => x = y
      BY Zenon, <2>1, <3>2 DEF Inv, OneSource
    <3>5. \A x \in messages' : Source(x) => answers[x.o] = {} /\ x.o \notin Running
      BY Zenon, <2>1, <3>2, <3>3 DEF Inv, OneSource
    <3>6. \A x \in messages' : x.type = "NatDetectionRequest" => call[x.o].pc = "idle"
      BY Zenon, <1>3, <2>1, <2>2 DEF Inv, OneSource
    <3>. QED
      BY Zenon, <1>1, <2>5, <3>4, <3>5, <3>6 DEF Inv, OneSource
  <2>. QED
    BY Zenon, <2>3, <2>4, <2>6, <2>7 DEF Inv
<1>. QED
  BY Zenon, <1>5, <1>6, <1>7 DEF ProxyConnect, ProxyConnectReply, no, reply

\* The outcome of an attempt to connect is sent.
LEMMA OutcomeSent ==
  ASSUME Inv, NEW c \in connecting, NEW result \in BOOLEAN, NEW C,
         messages' = messages \cup {Message("ProxyConnectResponse", c.o, c.port, result)},
         connecting' = (connecting \ {c}) \cup C, C \subseteq ConnectionsOver(asked, used),
         \A d \in C : d.port = c.port /\ d.o = c.o,
         lost \subseteq lost', OutcomeTrue(c.o, result)',
         UNCHANGED <<nat, asked, call, connected, emitting, used, holes, answers>>
  PROVE  Inv'
<1>. DEFINE reply == Message("ProxyConnectResponse", c.o, c.port, result)
<1>1. c.o \in asked /\ c.port \in used
  BY ConnectionFields DEF Inv, Shape
<1>2. /\ reply.type = "ProxyConnectResponse" /\ reply.o = c.o /\ reply.port = c.port
      /\ reply.value = result /\ reply \in MessagesOver(asked, used)
  BY Zenon, <1>1, MessageTypes DEF Message
<1>3. messages' = messages \cup {reply}
  BY Zenon
<1>. HIDE DEF reply
<1>4. Shape'
  BY Zenon, <1>2, <1>3 DEF Inv, Shape
<1>5. PortsApart'
  BY Zenon, <1>2, <1>3
  DEF Inv, PortsApart, FirstAt, SecondAt, FirstRequest, SecondRequest, Helps
<1>6. Later /\ (\A o \in Originators : CallTrue(o)') /\ Running' = Running
  BY Zenon, CallsKept
<1>7. MessageTrue(reply)'
  BY Zenon, <1>2 DEF MessageTrue, SecondRequest
<1>8. Truth'
  BY Zenon, <1>3, <1>6, <1>7, TruthKept
<1>9. OneSource'
  <2>1. \A n \in messages' : Source(n) => n \in messages
    BY Zenon, <1>2, <1>3 DEF Source, SecondRequest
  <2>2. \A n \in messages' : n.type = "NatDetectionRequest" => n \in messages
    BY Zenon, <2>1 DEF Source
  <2>. QED
    BY Zenon, <1>6, <2>1, <2>2 DEF Inv, OneSource
<1>. QED
  BY Zenon, <1>4, <1>5, <1>8, <1>9 DEF Inv

\* The port of an attempt is not one that the node has connected to.
LEMMA NotHelped ==
  ASSUME Inv, NEW c \in connecting PROVE Reaches(c.port, c.o) <=> nat[c.o] = "full_cone"
<1>1. c.port \in used /\ c.o \in Originators
  BY Zenon, ConnectionFields DEF Inv, Shape
<1>2. c.port \notin holes[c.o]
  BY <1>1 DEF Inv, PortsApart, FirstAt, SecondAt
<1>3. nat[c.o] # "direct"
  BY Zenon DEF Inv, Truth, Tried
<1>. QED
  BY <1>2, <1>3 DEF Reaches

LEMMA ConnectResultKeeps == ASSUME Inv, NEW c \in connecting, ConnectResult(c) PROVE Inv'
<1>. DEFINE yes == TRUE
<1>. HIDE DEF yes
<1>1. /\ connecting' = connecting \ {c}
      /\ messages' = IF c.late THEN messages
                     ELSE messages \cup {Message("ProxyConnectResponse", c.o, c.port, yes)}
      /\ UNCHANGED <<nat, asked, call, connected, emitting, used, holes, answers, lost>>
  BY Zenon DEF ConnectResult, ProxyConnectReply, world, callVars, yes
<1>2. CASE c.late
  <2>1. Shape'
    BY Zenon, <1>1, <1>2 DEF Inv, Shape
  <2>2. PortsApart'
    BY Zenon, <1>1, <1>2 DEF Inv, PortsApart, FirstAt, SecondAt
  <2>3. Later /\ (\A o \in Originators : CallTrue(o)') /\ Running' = Running
    BY Zenon, <1>1, CallsKept
  <2>4. Truth'
    BY Zenon, <1>1, <1>2, <2>3, TruthKept
  <2>5. OneSource'
    BY Zenon, <1>1, <1>2, <2>3 DEF Inv, OneSource
  <2>. QED
    BY Zenon, <2>1, <2>2, <2>4, <2>5 DEF Inv
<1>3. CASE ~c.late
  <2>1. OutcomeTrue(c.o, yes)'
    BY Zenon, <1>1, NotHelped DEF ConnectResult, OutcomeTrue, yes
  <2>. DEFINE C == {}
  <2>2. /\ connecting' = (connecting \ {c}) \cup C /\ C \subseteq ConnectionsOver(asked, used)
        /\ \A d \in C : d.port = c.port /\ d.o = c.o
        /\ yes \in BOOLEAN /\ lost \subseteq lost'
    BY Zenon, <1>1 DEF yes
  <2>. HIDE DEF C
  <2>. QED
    BY Zenon, <1>1, <1>3, <2>1, <2>2, OutcomeSent
<1>. QED
  BY Zenon, <1>2, <1>3

LEMMA ConnectTimeoutKeeps == ASSUME Inv, NEW c \in connecting, ConnectTimeout(c) PROVE Inv'
<1>. DEFINE no == FALSE
            C == {[c EXCEPT !.late = TRUE]}
<1>. HIDE DEF no
<1>1. /\ connecting' = (connecting \ {c}) \cup C
      /\ messages' = messages \cup {Message("ProxyConnectResponse", c.o, c.port, no)}
      /\ lost' = IF Reaches(c.port, c.o) THEN lost \cup {c.o} ELSE lost
      /\ UNCHANGED <<nat, asked, call, connected, emitting, used, holes, answers>>
  BY DEF ConnectTimeout, ProxyConnectReply, world, callVars, no
<1>2. C \subseteq ConnectionsOver(asked, used) /\ \A d \in C : d.port = c.port /\ d.o = c.o
  BY Zenon DEF Inv, Shape, ConnectionsOver
<1>3. OutcomeTrue(c.o, no)'
  BY Zenon, <1>1, NotHelped DEF OutcomeTrue, no
<1>4. no \in BOOLEAN /\ lost \subseteq lost'
  BY Zenon, <1>1 DEF no
<1>. HIDE DEF C
<1>. QED
  BY Zenon, <1>1, <1>2, <1>3, <1>4, OutcomeSent

LEMMA ForwardRendezvousKeeps == ASSUME Inv, NEW m \in messages, ForwardRendezvous(m) PROVE Inv'
<1>. DEFINE new == SetRendezvousRequest(m.o, m.port)
<1>1. /\ m.type = "ForwardRendezvousRequest" /\ messages' = (messages \ {m}) \cup {new}
      /\ UNCHANGED <<nat, asked, call, connected, emitting, used, connecting, holes, answers, lost>>
  BY DEF ForwardRendezvous, world, callVars, proxyVars
<1>2. m.o \in asked /\ m.port \in used
  BY Zenon, <1>1, MessageFields DEF Inv, Shape
<1>3. /\ new.type = "RendezvousRequest" /\ new.o = m.o /\ new.port = m.port
      /\ new \in MessagesOver(asked, used)
  BY Zenon, <1>2, MessageTypes DEF SetRendezvousRequest, Message
<1>. HIDE DEF new
<1>4. Shape'
  BY Zenon, <1>1, <1>3 DEF Inv, Shape
<1>5. PortsApart'
  BY Zenon, <1>1, <1>3
  DEF Inv, PortsApart, FirstAt, SecondAt, FirstRequest, SecondRequest, Helps
<1>6. MessageTrue(new)' /\ ~Source(new)
  BY Zenon, <1>3 DEF MessageTrue, SecondRequest, Source
<1>7. Later /\ (\A o \in Originators : CallTrue(o)')
  BY Zenon, <1>1, CallsKept
<1>8. Truth'
  BY Zenon, <1>1, <1>6, <1>7, TruthKept
<1>9. OneSource'
  BY Zenon, <1>1, <1>6, SourceTaken
<1>. QED
  BY Zenon, <1>4, <1>5, <1>8, <1>9 DEF Inv

LEMMA RendezvousKeeps == ASSUME Inv, NEW m \in messages, Rendezvous(m) PROVE Inv'
<1>1. /\ m.type = "RendezvousRequest" /\ messages' = messages \ {m}
      /\ holes' = [holes EXCEPT ![m.o] = @ \cup {m.port}]
      /\ UNCHANGED <<nat, asked, call, connected, emitting, used, connecting, answers, lost>>
  BY DEF Rendezvous, world, callVars, proxyVars
<1>2. m.o \in Originators /\ m.port \in used
  BY Zenon, <1>1, MessageFields DEF Inv, Shape
<1>3. \A o \in Originators : holes'[o] = IF o = m.o THEN holes[o] \cup {m.port} ELSE holes[o]
  BY Zenon, <1>1 DEF Inv, Shape
<1>4. Shape'
  BY Zenon, <1>1, <1>2 DEF Inv, Shape
<1>5. PortsApart'
  <2>1. \A p : SecondAt(p)' => SecondAt(p)
    BY <1>1, <1>2, <1>3 DEF SecondAt, SecondRequest, Helps
  <2>2. \A p : FirstAt(p)' => FirstAt(p)
    BY Zenon, <1>1 DEF FirstAt
  <2>. QED
    BY Zenon, <1>1, <2>1, <2>2 DEF Inv, PortsApart
<1>6. Later /\ (\A o \in Originators : CallTrue(o)') /\ Running' = Running
  BY Zenon, <1>1, CallsKept
<1>7. Truth'
  BY Zenon, <1>1, <1>6, TruthKept
<1>8. OneSource'
  BY Zenon, <1>1, <1>6 DEF Inv, OneSource
<1>. QED
  BY Zenon, <1>4, <1>5, <1>7, <1>8 DEF Inv

\* A node hears from the rendezvous, or from a proxy that reaches it.
LEMMA OnNatDetectionResponseKeeps ==
  ASSUME Inv, NEW m \in messages, OnNatDetectionResponse(m) PROVE Inv'
<1>1. /\ m.type = "NatDetectionResponse"
      /\ FromRendezvous(m) \/ Reaches(m.port, m.o)
      /\ messages' = messages \ {m}
      /\ answers' = [answers EXCEPT ![m.o] = @ \cup {m.value}]
      /\ UNCHANGED <<nat, asked, call, connected, emitting, used, connecting, holes, lost>>
  BY DEF OnNatDetectionResponse, world, callVars, proxyVars
<1>2. /\ m.o \in asked /\ m.o \in Originators /\ m.value \in Types
      /\ m.value = "kPortRestricted" => ~FromRendezvous(m)
  <2>1. 0 \notin used /\ m \in MessagesOver(asked, used) /\ asked \subseteq Originators
    BY ServiceAssumption DEF Inv, Shape
  <2>2. /\ m.o \in asked /\ m.value \in Types
        /\ m.value = "kPortRestricted" => m.port \in used
    BY Zenon, <1>1, <2>1, MessageFields
  <2>3. m.port \in used => ~FromRendezvous(m)
    BY <2>1 DEF FromRendezvous
  <2>. QED
    BY Zenon, <2>1, <2>2, <2>3
<1>3. Source(m) /\ answers[m.o] = {} /\ m.o \notin Running
  BY Zenon, <1>1 DEF Inv, OneSource, Source
<1>4. \A o \in Originators : answers'[o] = IF o = m.o THEN {m.value} ELSE answers[o]
  BY Zenon, <1>1, <1>3 DEF Inv, Shape
<1>5. Shape'
  BY Zenon, <1>1, <1>2 DEF Inv, Shape
<1>6. PortsApart'
  BY Zenon, <1>1 DEF Inv, PortsApart, FirstAt, SecondAt
<1>7. Later /\ (\A o \in Originators : CallTrue(o)') /\ Running' = Running
  BY Zenon, <1>1, CallsKept
<1>8. AnswerTrue(m.o, m.value)'
  <2>1. IsTrue(m.o, m.value)
    BY Zenon, <1>1 DEF Inv, Truth, MessageTrue
  <2>2. m.value = "kPortRestricted" => nat[m.o] \in {"full_cone", "port_restricted"}
    BY Zenon, <1>1, <1>2, <2>1 DEF Reaches, IsTrue
  <2>. QED
    BY Zenon, <1>2, <1>7, <2>1, <2>2, StaysTrue DEF AnswerTrue
<1>9. Truth'
  <2>1. \A o \in Originators : \A type \in answers'[o] :
          type \in answers[o] \/ AnswerTrue(o, type)'
    <3>. SUFFICES ASSUME NEW o \in Originators, NEW type \in answers'[o]
                  PROVE  type \in answers[o] \/ AnswerTrue(o, type)'
      BY Zenon
    <3>1. CASE o = m.o
      BY Zenon, <1>4, <1>8, <3>1
    <3>2. CASE o # m.o
      BY Zenon, <1>4, <3>2
    <3>. QED
      BY Zenon, <3>1, <3>2
  <2>. QED
    BY Zenon, <1>1, <1>7, <2>1, TruthKept
<1>10. OneSource'
  <2>1. \A n \in messages' : Source(n) => n \in messages /\ n.o # m.o
    BY Zenon, <1>1, <1>3 DEF Inv, OneSource
  <2>2. \A n \in messages' : Source(n) => answers'[n.o] = {} /\ n.o \notin Running
    BY Zenon, <1>4, <2>1, AboutNodes DEF Inv, OneSource
  <2>3. \A o \in Running : answers'[o] = {}
    BY Zenon, <1>3, <1>4 DEF Inv, OneSource, Running
  <2>4. \A o \in Originators : \A x, y \in answers'[o] : x = y
    BY <1>4 DEF Inv, OneSource
  <2>5. \A o \in Originators \ asked : answers'[o] = {}
    BY Zenon, <1>2, <1>4 DEF Inv, OneSource
  <2>. QED
    BY Zenon, <1>1, <1>7, <2>1, <2>2, <2>3, <2>4, <2>5 DEF Inv, OneSource
<1>. QED
  BY Zenon, <1>5, <1>6, <1>9, <1>10 DEF Inv

-----------------------------------------------------------------------------
(* The theorem.                                                            *)

LEMMA InvInit == Init => Inv
<1>. SUFFICES ASSUME Init PROVE Inv
  OBVIOUS
<1>1. /\ messages = {} /\ connecting = {} /\ asked = {} /\ used = {} /\ emitting = {}
      /\ connected = {} /\ \A o \in Originators : holes[o] = {} /\ answers[o] = {}
  BY DEF Init
<1>2. /\ Call("idle") \in Calls /\ Call("idle").pc = "idle" /\ Call("idle").of = Nobody
      /\ ~Call("idle").result
  BY DEF Call, Calls
<1>3. call \in [Originators -> Calls] /\ \A o \in Originators : call[o] = Call("idle")
  BY Zenon, <1>2 DEF Init
<1>4. Shape /\ PortsApart
  BY Zenon, <1>1, <1>3 DEF Init, Shape, PortsApart, FirstAt, SecondAt
<1>5. \A o \in Originators : CallTrue(o)
  BY <1>2, <1>3, ServiceAssumption DEF CallTrue
<1>6. Truth
  BY Zenon, <1>1, <1>5 DEF Truth
<1>7. Running = {}
  BY <1>2, <1>3 DEF Running
<1>8. OneSource
  BY Zenon, <1>1, <1>2, <1>3, <1>7 DEF OneSource
<1>. QED
  BY Zenon, <1>4, <1>6, <1>8 DEF Inv

LEMMA InvNext == Inv /\ [Next]_vars => Inv'
<1>. SUFFICES ASSUME Inv, [Next]_vars PROVE Inv'
  OBVIOUS
<1>1. CASE UNCHANGED vars
  <2>1. Shape'
    BY Zenon, <1>1 DEF Inv, Shape, vars
  <2>2. PortsApart'
    BY Zenon, <1>1 DEF Inv, PortsApart, FirstAt, SecondAt, vars
  <2>3. /\ Later /\ (\A o \in Originators : CallTrue(o)') /\ Running' = Running
        /\ UNCHANGED <<asked, call, messages, connecting, emitting, answers>>
    BY Zenon, <1>1, CallsKept DEF vars
  <2>4. Truth'
    BY Zenon, <2>3, TruthKept
  <2>5. OneSource'
    BY Zenon, <2>3 DEF Inv, OneSource
  <2>. QED
    BY Zenon, <2>1, <2>2, <2>4, <2>5 DEF Inv
<1>2. ASSUME NEW m \in messages, Handle(m) PROVE Inv'
  BY Zenon, <1>2, NatDetectionKeeps, RespondKeeps, ProxyConnectKeeps, ForwardRendezvousKeeps,
    RendezvousKeeps, OnNatDetectionResponseKeeps DEF Handle
<1>. QED
  BY Zenon, <1>1, <1>2, WaitKeeps, WakeUpKeeps, ContinueKeeps, AskKeeps, CallSlotKeeps, LoseKeeps,
    ConnectResultKeeps, ConnectTimeoutKeeps DEF Next

LEMMA InvImplies == Inv => DetectedIsReal
<1>. SUFFICES ASSUME Inv PROVE DetectedIsReal
  BY Zenon
<1>1. OneAnswer
  BY Zenon DEF Inv, OneSource, OneAnswer
<1>2. \A o \in Originators : call[o].of \in Originators \cup {Nobody}
  BY DEF Inv, Shape, Calls
<1>3. \A m \in messages : m.o \in asked /\ m.port \in used \cup {0}
  <2>1. \A m \in MessagesOver(asked, used) : m.o \in asked /\ m.port \in used \cup {0}
    BY Zenon, MessageFields
  <2>. QED
    BY Zenon, <2>1 DEF Inv, Shape
<1>4. TypeOK
  BY Zenon, <1>2, <1>3 DEF Inv, Shape, TypeOK
<1>5. \A o \in Originators : \A type \in answers[o] : AnswerTrue(o, type)
  BY Zenon DEF Inv, Truth
<1>6. ToldTheTruth
  BY <1>5 DEF ToldTheTruth, AnswerTrue, IsTrue
<1>. QED
  BY Zenon, <1>1, <1>4, <1>6 DEF DetectedIsReal

\* Whatever is lost, late or fails, however many nodes ask at the same time, and whichever
\* slots hear which outcome: what NatDetectionService tells a node about its NAT is true
\* of the node whose outcome its call has used, what does not depend on an outcome is
\* true of the node itself, and a node is told one type.
THEOREM DetectedStaysReal == Spec => []DetectedIsReal
<1>. QED
  BY InvInit, InvNext, InvImplies, PTL DEF Spec
=============================================================================
