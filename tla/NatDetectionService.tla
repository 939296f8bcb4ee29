------------------------ MODULE NatDetectionService -------------------------
(***************************************************************************)
(* NatDetectionService at its three places: nodes behind some NAT (the     *)
(* originators) ask a rendezvous node for the type of their NAT; it lets a *)
(* proxy try to reach them, first without their help (full cone), then     *)
(* after they were asked to connect to the proxy (port restricted).        *)
(*                                                                         *)
(* Messages are dispatched outside the strand of the transport: the calls  *)
(* of NatDetection for several requests run and wait at once, each on a    *)
(* thread of the io_service, and their slots hear every outcome.  Each     *)
(* ProxyConnect runs on a transport of its own, at a new port.             *)
(***************************************************************************)
EXTENDS Naturals, FiniteSets

CONSTANTS
  Originators,
  Kinds,        \* of NAT: "direct", "full_cone", "port_restricted", "symmetric"
  Full,         \* the originators that ask for full detection
  Ports,        \* of the proxies' transports, each used for one ProxyConnect (all at one IP)
  Threads,      \* of the io_service at the rendezvous
  MayFail       \* "send" (a message is lost), "listen" (no port is free), "wake" (spuriously)

Nobody == "nobody"

\* 0 stands for the port of the rendezvous.
ASSUME ServiceAssumption == 0 \notin Ports /\ Nobody \notin Originators

VARIABLES
  nat,         \* [Originators -> Kinds]
  asked,       \* the originators that sent their request
  call,        \* [Originators -> the call of NatDetection for its request]
  connected,   \* the originators whose call has its slots connected
  emitting,    \* outcomes for which slots are being called, each on a thread
  messages,    \* on their way
  used,        \* the ports in use
  connecting,  \* [port, o, late]: connections that proxies try to set up
  holes,       \* [Originators -> SUBSET Ports]: where an originator has connected to
  answers,     \* history: [Originators -> the types that were reported to it]
  missed,      \* history: the originators whose call was notified before it waited
  lost,        \* history: those for which a message was lost, or something failed
  crashed      \* a slot used the variables of a call that had returned

vars == <<nat, asked, call, connected, emitting, messages, used, connecting, holes, answers,
          missed, lost, crashed>>
world == <<nat, asked>>
callVars == <<call, connected, emitting, missed>>
proxyVars == <<used, connecting>>

\* Of a call: where it is, whose outcome was written last to its variables condition and
\* result, and these (condition: whether it is kSuccess).
Call(pc) == [pc |-> pc, of |-> Nobody, condition |-> FALSE, result |-> FALSE]

Running == {o \in Originators : call[o].pc \in {"sent", "waiting", "woken"}}

\* A thread is left to run a handler.
ThreadIsFree == ~crashed /\ Cardinality(Running) + Cardinality(emitting) < Threads

Message(type, o, port, value) == [type |-> type, o |-> o, port |-> port, value |-> value]

\* A packet from the port of a proxy to the address that the rendezvous has seen.
Reaches(port, o) == \/ nat[o] \in {"direct", "full_cone"}
                    \/ nat[o] = "port_restricted" /\ port \in holes[o]

-----------------------------------------------------------------------------
Init ==
  /\ nat \in [Originators -> Kinds] /\ asked = {}
  /\ call = [o \in Originators |-> Call("idle")] /\ connected = {} /\ emitting = {}
  /\ messages = {} /\ used = {} /\ connecting = {} /\ holes = [o \in Originators |-> {}]
  /\ answers = [o \in Originators |-> {}]
  /\ missed = {} /\ lost = {} /\ crashed = FALSE

\* NatDetectionRpcs at the originator.
Ask(o) ==
  /\ o \notin asked /\ asked' = asked \cup {o}
  /\ messages' = messages \cup {Message("NatDetectionRequest", o, 0, o \in Full)}
  /\ UNCHANGED <<nat, callVars, proxyVars, holes, answers, lost, crashed>>

\* One of the originator's addresses is the one that the rendezvous has seen.
DirectlyConnected(o) == nat[o] = "direct"

SetNatDetectionResponse(o, type) == Message("NatDetectionResponse", o, 0, type)

\* Each transport gets a new port; the request is sent to a proxy that listens.
SendProxyConnectRequest(o, rendezvous, port) == Message("ProxyConnectRequest", o, port, rendezvous)

\* At the rendezvous, up to the wait: the slots are connected, the request is sent.
NatDetection(m) ==
  /\ m \in messages /\ m.type = "NatDetectionRequest" /\ ThreadIsFree
  /\ \/ /\ DirectlyConnected(m.o) \/ ~m.value
        /\ messages' = (messages \ {m}) \cup
             {SetNatDetectionResponse(m.o, IF DirectlyConnected(m.o) THEN "kDirectConnected" ELSE "kNotConnected")}
        /\ UNCHANGED <<call, connected, used>>
     \/ /\ ~DirectlyConnected(m.o) /\ m.value
        /\ connected' = connected \cup {m.o}
        /\ \E port \in Ports \ used :
             /\ used' = used \cup {port}
             /\ messages' = (messages \ {m}) \cup {SendProxyConnectRequest(m.o, FALSE, port)}
             /\ call' = [call EXCEPT ![m.o] = Call("sent")]
  /\ UNCHANGED <<world, emitting, connecting, holes, answers, missed, lost, crashed>>

\* condition_variable.wait, without a condition.
Wait(o) ==
  /\ call[o].pc = "sent" /\ ~crashed
  /\ call' = [call EXCEPT ![o].pc = "waiting"]
  /\ UNCHANGED <<world, connected, emitting, messages, proxyVars, holes, answers, missed, lost, crashed>>

\* A wait may end without a notification; condition is then not initialised.
WakeUp(o) ==
  /\ call[o].pc = "waiting" /\ ~crashed /\ "wake" \in MayFail
  /\ \E condition \in IF call[o].of = Nobody THEN BOOLEAN ELSE {call[o].condition} :
       call' = [call EXCEPT ![o].pc = "woken", ![o].condition = condition]
  /\ UNCHANGED <<world, connected, emitting, messages, proxyVars, holes, answers, missed, lost, crashed>>

\* on_proxy_connect_response_ or on_error_ is raised at the rendezvous, for every slot
\* that is connected.
EmitOutcome(m, condition, result) ==
  /\ ThreadIsFree
  /\ emitting' = IF connected = {} THEN emitting
                 ELSE emitting \cup {[o |-> m.o, port |-> m.port, condition |-> condition,
                                      result |-> result, todo |-> connected]}
  /\ UNCHANGED <<call, connected, missed>>

\* *result, *condition and notify_one, without the mutex: a call that is reading them
\* may have seen the old condition.  A notification while nobody waits has no effect.
Write(o, e) ==
  /\ \E condition \in {e.condition, IF call[o].pc = "woken" THEN call[o].condition ELSE e.condition} :
       call' = [call EXCEPT ![o] =
                  [pc |-> IF @.pc = "waiting" THEN "woken" ELSE @.pc, of |-> e.o,
                   condition |-> condition, result |-> e.result]]
  /\ missed' = IF call[o].pc = "sent" THEN missed \cup {o} ELSE missed

\* The slot of o's call: it compares the proxy with itself, or two proxies at one IP, so
\* it takes any outcome.  The slots of a call that returned early are still connected;
\* they write to where its variables were: to memory that is free, to the variables of a
\* call that runs now in that place of the stack, or to something else.
ProxyConnectResponse(o, e) ==
  IF o \notin connected THEN UNCHANGED <<call, missed, crashed>>
  ELSE IF o \in Running THEN Write(o, e) /\ UNCHANGED crashed
  ELSE \/ UNCHANGED <<call, missed, crashed>>
       \/ \E p \in Running : Write(p, e) /\ UNCHANGED crashed
       \/ crashed' = TRUE /\ UNCHANGED <<call, missed>>

CallSlot(e, o) ==
  /\ e \in emitting /\ o \in e.todo /\ ~crashed
  /\ ProxyConnectResponse(o, e)
  /\ emitting' = (emitting \ {e}) \cup
       (IF e.todo = {o} THEN {} ELSE {[e EXCEPT !.todo = @ \ {o}]})
  /\ UNCHANGED <<world, connected, messages, proxyVars, holes, answers, lost>>

Respond(m) ==
  /\ m \in messages /\ m.type = "ProxyConnectResponse"
  /\ EmitOutcome(m, TRUE, m.value)
  /\ messages' = messages \ {m}
  /\ UNCHANGED <<world, proxyVars, holes, answers, lost, crashed>>

\* The rest of NatDetection.  The slots stay connected when it returns early.
Continue(o) ==
  /\ call[o].pc = "woken" /\ ~crashed
  /\ \/ /\ ~call[o].condition
        /\ lost' = lost \cup {o} /\ UNCHANGED <<messages, used, connected>>
     \/ /\ call[o].condition /\ call[o].result
        /\ messages' = messages \cup {SetNatDetectionResponse(o, "kFullCone")}
        /\ UNCHANGED <<used, connected, lost>>
     \/ /\ call[o].condition /\ ~call[o].result
        /\ connected' = connected \ {o}
        /\ \E port \in Ports \ used :
             /\ used' = used \cup {port}
             /\ messages' = messages \cup {SendProxyConnectRequest(o, TRUE, port)}
        /\ UNCHANGED lost
  /\ call' = [call EXCEPT ![o].pc = "done"]
  /\ UNCHANGED <<world, emitting, connecting, holes, answers, missed, crashed>>

-----------------------------------------------------------------------------
(* At the proxy.                                                           *)

ProxyConnectReply(o, port, result) == Message("ProxyConnectResponse", o, port, result)

\* The forward request goes to the rendezvous, the answer directly to the originator.
SendForwardRendezvousRequest(o, port) == Message("ForwardRendezvousRequest", o, port, TRUE)
SendNatDetectionResponse(o, port) == Message("NatDetectionResponse", o, port, "kPortRestricted")

ProxyConnect(m) ==
  /\ m \in messages /\ m.type = "ProxyConnectRequest"
  /\ \/ /\ "listen" \in MayFail
        /\ messages' = (messages \ {m}) \cup {ProxyConnectReply(m.o, m.port, FALSE)}
        /\ lost' = lost \cup {m.o} /\ UNCHANGED connecting
     \/ /\ ~m.value
        /\ connecting' = connecting \cup {[port |-> m.port, o |-> m.o, late |-> FALSE]}
        /\ messages' = messages \ {m} /\ UNCHANGED lost
     \/ /\ m.value
        /\ messages' = (messages \ {m}) \cup {SendForwardRendezvousRequest(m.o, m.port),
                                              SendNatDetectionResponse(m.o, m.port),
                                              ProxyConnectReply(m.o, m.port, FALSE)}
        /\ UNCHANGED <<connecting, lost>>
  /\ UNCHANGED <<world, callVars, used, holes, answers, crashed>>

\* The connection is set up.  The handler that waited too long does not hear of it.
ConnectResult(c) ==
  /\ c \in connecting /\ Reaches(c.port, c.o)
  /\ connecting' = connecting \ {c}
  /\ messages' = IF c.late THEN messages ELSE messages \cup {ProxyConnectReply(c.o, c.port, TRUE)}
  /\ UNCHANGED <<world, callVars, used, holes, answers, lost, crashed>>

\* Faulty variant of ConnectTimeout: the result is not looked at.
WrongConnectTimeout(c) ==
  /\ c \in connecting /\ ~c.late
  /\ connecting' = (connecting \ {c}) \cup {[c EXCEPT !.late = TRUE]}
  /\ messages' = messages \cup {ProxyConnectReply(c.o, c.port, TRUE)}
  /\ UNCHANGED <<world, callVars, used, holes, answers, lost, crashed>>

\* timed_wait ends without a result.
ConnectTimeout(c) ==
  /\ c \in connecting /\ ~c.late
  /\ "send" \in MayFail \/ ~Reaches(c.port, c.o)
  /\ connecting' = (connecting \ {c}) \cup {[c EXCEPT !.late = TRUE]}
  /\ messages' = messages \cup {ProxyConnectReply(c.o, c.port, FALSE)}
  /\ lost' = IF Reaches(c.port, c.o) THEN lost \cup {c.o} ELSE lost
  /\ UNCHANGED <<world, callVars, used, holes, answers, crashed>>

-----------------------------------------------------------------------------
(* At the rendezvous again, and at the originator.                         *)

SetRendezvousRequest(o, port) == Message("RendezvousRequest", o, port, TRUE)

\* Also while calls of NatDetection wait, as long as a thread is left.
ForwardRendezvous(m) ==
  /\ m \in messages /\ m.type = "ForwardRendezvousRequest" /\ ThreadIsFree
  /\ messages' = (messages \ {m}) \cup {SetRendezvousRequest(m.o, m.port)}
  /\ UNCHANGED <<world, callVars, proxyVars, holes, answers, lost, crashed>>

\* Faulty variant of Rendezvous: the request is only taken note of.
SilentRendezvous(m) ==
  /\ m \in messages /\ m.type = "RendezvousRequest"
  /\ messages' = messages \ {m}
  /\ UNCHANGED <<world, callVars, proxyVars, holes, answers, lost, crashed>>

\* The originator connects to the proxy; what comes of it is only reported.
Rendezvous(m) ==
  /\ m \in messages /\ m.type = "RendezvousRequest"
  /\ messages' = messages \ {m}
  /\ holes' = [holes EXCEPT ![m.o] = @ \cup {m.port}]
  /\ UNCHANGED <<world, callVars, proxyVars, answers, lost, crashed>>

FromRendezvous(m) == m.port = 0

OnNatDetectionResponse(m) ==
  /\ m \in messages /\ m.type = "NatDetectionResponse"
  /\ FromRendezvous(m) \/ Reaches(m.port, m.o)
  /\ messages' = messages \ {m}
  /\ answers' = [answers EXCEPT ![m.o] = @ \cup {m.value}]
  /\ UNCHANGED <<world, callVars, proxyVars, holes, lost, crashed>>

\* A message is lost, or not let through by a NAT for too long.  The rendezvous hears of
\* a failure on its transport to the proxy; its slot compares the addresses of proxies.
Lose(m) ==
  /\ m \in messages
  /\ \/ "send" \in MayFail
     \/ m.type = "NatDetectionResponse" /\ ~FromRendezvous(m) /\ ~Reaches(m.port, m.o)
  /\ messages' = messages \ {m} /\ lost' = lost \cup {m.o}
  /\ IF m.type \in {"ProxyConnectRequest", "ProxyConnectResponse"}
     THEN EmitOutcome(m, FALSE, FALSE)
     ELSE UNCHANGED callVars
  /\ UNCHANGED <<world, proxyVars, holes, answers, crashed>>

Handle(m) == NatDetection(m) \/ Respond(m) \/ ProxyConnect(m) \/ ForwardRendezvous(m)
             \/ Rendezvous(m) \/ OnNatDetectionResponse(m)

Next ==
  \/ \E o \in Originators : Ask(o) \/ Wait(o) \/ WakeUp(o) \/ Continue(o)
  \/ \E e \in emitting : \E o \in e.todo : CallSlot(e, o)
  \/ \E m \in messages : Handle(m) \/ Lose(m)
  \/ \E c \in connecting : ConnectResult(c) \/ ConnectTimeout(c)

Spec == Init /\ [][Next]_vars

-----------------------------------------------------------------------------
(* Properties.                                                             *)

Types == {"kDirectConnected", "kFullCone", "kPortRestricted", "kNotConnected"}

\* Type invariant.
TypeOK ==
  /\ \A o \in Originators : call[o].of \in Originators \cup {Nobody}
  /\ connected \subseteq asked /\ used \subseteq Ports
  /\ \A m \in messages : m.o \in asked /\ m.port \in used \cup {0}
  /\ answers \in [Originators -> SUBSET Types]

\* The verdict of a call is true of the node whose outcome the call used, and so of the
\* node that asked when the outcome is its own.
ToldTheTruth ==
  \A o \in Originators :
    /\ "kDirectConnected" \in answers[o] => nat[o] = "direct"
    /\ "kNotConnected" \in answers[o] => nat[o] # "direct"
    /\ "kFullCone" \in answers[o] =>
         /\ nat[o] # "direct"
         /\ call[o].of \in Originators /\ nat[call[o].of] = "full_cone"
    /\ "kPortRestricted" \in answers[o] =>
         \/ nat[o] = "port_restricted"
         \/ nat[o] = "full_cone" /\ (o \in lost \/ call[o].of # o)

\* A node is told one type: the rendezvous and the proxy do not both answer.
OneAnswer == \A o \in Originators : \A x, y \in answers[o] : x = y

\* What NatDetectionService tells a node about its NAT, with any number of calls at the
\* rendezvous at once.  That the node is directly connected, or is not, and that a proxy
\* gets through to it after its help, is true whatever is lost, and whichever slots
\* hear which outcome.  That it is a full cone is true of the node whose outcome its
\* call has used; a full cone is called port restricted only if something was lost or
\* the outcome used was of another node.  A node is told one type.
DetectedIsReal == TypeOK /\ ToldTheTruth /\ OneAnswer
=============================================================================
