--------------------------- MODULE MCNatTraversal ---------------------------
(***************************************************************************)
(* How a node gets past its NAT: the NAT-PMP client, the detection of the  *)
(* NAT by a rendezvous and a proxy, and the node that asks for it.  A      *)
(* behaviour is one of one of them; the others stay in an initial state.   *)
(***************************************************************************)
EXTENDS NatDetectionService, NatDetectionClient, NatPmpClient

CONSTANTS
  a, b,      \* nodes that ask for the type of their NAT
  WildPorts  \* the ports that are mapped if the gateway is not orderly

VARIABLE scenario

\* The detections: two full ones, with a thread to spare and without; one for which sending
\* or listening fails, beside one that succeeds; and a full and a partial one such that
\* anything fails.
FewThreads == INSTANCE NatDetectionService WITH Threads <- 2
Failing == INSTANCE NatDetectionService WITH Ports <- {1, 2, 3}, MayFail <- {"send", "listen"}
Partial == INSTANCE NatDetectionService WITH Full <- {a}, MayFail <- {"send", "listen", "wake"}

OnGateway == scenario \in {"gateway", "orderly gateway"}
Detections == {"two detections", "few threads", "failing", "partial detection"}

MCInit ==
  /\ scenario \in {"gateway", "orderly gateway", "client"} \cup Detections
  /\ PmpInit /\ Init /\ ClientInit
  /\ orderly <=> scenario = "orderly gateway"
  /\ scenario \notin Detections => nat[a] = "direct" /\ nat[b] = "direct"
  /\ scenario = "failing" => nat[a] # "direct" /\ nat[b] = "full_cone"
  /\ scenario # "client" => candidates = <<1>> /\ \A i \in 1 .. Contacts : up[i]

MCNext ==
  /\ UNCHANGED scenario
  /\ \/ OnGateway /\ PmpNext /\ UNCHANGED <<vars, clientVars>>
     \/ /\ \/ scenario = "two detections" /\ Next
           \/ scenario = "few threads" /\ FewThreads!Next
           \/ scenario = "failing" /\ Failing!Next /\ lost' \subseteq {a}
           \/ scenario = "partial detection" /\ Partial!Next
        /\ UNCHANGED <<pmpVars, clientVars>>
     \/ scenario = "client" /\ ClientNext /\ UNCHANGED <<pmpVars, vars>>
  /\ scenario = "gateway" => PmpPorts \ WildPorts \subseteq unsent'
  /\ used' = 1..Cardinality(used')  \* New ports are alike.

\* What the detection does by itself.
Served == \/ \E o \in Originators : Wait(o) \/ Continue(o)
          \/ \E e \in emitting : \E o \in e.todo : CallSlot(e, o)
          \/ \E m \in messages : Handle(m)
          \/ \E c \in connecting : ConnectResult(c) \/ ConnectTimeout(c)

\* Handlers and threads run, timers expire, an orderly gateway answers, messages
\* that can be handled are, an attempt to connect ends and requests end.
Fairness ==
  /\ WF_pmpState(scenario = "gateway" /\ ~undefined /\ Posted)
  /\ WF_pmpState(scenario = "gateway" /\ ~undefined /\ Expire)
  /\ WF_pmpState(scenario = "orderly gateway" /\ Posted)
  /\ WF_pmpState(scenario = "orderly gateway" /\ \E q \in Questions : GatewayResponds(q))
  /\ WF_vars(scenario = "two detections" /\ Served)
  /\ WF_clientVars(scenario = "client" /\ (WaitForResult \/ Return \/ Handlers))

MCSpec == MCInit /\ [][MCNext]_<<scenario, pmpVars, vars, clientVars>> /\ Fairness

-----------------------------------------------------------------------------
(* Properties.  AnswerMeetsItsRequest is one of NatPmpClient, AskedInOrder *)
(* of NatDetectionClient, DetectedIsReal of NatDetectionService.           *)

\* A NAT-PMP client that was started finds the public address or stops: the tries
\* are counted, the timer is set after each of them, and the question is not asked
\* again once the address is known (RetransmitPublicAdddressRequest).  Once a mapping
\* request is sent to an orderly gateway, all that are queued are (HandleResponse).
PmpGoesOn ==
  /\ NoQuestionOnceKnown
  /\ scenario = "gateway" /\ connect = "pending" ~> known \/ socket = "none" \/ undefined
  /\ (scenario = "orderly gateway" /\ \E q \in MapRequests : questions[q] > 0) ~> queue = <<>>

\* Every thread waits, and nobody is left to hear what it waits for.
AllWait == Cardinality({o \in Originators : call[o].pc = "waiting"}) = Threads

\* A node that asks for its type is told in the end, whatever the detections of others do
\* at the same time, unless it is behind a symmetric NAT or its own message was lost, its
\* own call was notified before the wait (NatDetection waits without a condition), every
\* thread has come to wait, or a slot of a call that had returned brought the node down.
\* (The two nodes are alike.)
Answered ==
  (scenario = "two detections" /\ a \in asked) ~>
    \/ answers[a] # {} \/ nat[a] = "symmetric" \/ a \in lost
    \/ a \in missed \/ AllWait \/ crashed

\* NatDetection::Detect returns, whoever is down and whenever the answer comes.
DetectReturns == EndsInReturn
=============================================================================
