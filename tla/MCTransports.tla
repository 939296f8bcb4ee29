---------------------------- MODULE MCTransports ----------------------------
(***************************************************************************)
(* TcpTransport, UdpTransport and the message handlers above them.  A      *)
(* behaviour is one of one of them, under the bounds of one scenario; the  *)
(* others stay in an initial state.  Connections are alike, and so are     *)
(* requests: a liveness property of one of them is one of all.             *)
(***************************************************************************)
EXTENDS TcpTransport, UdpTransport, MessageHandlers

CONSTANTS c1, c2,            \* TCP connections, the elements of Conns
          r1, r2             \* UDP requests, the elements of Requests

VARIABLE scenario

ASSUME Conns = {c1, c2} /\ Requests = {r1, r2} /\ TcpAssumption /\ UdpAssumption /\ MessageAssumption

OnTcp == scenario \in {"one connection", "two connections"}
OnUdp == scenario \in {"two requests", "two sockets"}

\* The bounds of a scenario: one connection with a listener and with messages in
\* several reads, or two that connect; one socket and two requests, or the other
\* way round.
InScenario ==
  /\ scenario = "one connection" => conn'[c2] = conn[c2]
  /\ scenario = "two connections" =>
       listening' = 0 /\ \A i \in Conns : conn'[i].reads = conn[i].reads
  /\ scenario = "two requests" => sockets'[2] = NoSocket /\ socket' # 2
  /\ scenario = "two sockets" => request'[r2] = request[r2] /\ datagrams' < 2

MCInit ==
  /\ scenario \in {"one connection", "two connections", "two requests", "two sockets", "messages"}
  /\ Init /\ UdpInit /\ MessageInit
  /\ ~OnUdp => next_request_id = 1
  /\ scenario # "messages" =>
       /\ keyed = {}
       /\ order = [type |-> "Extension", ok |-> TRUE, security |-> {}, key |-> "invalid"]

MCNext ==
  /\ UNCHANGED scenario
  /\ \/ OnTcp /\ Next /\ UNCHANGED <<udpVars, messageVars>>
     \/ OnUdp /\ UdpNext /\ UNCHANGED <<vars, messageVars>>
     \/ scenario = "messages" /\ MessageNext /\ UNCHANGED <<vars, udpVars>>
  /\ InScenario

\* Posted handlers run, timers expire (that of an open end with nothing under way,
\* too), and the operating system gives up a connect that gets no answer.  Nothing is assumed of the peer or the network.
Fairness ==
  /\ \A i \in Conns :
       /\ WF_vars(OnTcp /\ Posted(i))
       /\ WF_vars(OnTcp /\ \E all \in BOOLEAN : Elapse(i, all))
       /\ WF_vars(OnTcp /\ conn[i].op = "connect" /\ \E r \in {"ok", "failed"} : Finish(i, r))
  /\ \A r \in Requests :
       /\ WF_udpVars(OnUdp /\ Sending(r))
       /\ WF_udpVars(OnUdp /\ HandleTimeout(r))
       /\ WF_udpVars(OnUdp /\ UdpElapse(r))
  /\ WF_messageVars(scenario = "messages" /\ \E waits \in BOOLEAN : DispatchToHandler(waits))
  /\ WF_messageVars(scenario = "messages" /\ Unread)
  /\ \A n \in Nodes : WF_messageVars(scenario = "messages" /\ wire = <<>> /\ CloseEndOnError(n))

MCSpec == MCInit /\ [][MCNext]_<<scenario, vars, udpVars, messageVars>> /\ Fairness

-----------------------------------------------------------------------------
(* Properties; TcpIsKept is one of TcpTransport, UdpIsKept of UdpTransport. *)

\* Every TcpConnection closes in the end and is forgotten by the transport; a
\* message that wants a response has had an outcome, the response or an error
\* (unless the transport goes first), and an error was the last thing signalled.
ConnectionSettles ==
  ErrorIsLast /\ ConnectionEnds(c1) /\ OutcomeSignalled(c1)

\* Every UDP request that wants a reply ends with the reply or an error.
RequestSettles == Settles(r1)

\* Every exchange ends, with both ends closed and nothing under way, after at most
\* two messages; one of ManagedEndpointMessages may go on, but only while the slot
\* at each end asks for another every time.  A caller that waits for an answer
\* closes only when on_error was raised, a message was handled or one that does not
\* open was passed over.
ExchangeEnds == []ShortExchange /\ CallerIsTold /\ ExchangeFinishes
=============================================================================
