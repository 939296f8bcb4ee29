-------------------------- MODULE MCRudpHandshake ---------------------------
(***************************************************************************)
(* Three scenarios of RudpHandshake: packets are lost and one client must  *)
(* connect all the same; or no packet is lost and two clients and their    *)
(* peers open and close as they like; or one client and its peers do while *)
(* the transport stops listening.                                          *)
(***************************************************************************)
EXTENDS RudpHandshake

CONSTANT First   \* the only client of the first and the last scenario

VARIABLE scenario   \* "lossy", "busy" or "stopping"

lossy == scenario = "lossy"

\* The bounds of the scenarios.  With losses nothing closes; without them the
\* last socket of the listener only waits.
InScenario ==
  /\ scenario # "busy" => opened' \subseteq {First} \cup Servers
  /\ scenario # "stopping" => listening' = "yes"
  /\ IF lossy THEN \A s \in Sockets : IsOpen(s) => state'[s] # "closed"
              ELSE losses' = 0 /\ MaxServers \notin opened'

MCInit == Init /\ scenario \in {"lossy", "busy", "stopping"}

MCNext == Next /\ InScenario /\ UNCHANGED scenario

\* Fairness: ticks keep coming while a client sets up its connection, posted
\* handlers run, and a packet that is not lost arrives.
Fairness ==
  /\ WF_vars(lossy /\ ClientTick(First))
  /\ WF_vars(lossy /\ HandleAccept)
  /\ \A p \in Packets : WF_vars(lossy /\ p \in net /\ Deliver(p))

MCSpec == MCInit /\ [][MCNext]_<<vars, scenario>> /\ Fairness

-----------------------------------------------------------------------------
(* Properties.                                                             *)

\* A client that starts to connect does connect if fewer packets are lost than
\* the listener may create sockets, although a challenge is never sent twice:
\* another request makes another socket (RudpSession::HandleTick).
EventuallyConnected == lossy /\ state[First] = "probing" ~> IsConnected(First)
=============================================================================
