---------------------------- MODULE MessageHandlers ----------------------------
(***************************************************************************)
(* MessageHandler and RudpMessageHandler: how a message is wrapped, signed *)
(* and encrypted, how the bytes that arrive are opened again, which signal *)
(* is raised for them and what is answered.  One exchange over one         *)
(* connection is modelled: the caller sends a message and, when it gave a  *)
(* timeout, waits for an answer; the callee hands what arrives to its      *)
(* message handler, as RudpConnection::DispatchMessage does.               *)
(*                                                                         *)
(* A payload is only initialised (it has its required fields) or not.  A   *)
(* key is the node that holds its private half, or "invalid".              *)
(***************************************************************************)
EXTENDS Naturals, FiniteSets, Sequences

CONSTANTS Caller, Callee

ASSUME MessageAssumption == Caller # Callee /\ {Caller, Callee} \cap {"invalid", "none"} = {}

Nodes == {Caller, Callee}

Peer(n) == CHOOSE m \in Nodes : m # n

\* The bits of a SecurityType; kNone is the empty set.
Bits == {"sign", "parameters", "encrypt"}

Keys == Nodes \cup {"invalid"}

\* The answer RudpMessageHandler wraps for each request it answers.
Reply ==
  [ManagedEndpointMessage   |-> "ManagedEndpointMessage",
   NatDetectionRequest      |-> "NatDetectionResponse",
   ProxyConnectRequest      |-> "ProxyConnectResponse",
   ForwardRendezvousRequest |-> "ForwardRendezvousResponse"]

\* The requests whose slot is also given the timeout for the next message.
Timed == {"ManagedEndpointMessage", "NatDetectionRequest", "ProxyConnectRequest"}

\* The types a signal exists for; "Extension" is any type of a derived class.
Signals ==
  DOMAIN Reply \cup {Reply[t] : t \in DOMAIN Reply}
    \cup {"RendezvousRequest", "RendezvousAcknowledgement"}

Types == Signals \cup {"Extension"}

\* What the sender of a message asked for.
Orders == [type : Types, ok : BOOLEAN, security : SUBSET Bits, key : Keys]

\* The bytes on the connection: the security byte, the encrypted seed (whose
\* key it was made for), the wrapper, and whether they stop short in either.
Bytes ==
  [type : Types, ok : BOOLEAN, security : SUBSET Bits,
   seed : Nodes \cup {"none"}, cut : {"no", "seed", "wrapper"}]

VARIABLES
  keyed,    \* the nodes whose handler has a private key
  order,    \* what the sender of the last message asked for
  wire,     \* the bytes under way: none or one
  to,       \* the node they are under way to
  open,     \* the nodes whose end of the connection is open
  heard,    \* what each node was told: "nothing", "slot", "error" or "dropped"
  sent      \* how many messages were sent, counted up to three

messageVars == <<keyed, order, wire, to, open, heard, sent>>

--------------------------------------------------------------------------------
\* The message MakeSerialisedWrapperMessage builds when nothing fails.
Wrapper(o) ==
  [type |-> o.type, ok |-> o.ok, security |-> o.security,
   seed |-> IF "encrypt" \in o.security THEN o.key ELSE "none", cut |-> "no"]

\* A private key is needed for any security, a valid public key to encrypt.
CanSecure(n, o) ==
  o.security # {} =>
    /\ n \in keyed
    /\ "encrypt" \in o.security => o.key # "invalid"

\* The possible results: a failed signature or encryption gives no message.
MakeSerialisedWrapperMessage(n, o) ==
  LET result == IF CanSecure(n, o) THEN <<Wrapper(o)>> ELSE <<>>
  IN {result} \cup (IF {"sign", "encrypt"} \cap o.security # {} THEN {<<>>} ELSE {})

\* RudpMessageHandler::WrapMessage: nothing for a message without its required
\* fields, and kNone and no key for the others.
Plain(type, ok) == [type |-> type, ok |-> ok, security |-> {}, key |-> "invalid"]

WrapMessage(n, type, ok) ==
  IF ok THEN MakeSerialisedWrapperMessage(n, Plain(type, ok)) ELSE {<<>>}

--------------------------------------------------------------------------------
\* OnMessageReceived reaches ProcessSerialisedMessage.
Opens(n, m) ==
  /\ m.security # {} =>
       /\ n \in keyed
       /\ "encrypt" \in m.security => m.cut # "seed" /\ m.seed = n
  /\ m.cut = "no"

\* A slot sets every required field of the answer, or there is no slot and it
\* stays empty; a ManagedEndpointMessage has no required field.
Filled(type) == IF type = "ManagedEndpointMessage" THEN {TRUE} ELSE BOOLEAN

\* RudpMessageHandler::ProcessSerialisedMessage: the answers it may produce.
Answers(n, m) ==
  IF m.ok /\ m.type \in DOMAIN Reply
  THEN UNION {WrapMessage(n, Reply[m.type], f) : f \in Filled(m.type)}
  ELSE {<<>>}

\* What the application at n learns of message m: a signal, or nothing.
Told(n, m) ==
  IF Opens(n, m) /\ m.ok /\ m.type \in Signals THEN "slot" ELSE "dropped"

--------------------------------------------------------------------------------
MessageInit ==
  /\ keyed \in SUBSET Nodes
  /\ order \in {o \in Orders : o.key # "invalid" => "encrypt" \in o.security}
  /\ wire = <<>> /\ to = Callee /\ open = {}
  /\ heard = [n \in Nodes |-> "nothing"]
  /\ sent = 0

\* The caller wraps its message and sends it; it keeps its end open when it
\* gave a timeout.  It has nothing to send when the wrapping failed.
SendMessage(waits) ==
  /\ sent = 0
  /\ \E result \in MakeSerialisedWrapperMessage(Caller, order) :
       wire' = result
  /\ IF wire' = <<>>
     THEN UNCHANGED open
     ELSE open' = {Callee} \cup {n \in {Caller} : waits}
  /\ sent' = 1
  /\ UNCHANGED <<keyed, order, to, heard>>

\* The bytes stop short: in the seed of an encrypted message or after it.
Cut ==
  /\ wire # <<>> /\ wire[1].cut = "no" /\ sent = 1
  /\ \E c \in {"seed", "wrapper"} :
       /\ c = "seed" => "encrypt" \in wire[1].security
       /\ wire' = <<[wire[1] EXCEPT !.cut = c]>>
  /\ UNCHANGED <<keyed, order, to, open, heard, sent>>

\* The timeout after an answer is kImmediateTimeout unless a slot that is
\* given it sets it.
AnswerTimeout(m, waits) == waits => m.type \in Timed

\* DispatchMessage: the message is handled, the answer is written, and this
\* end stays open when a timeout was set; without an answer it closes.
DispatchToHandler(waits) ==
  /\ wire # <<>> /\ to \in open
  /\ LET m == wire[1]
     IN /\ heard' = [heard EXCEPT ![to] = Told(to, m)]
        /\ wire' \in IF Opens(to, m) THEN Answers(to, m) ELSE {<<>>}
        /\ IF wire' = <<>>
           THEN ~waits /\ UNCHANGED <<order, to, sent>>
           ELSE /\ AnswerTimeout(m, waits)
                /\ order' = Plain(wire'[1].type, TRUE)
                /\ to' = Peer(to)
                /\ sent' = IF sent < 3 THEN sent + 1 ELSE 3
        /\ open' = IF waits THEN open ELSE open \ {to}
  /\ UNCHANGED keyed

\* The peer's end is closed: what was written to it is not read.
Unread ==
  /\ wire # <<>> /\ to \notin open
  /\ wire' = <<>>
  /\ UNCHANGED <<keyed, order, to, open, heard, sent>>

\* MessageHandler::OnError passes the condition on to the application.
OnError(n) == heard' = [heard EXCEPT ![n] = "error"]

\* Faulty variant of CloseEndOnError: the end stays open.
StuckCloseEndOnError(n) ==
  /\ n \in open
  /\ OnError(n)
  /\ UNCHANGED <<keyed, order, wire, to, open, sent>>

\* A read or a write that fails or times out, also while a message is under way,
\* raises on_error and closes this end.
CloseEndOnError(n) ==
  /\ n \in open
  /\ OnError(n)
  /\ open' = open \ {n}
  /\ UNCHANGED <<keyed, order, wire, to, sent>>

\* A message is lost with its connection.
Lose ==
  /\ wire # <<>>
  /\ wire' = <<>>
  /\ UNCHANGED <<keyed, order, to, open, heard, sent>>

MessageNext ==
  \/ \E waits \in BOOLEAN : SendMessage(waits) \/ DispatchToHandler(waits)
  \/ Cut \/ Unread \/ Lose
  \/ \E n \in Nodes : CloseEndOnError(n)

MessageSpec == MessageInit /\ [][MessageNext]_messageVars

--------------------------------------------------------------------------------
\* The variables keep their types: at most one message is under way, and it has
\* a seed only for a node that can hold its key.
MessageTypeOK ==
  /\ keyed \subseteq Nodes /\ open \subseteq Nodes /\ to \in Nodes
  /\ order \in Orders
  /\ wire \in Seq(Bytes) /\ Len(wire) <= 1
  /\ heard \in [Nodes -> {"nothing", "slot", "error", "dropped"}]
  /\ sent \in 0..3

Over == sent > 0 /\ wire = <<>> /\ open = {}

\* An answer is not answered: but for a ManagedEndpointMessage, whose answer
\* has the type of the request, an exchange is at most two messages long.
ShortExchange ==
  sent = 3 => order.type = "ManagedEndpointMessage"

\* The end of a caller that waits for an answer closes only when on_error was
\* raised or a message was handled; OnMessageReceived passes over one that does
\* not open in silence, and that is the one way to hear nothing.
CallerIsTold ==
  [][(Caller \in open /\ Caller \notin open' => heard'[Caller] # "nothing")]_messageVars

\* Every exchange comes to an end, both ends closed and nothing under way, unless
\* it is one of ManagedEndpointMessages that the slots at both ends keep alive: each
\* asks for another message every time (DispatchMessage and HandleWrite close the
\* end of a slot that leaves the timeout at kImmediateTimeout).
ExchangeFinishes ==
  sent > 0 ~> (Over \/ [](order.type = "ManagedEndpointMessage" /\ open = Nodes))
================================================================================
