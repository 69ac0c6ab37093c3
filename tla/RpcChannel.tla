----------------------------- MODULE RpcChannel -----------------------------
(***************************************************************************)
(* Two peers of the binary RPC protocol: one encodes its messages with     *)
(* RpcEncoder, the other cuts the stream into packets with BinaryRpc and   *)
(* decodes each packet it takes with RpcDecoder.  Here are the packets and *)
(* the sizes in them; RpcMessages says what is in a packet.                *)
(***************************************************************************)
EXTENDS BinaryRpc

CONSTANTS
  Null,
  Conversations,   \* sequences of messages that a peer may send
  Builds,          \* overloads and settings that the peers may use
  encodeBody(_, _),  \* the bytes of a message's name and values, by a build
  decode(_, _, _)  \* what RpcDecoder makes of a packet of a kind, by a build

ASSUME RpcChannelAssumption == \A c \in Conversations : c \in Seq(ToSet(c))

VARIABLES
  build,      \* the build of these peers
  messages,   \* the messages of this stream
  received    \* the messages decoded so far

channelVars == <<vars, build, messages, received>>

P == INSTANCE RpcPacket

\* A message is a request or a response; authorization is Null if the sender
\* passes no header.
Request(methodName, parameters, authorization) ==
  [kind |-> "request", methodName |-> methodName, parameters |-> parameters,
   authorization |-> authorization]
Response(variable, authorization) ==
  [kind |-> "response", variable |-> variable, authorization |-> authorization]

\* Lines 171-173.
IsError(m) == m.kind = "response" /\ m.variable # Null /\ m.variable.errorStruct

encode(m, b) ==
  IF m.kind = "request"
  THEN P!requestPacket(encodeBody(m, b), m.authorization)
  ELSE LET p == P!responsePacket(encodeBody(m, b), IsError(m))
       IN IF m.authorization = Null THEN p ELSE P!insertHeader(p, m.authorization)

ChannelInit ==
  /\ build \in Builds /\ messages \in Conversations
  /\ sent = [i \in DOMAIN messages |-> encode(messages[i], build)]
  /\ Init
  /\ received = <<>>

Transport == (Receive \/ process) /\ UNCHANGED <<build, messages, received>>

\* The client takes a finished packet and decodes it.
Take ==
  /\ Deliver
  /\ received' = Append(received, decode(data, type, build))
  /\ UNCHANGED <<build, messages>>

ChannelNext == Transport \/ Take

ChannelSpec == ChannelInit /\ [][ChannelNext]_channelVars

-----------------------------------------------------------------------------
(* Properties *)

\* A message that can be sent: a header is there or has an authorization, an
\* error has none, and the packet is not too large.
Sendable(m, b) ==
  /\ m.kind \in {"request", "response"}
  /\ m.authorization \in Seq(Nat) \cup {Null}
  /\ m.kind = "request" => m.authorization # <<>>
  /\ IsError(m) => m.authorization \in {Null, <<>>}
  /\ encodeBody(m, b) \in Seq(Nat) \ {<<>>}
  /\ m.authorization # Null => Len(P!fields(m.authorization)) <= MaxHeader
  /\ Len(encode(m, b)) - 8 <= MaxData

\* The sum of the sizes does not wrap, and all messages can be sent.
AllSendable(conversations) ==
  /\ MaxData < Width
  /\ \A c \in conversations, b \in Builds : \A i \in DOMAIN c : Sendable(c[i], b)

\* BinaryRpc accepts every packet that RpcEncoder makes, and finds its end.
Accepted == error = "none" /\ delivered = SubSeq(sent, 1, Len(delivered))

\* All bytes are used, and no packet waits for its client.
AtEnd == rest = <<>> /\ chunk = <<>> /\ ~finished

\* In the end every message has been received: no packet is held back because
\* a size in it is too large.
AllReceived == AtEnd => Len(received) = Len(messages)
=============================================================================
