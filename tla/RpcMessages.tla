----------------------------- MODULE RpcMessages -----------------------------
(***************************************************************************)
(* What a packet of RpcChannel has in it, as RpcCodec encodes and decodes  *)
(* it, and what becomes of the messages.                                   *)
(***************************************************************************)
EXTENDS RpcChannel

CONSTANTS MantissaBits, ShiftBits, MaxParameters, RoundDigits(_), Levels  \* of RpcCodec

Codec == INSTANCE RpcCodecProofs  \* RpcCodec, and what is proved of it

ASSUME RpcMessagesAssumption ==
  /\ \A b \in Builds : b.bytes \in {"char", "uint8_t"}
                      /\ {b.signedChar, b.forceInteger64, b.inPlace} \subseteq BOOLEAN
  /\ Codec!CodecConstants

encodeValues(m, b) ==
  IF m.kind = "request"
  THEN Codec!requestBody(m.methodName, m.parameters, b)
  ELSE Codec!encodeVariable(m.variable, b)

decodeMessage(p, kind, b) ==
  LET authorization == Codec!decodeHeader(p)
      offset        == Codec!headerSize(p)
  IN IF kind = "request"
     THEN LET r == Codec!decodeRequest(p, b)
          IN Request(r.methodName, r.parameters, authorization)
     ELSE Response(IF b.inPlace THEN Codec!decodeInPlace(p, offset, b)
                   ELSE Codec!decodeResponse(p, offset, b), authorization)

-----------------------------------------------------------------------------
(* Properties *)

\* Messages whose values are among the variables, and errors those of createError:
\* where char is signed nothing else tells an error from a struct.
SendableValues(m) ==
  /\ m.authorization # Null => Codec!SendableString(Codec!fields(m.authorization))
  /\ m.kind = "request" =>
       /\ Codec!SendableString(m.methodName)
       /\ m.parameters # Null =>
            m.parameters \in Seq(Codec!Pointers) /\ Len(m.parameters) < Codec!Range32
  /\ m.kind = "response" => m.variable \in Codec!Pointers
  /\ IsError(m) => /\ m.variable.type = "tStruct"
                   /\ DOMAIN m.variable.structValue = {Codec!FaultCode, Codec!FaultString}

AllValuesSendable(conversations) ==
  /\ \A b \in Builds : Codec!AllSendableTo(b)
  /\ \A c \in conversations : \A i \in DOMAIN c : SendableValues(c[i])

\* The requests that are received are those that were sent, with the
\* authorization in their header; one with too many parameters has none.
RequestsArrive ==
  \A i \in DOMAIN received : messages[i].kind = "request" =>
    LET m == messages[i]
        parameters == IF m.parameters = Null \/ Len(m.parameters) > MaxParameters THEN <<>>
                      ELSE [k \in DOMAIN m.parameters |-> Codec!Sent(m.parameters[k], build)]
    IN received[i] = Request(m.methodName, parameters,
                             IF m.authorization = Null THEN <<>> ELSE m.authorization)

\* A response that was decoded in place keeps the packet in binaryValue.
Value(v) == IF build.inPlace /\ v.type # "tBinary" THEN [v EXCEPT !.binaryValue = <<>>] ELSE v

\* The responses that are received have the values that were sent, whether a
\* header was inserted or not.
ResponsesArrive ==
  \A i \in DOMAIN received : messages[i].kind = "response" =>
    LET m == messages[i]
        v == Value(received[i].variable)
        s == Codec!Sent(m.variable, build)
    IN
    /\ received[i].kind = "response"
    /\ received[i].authorization = (IF m.authorization = Null THEN <<>> ELSE m.authorization)
    /\ [v EXCEPT !.errorStruct = s.errorStruct, !.structValue = s.structValue] = s
    /\ DOMAIN s.structValue \subseteq DOMAIN v.structValue
    /\ Restrict(v.structValue, DOMAIN s.structValue) = s.structValue

\* Decoding in place looks for the type byte in a binary value.
Misread(v) == build.inPlace /\ v.type = "tBinary" /\ Len(v.binaryValue) > 3 /\ v.binaryValue[4] = 255

\* A response is received as an error exactly if it was sent as one, or looks
\* like one; and whoever handles an error finds a code and a text in it.
ErrorsArrive ==
  \A i \in DOMAIN received : messages[i].kind = "response" =>
    LET v == received[i].variable
        s == messages[i].variable
    IN
    /\ v.errorStruct <=> (s # Null /\ s.errorStruct) \/ Codec!Sent(s, build).errorStruct \/ Misread(v)
    /\ v.errorStruct => {Codec!FaultCode, Codec!FaultString} \subseteq DOMAIN v.structValue

\* A request whose header has no authorization is sent as one without header
\* (RpcEncoder.cpp:225): it arrives, and raises no exception.
NoHeader ==
  AtEnd \/ error # "none" =>
    \A i \in DOMAIN messages :
      messages[i].kind = "request" /\ messages[i].authorization = <<>> =>
        i \in DOMAIN received /\ received[i].methodName = messages[i].methodName
=============================================================================
