------------------------------ MODULE RpcCodec ------------------------------
(***************************************************************************)
(* The packets of the binary RPC protocol: RpcEncoder and BinaryEncoder    *)
(* write them, RpcDecoder and BinaryDecoder read them (src/src/Rpc*.cpp,   *)
(* src/src/Binary*coder.cpp).  A build b says for which type of bytes the  *)
(* functions are: "char" or "uint8_t"; whether char is signed, as it is on *)
(* x86 but not on ARM; and _forceInteger64.                                *)
(*                                                                         *)
(* Recursion is written as recursive functions: over the variables there   *)
(* are in the encoder, over depths and counts in the decoder.              *)
(***************************************************************************)
EXTENDS Variable, SequencesExt

INSTANCE RpcPacket

CONSTANTS
  MantissaBits,   \* 30: a mantissa of 1 is 0x40000000
  ShiftBits,      \* 32: bits of the int that 1 << exponent shifts
  MaxParameters,  \* 100
  RoundDigits(_), \* what the rounding to 9 digits makes of a double
  Levels          \* the variables that are encoded, as a sequence of sets: the elements
                  \* of a variable are in sets before its own

Variables == UNION ToSet(Levels)
Pointers  == Variables \cup {Null}

authorizationName == <<207>>       \* "authorization"

\* The codes of VariableType: any different numbers of 4 digits.
Types == <<"tVoid", "tInteger", "tBoolean", "tString", "tFloat", "tArray",
           "tStruct", "tBase64", "tBinary", "tInteger64", "tVariant">>
TypeCode == [i \in ToSet(Types) |-> CHOOSE c \in DOMAIN Types : Types[c] = i]

-----------------------------------------------------------------------------
(* BinaryEncoder: what each function appends *)

encodeInteger64(i) == encodeInteger(i \div Range32) \o encodeInteger(i)
encodeBinary(b)    == encodeInteger(Len(b)) \o b
encodeBoolean(b)   == <<IF b THEN 1 ELSE 0>>

\* The binary digits of n.
BitLength(n) == CHOOSE l \in 0 .. n : n < PowerOf2[l] /\ (l # 0 => PowerOf2[l - 1] <= n)

\* The mantissa is in [0.5, 1); all doubles here have at most MantissaBits bits,
\* so that lround leaves it alone.
encodeFloat(f) ==
  LET bits == BitLength(IF f[1] < 0 THEN -f[1] ELSE f[1]) IN
  IF f = <<0, 0>> THEN encodeInteger(0) \o encodeInteger(0)
  ELSE encodeInteger(f[1] * PowerOf2[MantissaBits - bits]) \o encodeInteger(f[2] + bits)

-----------------------------------------------------------------------------
(* RpcEncoder *)

\* The order of std::map.
Before(a, b) ==
  \E n \in 0 .. Len(a) : /\ \A i \in 1 .. n : i <= Len(b) /\ a[i] = b[i]
                         /\ n < Len(b) /\ (n = Len(a) \/ a[n + 1] < b[n + 1])

\* The names of a struct in that order.
Names(s) ==
  CHOOSE names \in [1 .. Cardinality(DOMAIN s) -> DOMAIN s] :
    \A i, j \in DOMAIN names : i < j => Before(names[i], names[j])

encodeType(t) == encodeInteger(TypeCode[t])

\* Lines 260-264.  The number stays in the variable (RpcReencoding).
forced(v) == IF v.integerValue64 = 0 THEN v.integerValue ELSE v.integerValue64

\* Mutant of elementName: an empty name stays empty.
rawName(name) == name

\* Lines 316 and 327.
elementName(name) == IF name = <<>> THEN Undefined ELSE name

\* Lines 309-343; encode encodes the elements.
encodeStruct(s, encode) ==
  LET names == Names(s)
      Element(n) == encodeString(elementName(n)) \o encode[s[n]]
  IN encodeType("tStruct") \o encodeInteger(Len(names))
       \o FlattenSeq([i \in DOMAIN names |-> Element(names[i])])

encodeArray(a, encode) ==
  encodeType("tArray") \o encodeInteger(Len(a)) \o FlattenSeq([i \in DOMAIN a |-> encode[a[i]]])

encodeValue(v, b, encode) ==
  LET t == v.type
  IN CASE t = "tVoid" -> encodeType(t)
       [] t = "tInteger" /\ b.forceInteger64 -> encodeType("tInteger64") \o encodeInteger64(forced(v))
       [] t = "tInteger" /\ ~b.forceInteger64 -> encodeType(t) \o encodeInteger(v.integerValue)
       [] t = "tInteger64" -> encodeType(t) \o encodeInteger64(v.integerValue64)
       [] t = "tFloat" -> encodeType(t) \o encodeFloat(v.floatValue)
       [] t = "tBoolean" -> encodeType(t) \o encodeBoolean(v.booleanValue)
       [] t \in {"tString", "tBase64"} -> encodeType(t) \o encodeString(v.stringValue)
       [] t = "tBinary" -> encodeType(t) \o encodeBinary(v.binaryValue)
       [] t = "tStruct" -> encodeStruct(v.structValue, encode)
       [] t = "tArray" -> encodeArray(v.arrayValue, encode)
       [] OTHER -> <<>>

pointedTo(pointer) == IF pointer = Null THEN Void ELSE pointer

encodeVariable(pointer, b) ==
  LET encode[p \in Pointers] == encodeValue(pointedTo(p), b, encode) IN encode[pointer]

\* What a request has between its size and its end (lines 82-90).
requestBody(methodName, parameters, b) ==
  LET values == IF parameters = Null THEN <<>> ELSE parameters
  IN encodeString(methodName) \o encodeInteger(Len(values))
       \o FlattenSeq([i \in DOMAIN values |-> encodeVariable(values[i], b)])

-----------------------------------------------------------------------------
(* BinaryDecoder: the value, and the position behind it.  A value that is  *)
(* cut off is 0 or empty.                                                  *)

At(value, position) == [value |-> value, position |-> position]

FromBigEndian(b) == ((b[1] * Radix + b[2]) * Radix + b[3]) * Radix + b[4]

Decode(packet, position, n, Value(_), default) ==
  IF position + n > Len(packet) THEN At(default, position)
  ELSE At(Value(SubSeq(packet, position + 1, position + n)), position + n)

decodeInteger(packet, position) ==
  Decode(packet, position, 4, LAMBDA b : Signed(FromBigEndian(b), Range32), 0)

\* What the code assigns to a uint32_t.
decodeUnsigned(packet, position) ==
  LET i == decodeInteger(packet, position) IN At(i.value % Range32, i.position)

decodeInteger64(packet, position) ==
  Decode(packet, position, 8,
         LAMBDA b : Signed(FromBigEndian(b) * Range32 + FromBigEndian(SubSeq(b, 5, 8)), Range64), 0)

decodeBoolean(packet, position) ==
  Decode(packet, position, 1, LAMBDA b : b[1] # 0, FALSE)

\* Strings and binary data alike.
decodeString(packet, position) ==
  LET length == decodeInteger(packet, position) IN
  Decode(packet, length.position, length.value, LAMBDA b : b, <<>>)

\* Lines 144-181.  The overloads scale by 2^exponent with std::pow and with
\* 1 << exponent; the latter is undefined from ShiftBits - 1 on, where x86 and
\* AArch64 take the count modulo ShiftBits and the highest bit is the sign.
scale(exponent, b) ==
  LET e == IF exponent < 0 THEN -exponent ELSE exponent
      s == e % ShiftBits
  IN IF b.bytes = "char" THEN <<1, exponent>>
     ELSE <<IF s = ShiftBits - 1 THEN -1 ELSE 1, IF exponent < 0 THEN -s ELSE s>>

decodeFloat(packet, position, b) ==
  LET mantissa == decodeInteger(packet, position)
      exponent == decodeInteger(packet, position + 4)
      factor   == scale(exponent.value, b)
      value    == FloatOf(mantissa.value * factor[1], factor[2] - MantissaBits)
  IN IF position + 8 > Len(packet) THEN At(<<0, 0>>, position)
     ELSE At(IF value = <<0, 0>> THEN value ELSE RoundDigits(value), position + 8)

-----------------------------------------------------------------------------
(* RpcDecoder *)

decodeType(packet, position) ==
  LET code == decodeInteger(packet, position) IN At(Types[code.value], code.position)

\* Mutant of isFault: any struct with a fault code is an error.
isFaultCode(s) == FaultCode \in DOMAIN s

\* Lines 184 and 227.
isFault(s) == DOMAIN s = {FaultCode, FaultString}

\* The next n variables; parameter[p] is the one at position p.
decodeElements(position, n, parameter) ==
  LET read[i \in 0 .. n] ==
        IF i = 0 THEN At(<<>>, position)
        ELSE LET array   == read[i - 1]
                 element == parameter[array.position]
             IN At(Append(array.value, element.value), element.position)
  IN read[n]

\* Lines 274-290.
decodeArray(packet, position, parameter) ==
  LET length == decodeUnsigned(packet, position)
  IN decodeElements(length.position, length.value, parameter)

\* map::insert and emplace leave an element alone that is there already.
mapInsert(s, name, v) ==
  [n \in DOMAIN s \cup {name} |-> IF n \in DOMAIN s THEN s[n] ELSE v]

\* Lines 292-310.
decodeStruct(packet, position, parameter) ==
  LET length == decodeUnsigned(packet, position)
      read[i \in 0 .. length.value] ==
        IF i = 0 THEN At(NoStruct, length.position)
        ELSE LET struct  == read[i - 1]
                 name    == decodeString(packet, struct.position)
                 element == parameter[name.position]
             IN At(mapInsert(struct.value, name.value, element.value), element.position)
  IN read[length.value]

\* The values of decodeInteger and their like as members of a new variable.
decodeVariable(packet, position, b, parameter) ==
  LET type == decodeType(packet, position)
      t    == type.value
      p    == type.position
      Read(decoded, Make(_)) == At(Make(decoded.value), decoded.position)
      FaultOrNot(s) == [Struct(s) EXCEPT !.errorStruct = isFault(s)]
  IN CASE t \in {"tString", "tBase64"} ->
            Read(decodeString(packet, p), LAMBDA s : WithString(OfType(t), s))
       [] t = "tInteger"   -> Read(decodeInteger(packet, p), Integer)
       [] t = "tInteger64" -> Read(decodeInteger64(packet, p), Integer64)
       [] t = "tFloat"     -> Read(decodeFloat(packet, p, b), Float)
       [] t = "tBoolean"   -> Read(decodeBoolean(packet, p), Boolean)
       [] t = "tBinary"    -> Read(decodeString(packet, p), Binary)
       [] t = "tArray"     -> Read(decodeArray(packet, p, parameter), Array)
       [] t = "tStruct"    -> Read(decodeStruct(packet, p, parameter), FaultOrNot)
       [] OTHER            -> At(OfType(t), p)

\* The variables at all positions.  What is in a variable is behind its type and
\* its length, so that they are nested no deeper than the packet is long.
decodedAt(packet, b) ==
  LET parameter[depth \in 0 .. Len(packet)] ==
        [p \in Nat |-> IF depth = 0 THEN At(Void, p)
                       ELSE decodeVariable(packet, p, b, parameter[depth - 1])]
  IN parameter[Len(packet)]

decodeParameter(packet, position, b) == decodedAt(packet, b)[position]

\* Lines 40-72: the authorization, empty if there is none.
toLower(name) == IF name = AuthorizationName THEN authorizationName ELSE name

decodeFields(packet, position, n) ==
  LET read[i \in 0 .. n] ==
        IF i = 0 THEN At(<<>>, position)
        ELSE LET header == read[i - 1]
                 field  == decodeString(packet, header.position)
                 value  == decodeString(packet, field.position)
                 known  == toLower(field.value) = authorizationName
             IN At(IF known THEN value.value ELSE header.value, value.position)
  IN read[n].value

decodeHeader(packet) ==
  LET size  == decodeUnsigned(packet, 4)
      count == decodeUnsigned(packet, size.position)
  IN IF ~(Len(packet) < 12 \/ packet[4] \in Flagged) \/ size.value < 4 THEN <<>>
     ELSE decodeFields(packet, count.position, count.value)

\* How many bytes a header adds.
headerSize(packet) == IF packet[4] \in Flagged THEN decodeInteger(packet, 4).value + 4 ELSE 0

\* Mutant of parameterLimit: one parameter less.
parameterLimitLow(n) == n >= MaxParameters

\* Lines 82 and 97.
parameterLimit(n) == n > MaxParameters

\* Lines 74-102.
decodeRequest(packet, b) ==
  LET method == decodeString(packet, 8 + headerSize(packet))
      count  == decodeUnsigned(packet, method.position)
  IN [methodName |-> method.value,
      parameters |-> IF parameterLimit(count.value) THEN <<>>
                     ELSE decodeElements(count.position, count.value, decodedAt(packet, b)).value]

\* Lines 109 and 121: a signed char is never 0xFF.
isErrorByte(byte, b) == byte = Error /\ ~(b.bytes = "char" /\ b.signedChar)

WithFaults(v) ==
  [v EXCEPT !.errorStruct = TRUE,
            !.structValue = mapInsert(mapInsert(@, FaultCode, Integer(-1)),
                                      FaultString, String(undefined))]

\* Lines 104-126.
decodeResponse(packet, offset, b) ==
  LET v == decodeParameter(packet, offset + 8, b).value
  IN IF isErrorByte(packet[4], b) THEN WithFaults(v) ELSE v

\* Lines 130-131: by now binaryValue may be the value instead of the packet.
typeByteOf(packet, v) == IF Len(v.binaryValue) < 4 THEN Response ELSE v.binaryValue[4]

\* Lines 128-137 and 233-272: the packet is binaryValue of the variable that is
\* to become the response.
decodeInPlace(packet, offset, b) ==
  LET d == decodeParameter(packet, offset + 8, b).value
      v == IF d.type = "tBinary" THEN d ELSE [d EXCEPT !.binaryValue = packet]
  IN IF typeByteOf(packet, v) = Error THEN WithFaults(v) ELSE v

-----------------------------------------------------------------------------
(* Properties *)

\* What becomes of a value that is sent: null pointers are void, integers of
\* 32 bits may become ones of 64 bits, an element without a name gets one and
\* hides an element of that name, and the members that do not belong to the
\* type are those that the constructors set.
SentValue(v, b, sent) ==
  LET s == v.structValue
      names == {IF n = <<>> THEN Undefined ELSE n : n \in DOMAIN s}
      From(n) == IF n = Undefined /\ <<>> \in DOMAIN s THEN <<>> ELSE n
      elements == [n \in names |-> sent[s[From(n)]]]
      wide == IF v.integerValue64 = 0 THEN v.integerValue ELSE v.integerValue64
  IN CASE v.type \in {"tString", "tBase64"} -> WithString(OfType(v.type), v.stringValue)
       [] v.type = "tInteger" /\ b.forceInteger64  -> Integer64(wide)
       [] v.type = "tInteger" /\ ~b.forceInteger64 -> Integer(v.integerValue)
       [] v.type = "tInteger64" -> Integer64(v.integerValue64)
       [] v.type = "tFloat"     -> Float(v.floatValue)
       [] v.type = "tBoolean"   -> Boolean(v.booleanValue)
       [] v.type = "tBinary"    -> Binary(v.binaryValue)
       [] v.type = "tArray"     -> Array([i \in DOMAIN v.arrayValue |-> sent[v.arrayValue[i]]])
       [] v.type = "tStruct"    ->
            [Struct(elements) EXCEPT !.errorStruct = DOMAIN s = {FaultCode, FaultString}]
       [] OTHER -> Void

Sent(pointer, b) ==
  LET sent[p \in Pointers] == SentValue(pointedTo(p), b, sent) IN sent[pointer]

\* Which variables arrive: numbers and sizes are in the range of their types.
IsSigned(i, range)  == i \in Int /\ Signed(i, range) = i
SendableString(s)   == s \in Seq(Nat) /\ IsSigned(Len(s), Range32)

\* The mantissa is not rounded, not even to 9 digits, and the exponent is not
\* too large for scale.
SendableFloat(f, b) ==
  LET bits     == BitLength(IF f[1] < 0 THEN -f[1] ELSE f[1])
      exponent == f[2] + bits
  IN \/ f = <<0, 0>>
     \/ /\ f \in Int \X Int /\ f[1] % 2 = 1 /\ bits <= MantissaBits
        /\ IsSigned(exponent, Range32)
        /\ b.bytes = "char" \/ exponent \in 2 - ShiftBits .. ShiftBits - 2
        /\ RoundDigits(f) = f

SendableStruct(s, elements) ==
  /\ IsFiniteSet(DOMAIN s) /\ Cardinality(DOMAIN s) < Range32
  /\ s \in [DOMAIN s -> elements]
  /\ \A name \in DOMAIN s : SendableString(name)

SendableVariable(v, b, elements) ==
  /\ v.type \in ToSet(Types) \ {"tVariant"} /\ v.errorStruct \in BOOLEAN
  /\ v.type = "tInteger"   => IsSigned(v.integerValue, Range32)
  /\ v.type \in {"tInteger", "tInteger64"} => IsSigned(v.integerValue64, Range64)
  /\ v.type = "tFloat"     => SendableFloat(v.floatValue, b)
  /\ v.type = "tBoolean"   => v.booleanValue \in BOOLEAN
  /\ v.type \in {"tString", "tBase64"} => SendableString(v.stringValue)
  /\ v.type = "tBinary"    => SendableString(v.binaryValue)
  /\ v.type = "tArray"     => v.arrayValue \in Seq(elements) /\ Len(v.arrayValue) < Range32
  /\ v.type = "tStruct"    => SendableStruct(v.structValue, elements)

\* What may be an element of the variables of Levels[level].
Below(level) == (UNION {Levels[l] : l \in 1 .. level - 1}) \cup {Null}

AllSendableTo(b) ==
  \A level \in DOMAIN Levels : \A v \in Levels[level] : SendableVariable(v, b, Below(level))

\* A type and the sign fit an integer, and so does a mantissa of MantissaBits bits.
CodecConstants ==
  /\ Levels \in Seq(SUBSET Variables) /\ Radix \in Nat /\ Radix > 2
  /\ {MantissaBits, ShiftBits, MaxParameters} \subseteq Nat \ {0}
  /\ 2 * PowerOf2[MantissaBits] <= Range32
=============================================================================
