----------------------------- MODULE JsonChannel -----------------------------
(***************************************************************************)
(* One side turns values into JSON, the other reads them.  A "stream"      *)
(* reader gets the text in pieces, calls decode(json, bytesRead) on what   *)
(* it has, drops the bytes read and waits for more after an exception.  A  *)
(* "setting" reader has the whole text and calls the constructor of        *)
(* Variable for typed JSON.  A "typed" reader gets a text that somebody    *)
(* typed and calls decode(json).                                           *)
(***************************************************************************)
EXTENDS JsonCodec

CONSTANTS
  Conversations,  \* sequences of values that may be sent
  TypedTexts      \* texts that may be typed

ASSUME JsonChannelAssumption ==
  {DecimalPlaces, SignificantDigits, MaxExponent} \subseteq Nat \ {0} /\ Radix > 1

VARIABLES
  overload,  \* of the encoder: "string" or "vector"
  reader,
  sent,      \* the values sent, or the text typed
  wire,      \* the text that has not arrived
  text,      \* the text that has arrived and has not been read
  received   \* the values read

vars == <<overload, reader, sent, wire, text, received>>

\* A value that cannot be encoded raises an exception and is not sent.
Sendable(values) == SelectSeq(values, LAMBDA v : v # Null /\ encodableValue(v))

EncodedText(values) == FlattenSeq([i \in DOMAIN values |-> encode(values[i], overload)])

Init ==
  /\ overload \in {"string", "vector"} /\ received = <<>>
  /\ \/ /\ reader = "stream" /\ text = <<>>
        /\ sent \in {Sendable(c) : c \in Conversations}
        /\ wire = EncodedText(sent)
     \/ /\ reader = "setting" /\ wire = <<>>
        /\ sent \in {Sendable(c) : c \in {d \in Conversations : Len(d) = 1}}
        /\ text = EncodedText(sent)
     \/ /\ reader = "typed" /\ wire = <<>> /\ overload = "string"
        /\ sent \in {<<t>> : t \in TypedTexts}
        /\ text = sent[1]

Arrive ==
  \E n \in 1 .. Len(wire) :
    /\ text' = text \o SubSeq(wire, 1, n)
    /\ wire' = SubSeq(wire, n + 1, Len(wire))
    /\ UNCHANGED <<overload, reader, sent, received>>

\* The client has decoded a value and drops the text before the rest.
Take(result, value, rest) ==
  /\ text # <<>>
  /\ result.state = "ok"
  /\ received' = Append(received, value)
  /\ text' = rest
  /\ UNCHANGED <<overload, reader, sent, wire>>

TakeNext(result)   == Take(result, result.value, SubSeq(text, result.pos, Len(text)))
TakeText(result)   == Take(result, result.value, <<>>)
TakeCopied(result) == Take(result, assigned(Void, result.value), <<>>)

ReadNext == reader = "stream" /\ TakeNext(decodeNext(text))

\* Variable("array", text) and Variable("struct", text).
Construct == reader = "setting" /\ TakeCopied(decode(text))

ReadTyped == reader = "typed" /\ TakeText(decode(text))

Next == Arrive \/ ReadNext \/ Construct \/ ReadTyped

Spec == Init /\ [][Next]_vars

-----------------------------------------------------------------------------
(* Properties *)

\* A string as it arrives: bytes that are no UTF-8 are taken for ANSI, and a
\* zero byte is lost.
Cleaned(s) ==
  LET Char(c) == CASE c = <<0>> -> <<>>
                   [] Len(c) = 1 /\ c[1] > 127 ->
                        IF Ansi[c[1] - 127] = 0 THEN <<>> ELSE Utf8(Ansi[c[1] - 127])
                   [] OTHER -> c
  IN FlattenSeq([i \in DOMAIN Characters(s) |-> Char(Characters(s)[i])])

\* |f - g| <= 10^e.
Within(f, g, e) ==
  LET least == Min({f[2], g[2], e})
  IN Abs(f[1] * 10^(f[2] - least) - g[1] * 10^(g[2] - least)) <= 10^(e - least)

\* The power of ten of the first digit of a double, and the double with the
\* digits that toString prints at most.
Power(f)   == f[2] + Len(DigitsOf(Abs(f[1]))) - 1
Printed(f) == LET places == SignificantDigits - 1 - Power(f) IN Decimal(RoundedTo(f, places), -places)

\* toString prints one digit and an exponent.
OneDigit(f) == LET p == Printed(f) IN
  overload = "vector" /\ Abs(p[1]) < 10 /\ (p[2] >= SignificantDigits \/ p[2] < -4)

\* A double loses the digits that are not printed and may become an integer.
SameDouble(f, r) ==
  /\ r.type = "tFloat" \/ (overload = "vector" /\ r.type \in {"tInteger", "tInteger64"})
  /\ Within(f, r.floatValue, IF overload = "string" THEN -DecimalPlaces
                             ELSE Power(f) + 2 - SignificantDigits)

\* An integer takes the type that its size suggests.
SameInteger(i, r) ==
  IF Abs(i) >= 10 * Limit THEN r.type = "tFloat" /\ r.floatValue = Decimal(i, 0)
  ELSE /\ r.integerValue64 = i
       /\ r.type = IF i = Signed(i, Range32) THEN "tInteger" ELSE "tInteger64"

\* r is what becomes of v.  Of several members whose names become the same the
\* first one arrives.
RECURSIVE Same(_, _)
Same(v, r) ==
  LET names   == Names(v.structValue)
      arrived == [i \in DOMAIN names |-> Cleaned(names[i])]
      IsFirst(i) == \A j \in 1 .. i - 1 : arrived[j] # arrived[i]
  IN CASE v.type = "tArray" ->
            /\ r.type = "tArray" /\ Len(r.arrayValue) = Len(v.arrayValue)
            /\ \A i \in DOMAIN v.arrayValue : Same(v.arrayValue[i], r.arrayValue[i])
       [] v.type = "tStruct" ->
            /\ r.type = "tStruct" /\ DOMAIN r.structValue = ToSet(arrived)
            /\ \A i \in DOMAIN names :
                 IsFirst(i) => Same(v.structValue[names[i]], r.structValue[arrived[i]])
       [] v.type \in {"tString", "tBase64"} -> r.type = "tString" /\ r.stringValue = Cleaned(v.stringValue)
       [] v.type = "tBoolean"   -> r.type = "tBoolean" /\ r.booleanValue = v.booleanValue
       [] v.type = "tInteger"   -> SameInteger(v.integerValue, r)
       [] v.type = "tInteger64" -> SameInteger(v.integerValue64, r)
       [] v.type = "tFloat"     -> SameDouble(v.floatValue, r)
       [] OTHER -> r.type = "tVoid"

Wrapped(v) == IF v.type \in {"tArray", "tStruct"} THEN v ELSE Array(<<v>>)

Below(v) == ToSet(v.arrayValue) \cup {v.structValue[n] : n \in DOMAIN v.structValue}

\* What must be escaped within quotation marks.
MustBeEscaped == {Quote, Backslash} \cup 0 .. 31

\* The first names in a value can be written as they are.
RECURSIVE PlainNames(_)
PlainNames(v) ==
  /\ v.structValue # NoStruct =>
       LET name == Names(v.structValue)[1]
       IN Cleaned(name) = name /\ ToSet(name) \cap MustBeEscaped = {}
  /\ \A c \in Below(v) : PlainNames(c)

\* The doubles in a value keep their exponents.
RECURSIVE KeepsExponents(_)
KeepsExponents(v) ==
  /\ v.type = "tFloat" => ~OneDigit(v.floatValue)
  /\ \A c \in Below(v) : KeepsExponents(c)

Encoded == reader # "typed"

\* However the text is cut into pieces, values are read in the order in which
\* they were sent, never from a part of their text, and as what was sent.  That is
\* not said of values whose first names are not plain, nor of what follows them
\* (JsonEncoder.cpp:155, 173), nor of a double that toString writes as a digit and
\* an exponent, which the decoder does not use (JsonDecoder.cpp:939).
ValuesArrive ==
  Encoded =>
    \A i \in DOMAIN received : (\A j \in 1 .. i : j \in DOMAIN sent => PlainNames(sent[j])) =>
      /\ i \in DOMAIN sent
      /\ KeepsExponents(sent[i]) => Same(Wrapped(sent[i]), received[i])

\* What must be escaped is escaped (JsonEncoder.cpp:313-314), so that a struct
\* arrives with the names that it has.
NamesArrive ==
  Encoded =>
    \A i \in DOMAIN received :
      i \in DOMAIN sent /\ DOMAIN received[i].structValue = DOMAIN sent[i].structValue

\* All that has arrived can be read to its end: no value that was sent makes
\* the decoder throw, or leaves text that is not the start of the next value.
AllReadable ==
  Encoded /\ wire = <<>> /\ (\A i \in DOMAIN sent : PlainNames(sent[i])) =>
    IF text = <<>> THEN Len(received) = Len(sent) ELSE decodeNext(text).state = "ok"

=============================================================================
