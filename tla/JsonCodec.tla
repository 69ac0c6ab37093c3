------------------------------ MODULE JsonCodec ------------------------------
(***************************************************************************)
(* The JSON texts that JsonEncoder writes and JsonDecoder reads            *)
(* (src/src/JsonEncoder.cpp, src/src/JsonDecoder.cpp, as built with        *)
(* __GNUC__ > 4), and the use that Variable makes of them.  Each function  *)
(* exists for std::string (or a stream) and for std::vector<char>; they    *)
(* differ in how the encoder prints a double.                              *)
(*                                                                         *)
(* A text is a sequence of bytes; where the code counts positions from 0,  *)
(* the first one here is 1.  A double is the decimal number n * 10^e, as   *)
(* <<n, e>> with n not a multiple of 10, or <<0, 0>>: doubles hold all     *)
(* numbers of up to 15 digits.                                             *)
(***************************************************************************)
EXTENDS Variable, SequencesExt

CONSTANTS
  DecimalPlaces,      \* of a double in a stream, 15 in the code
  SignificantDigits,  \* of a double printed by toString, 6 in the code
  MaxExponent         \* 308 in the code

Quote        == 34
Plus         == 43
Comma        == 44
Minus        == 45
Point        == 46
Colon        == 58
OpenBracket  == 91
Backslash    == 92
CloseBracket == 93
LetterE      == 101
LetterU      == 117
OpenBrace    == 123
CloseBrace   == 125
Whitespace   == {9, 10, 13, 32}

null  == <<110, 117, 108, 108>>
true  == <<116, 114, 117, 101>>
false == <<102, 97, 108, 115, 101>>

-----------------------------------------------------------------------------
(* Decimal numbers *)

RECURSIVE Decimal(_, _)
Decimal(n, e) == IF n = 0 THEN <<0, 0>>
                 ELSE IF n % 10 = 0 THEN Decimal(n \div 10, e + 1) ELSE <<n, e>>

Abs(n)  == IF n < 0 THEN -n ELSE n
Sign(n) == IF n < 0 THEN -1 ELSE 1

RECURSIVE DigitsOf(_)
DigitsOf(n) == IF n < 10 THEN <<48 + n>> ELSE Append(DigitsOf(n \div 10), 48 + (n % 10))

ValueOf(digits) == FoldLeft(LAMBDA n, d : 10 * n + d - 48, 0, digits)

Repeat(c, n) == [i \in 1 .. Max({0, n}) |-> c]

\* f as a multiple of 10^-places; a half is rounded up, as by floor(x + 0.5).
RoundedTo(f, places) ==
  LET e == f[2] + places IN
  IF e >= 0 THEN f[1] * 10^e ELSE (2 * f[1] + 10^(-e)) \div (2 * 10^(-e))

\* std::llround: a half is rounded away from zero; what a number too large
\* becomes is up to the processor.
llround(f) ==
  LET n == Sign(f[1]) * RoundedTo(<<Abs(f[1]), f[2]>>, 0)
  IN IF Abs(n) < Range64 \div 2 THEN n ELSE -(Range64 \div 2)

-----------------------------------------------------------------------------
(* JsonEncoder: numbers *)

\* std::to_string.
IntegerText(i) == (IF i < 0 THEN <<Minus>> ELSE <<>>) \o DigitsOf(Abs(i))

\* The number n * 10^-places, with all its places.
FixedText(n, places) ==
  LET digits == DigitsOf(n)
      all    == Repeat(48, places + 1 - Len(digits)) \o digits
      whole  == Len(all) - places
  IN SubSeq(all, 1, whole) \o (IF places = 0 THEN <<>> ELSE <<Point>> \o SubSeq(all, whole + 1, Len(all)))

\* operator<< without flags: SignificantDigits digits at most, with an exponent
\* if the number is large or small, and no zeros behind the point.
Shortest(f) ==
  LET excess   == Len(DigitsOf(Abs(f[1]))) - SignificantDigits
      rounded  == IF excess <= 0 THEN <<Abs(f[1]), f[2]>>
                  ELSE Decimal(RoundedTo(<<Abs(f[1]), 0>>, -excess), f[2] + excess)
      digits   == DigitsOf(rounded[1])
      exponent == rounded[2] + Len(digits) - 1
      power    == DigitsOf(Abs(exponent))
  IN (IF f[1] < 0 THEN <<Minus>> ELSE <<>>) \o
     (IF exponent < -4 \/ exponent >= SignificantDigits
      THEN FixedText(rounded[1], Len(digits) - 1)
             \o <<LetterE, IF exponent < 0 THEN Minus ELSE Plus>>
             \o Repeat(48, 2 - Len(power)) \o power
      ELSE IF rounded[2] >= 0 THEN digits \o Repeat(48, rounded[2])
      ELSE FixedText(rounded[1], -rounded[2]))

\* JsonEncoder::toString.  A number that ends in three equal characters behind
\* the point is rounded to one place less.
toString(f) ==
  LET text   == Shortest(f)
      places == Len(text) - SelectInSeq(text, LAMBDA c : c = Point)
      Last3  == {text[Len(text) - i] : i \in 0 .. 2}
  IN IF Contains(text, Point) /\ places > 3 /\ Cardinality(Last3) = 1
     THEN Shortest(Decimal(RoundedTo(f, places - 1), 1 - places))
     ELSE text

\* Mutant of encodeFloat: both overloads print a double as toString does.
encodeFloatShort(f, overload) == toString(f)

encodeFloat(f, overload) ==
  IF overload = "vector" THEN toString(f)
  ELSE (IF f[1] < 0 THEN <<Minus>> ELSE <<>>)
         \o FixedText(RoundedTo(<<Abs(f[1]), f[2]>>, DecimalPlaces), DecimalPlaces)

-----------------------------------------------------------------------------
(* JsonEncoder: strings *)

\* Bytes of the UTF-8 character that starts with b, 0 if none does.
SizeOf(b) == CASE b < 128 -> 1       [] b \in 192 .. 223 -> 2 [] b \in 224 .. 239 -> 3
               [] b \in 240 .. 247 -> 4 [] OTHER -> 0

StartsWhole(s) ==
  SizeOf(s[1]) \in 1 .. Len(s) /\ \A i \in 2 .. SizeOf(s[1]) : s[i] \in 128 .. 191

\* s cut into UTF-8 characters and single bytes that are none.
RECURSIVE Characters(_)
Characters(s) ==
  LET n == IF StartsWhole(s) THEN SizeOf(s[1]) ELSE 1
  IN IF s = <<>> THEN <<>> ELSE <<SubSeq(s, 1, n)>> \o Characters(SubSeq(s, n + 1, Len(s)))

CodePoint(c) == FoldLeft(LAMBDA p, b : 64 * p + (b % 64), c[1] % 2^(7 - Len(c)), Tail(c))

\* Ansi::toUtf8 of the bytes from 128 on, as code points; 0 is nothing at all.
Ansi ==
  <<8364, 0, 8218, 402, 8222, 8230, 8224, 8225, 710, 8240, 352, 8249, 338, 0, 381, 0,
    0, 8216, 8217, 8220, 8221, 8226, 8211, 8212, 732, 8482, 353, 8250, 339, 0, 382, 376>>
  \o [i \in 1 .. 96 |-> 159 + i]

\* from_bytes: characters have their shortest form and are in Unicode.  One that
\* is cut into bytes well but is not valid ends the fallback as well.
encodable(s) ==
  \A i \in DOMAIN Characters(s) :
    LET c == Characters(s)[i] IN
    Len(c) > 1 => CodePoint(c) \in <<0, 128, 2048, 65536>>[Len(c)] .. 1114111

\* UTF-16 units of a character; a byte that is none is taken for ANSI.
Units(c) ==
  LET p == CASE Len(c) > 1 -> CodePoint(c) [] c[1] < 128 -> c[1] [] OTHER -> Ansi[c[1] - 127]
  IN CASE c[1] > 127 /\ p = 0 -> <<>>
       [] p > 65535 -> <<55296 + (p - 65536) \div 1024, 56320 + (p % 1024)>>
       [] OTHER     -> <<p>>

\* Characters with an escape sequence of their own; the control characters with a letter.
Letters == 8 :> 98 @@ 9 :> 116 @@ 10 :> 110 @@ 12 :> 102 @@ 13 :> 114
ShortEscapes == Letters @@ Quote :> Quote @@ Backslash :> Backslash

Hex(d) == IF d < 10 THEN 48 + d ELSE 55 + d

\* Mutant of Escaped: the reverse solidus is written as it is.
EscapedQuote(u) ==
  IF u \in DOMAIN ShortEscapes \ {Backslash} THEN <<Backslash, ShortEscapes[u]>>
  ELSE IF u \in 32 .. 127 THEN <<u>>
  ELSE <<Backslash, LetterU>> \o [i \in 1 .. 4 |-> Hex((u \div 16^(4 - i)) % 16)]

Escaped(u) ==
  IF u \in DOMAIN ShortEscapes THEN <<Backslash, ShortEscapes[u]>>
  ELSE IF u \in 32 .. 127 THEN <<u>>
  ELSE <<Backslash, LetterU>> \o [i \in 1 .. 4 |-> Hex((u \div 16^(4 - i)) % 16)]

\* The overload that returns the string without the quotation marks.
encodeString(s) ==
  LET units == FlattenSeq([i \in DOMAIN Characters(s) |-> Units(Characters(s)[i])])
  IN FlattenSeq([i \in DOMAIN units |-> Escaped(units[i])])

-----------------------------------------------------------------------------
(* JsonEncoder: values.  No pointer below a variable is null. *)

\* The order of std::map.
Before(a, b) ==
  \E n \in 0 .. Len(a) : /\ Len(b) >= n /\ SubSeq(a, 1, n) = SubSeq(b, 1, n)
                         /\ Len(b) > n /\ (Len(a) = n \/ a[n + 1] < b[n + 1])
Names(s) == SetToSortSeq(DOMAIN s, Before)

Joined(texts) == FlattenSeq([i \in DOMAIN texts |-> IF i = 1 THEN texts[1] ELSE <<Comma>> \o texts[i]])

\* The first name is written as it is.
nameText(names, i) == IF i = 1 THEN names[1] ELSE encodeString(names[i])

RECURSIVE encodeValue(_, _)
encodeValue(v, overload) ==
  LET t        == v.type
      names    == Names(v.structValue)
      Name(i)  == <<Quote>> \o nameText(names, i) \o <<Quote, Colon>>
      elements == [i \in DOMAIN v.arrayValue |-> encodeValue(v.arrayValue[i], overload)]
      members  == [i \in DOMAIN names |-> Name(i) \o encodeValue(v.structValue[names[i]], overload)]
  IN CASE t = "tArray"     -> <<OpenBracket>> \o Joined(elements) \o <<CloseBracket>>
       [] t = "tStruct"    -> <<OpenBrace>> \o Joined(members) \o <<CloseBrace>>
       [] t = "tBoolean"   -> IF v.booleanValue THEN true ELSE false
       [] t = "tInteger"   -> IntegerText(v.integerValue)
       [] t = "tInteger64" -> IntegerText(v.integerValue64)
       [] t = "tFloat"     -> encodeFloat(v.floatValue, overload)
       [] t \in {"tString", "tBase64"} -> <<Quote>> \o encodeString(v.stringValue) \o <<Quote>>
       [] OTHER -> null

\* No string of a value ends the fallback; first names are not looked at.
RECURSIVE encodableValue(_)
encodableValue(v) ==
  LET names == Names(v.structValue) IN
  /\ v.type \in {"tString", "tBase64"} => encodable(v.stringValue)
  /\ v.type = "tArray" => \A i \in DOMAIN v.arrayValue : encodableValue(v.arrayValue[i])
  /\ v.type = "tStruct" => /\ \A i \in 2 .. Len(names) : encodable(names[i])
                          /\ \A n \in DOMAIN v.structValue : encodableValue(v.structValue[n])

\* getString and getVector.
encode(pointer, overload) ==
  CASE pointer = Null -> <<>>
    [] pointer # Null /\ pointer.type \in {"tArray", "tStruct"} -> encodeValue(pointer, overload)
    [] OTHER -> <<OpenBracket>> \o encodeValue(pointer, overload) \o <<CloseBracket>>

-----------------------------------------------------------------------------
(* JsonDecoder.  A function gives what it has decoded, the position behind it *)
(* and whether it returned true ("ok"), false ("no") or threw ("throws").     *)

Result(value, pos, state) == [value |-> value, pos |-> pos, state |-> state]
Exception == Result(Void, 0, "throws")

\* The first position from pos on whose character is not one of these.
After(json, pos, characters) ==
  IF pos > Len(json) THEN pos
  ELSE Min({p \in pos .. Len(json) + 1 : p > Len(json) \/ json[p] \notin characters})

skipWhitespace(json, pos) == After(json, pos, Whitespace)

At(json, pos, c) == pos <= Len(json) /\ json[pos] = c

\* Math::getNumber of two characters: those that are no hexadecimal digits end it.
HexValue(c) == CASE c \in Digits -> c - 48 [] c \in 65 .. 70 -> c - 55 [] c \in 97 .. 102 -> c - 87
                 [] OTHER -> -1
getNumber(c, d) == CASE HexValue(c) < 0 -> 0
                     [] HexValue(c) >= 0 /\ HexValue(d) < 0 -> HexValue(c)
                     [] OTHER -> 16 * HexValue(c) + HexValue(d)
Unit(json, pos) == 256 * getNumber(json[pos], json[pos + 1]) + getNumber(json[pos + 2], json[pos + 3])

HighSurrogates == 55296 .. 56319
LowSurrogates  == 56320 .. 57343

Utf8(p) ==
  CASE p < 128   -> <<p>>
    [] p \in 128 .. 2047    -> <<192 + p \div 64, 128 + (p % 64)>>
    [] p \in 2048 .. 65535  -> <<224 + p \div 4096, 128 + ((p \div 64) % 64), 128 + (p % 64)>>
    [] OTHER -> <<240 + p \div 262144, 128 + ((p \div 4096) % 64), 128 + ((p \div 64) % 64), 128 + (p % 64)>>

\* What follows a reverse solidus.
Unescaped(c) == IF \E u \in DOMAIN Letters : Letters[u] = c
                THEN CHOOSE u \in DOMAIN Letters : Letters[u] = c ELSE c

Surrogates(u, low) == 65536 + 1024 * (u - 55296) + low - 56320

\* decodeString from pos on, with s decoded before.  A quoted string has to end
\* with a quotation mark; the public overload reads to the end of the text.
RECURSIVE decodeString(_, _, _, _)

\* The escape sequence at pos is for the UTF-16 unit u.
decodeUnit(json, pos, u, s, quoted) ==
  IF u \in {0} \cup LowSurrogates THEN decodeString(json, pos + 6, s, quoted)
  ELSE IF u \notin HighSurrogates THEN decodeString(json, pos + 6, s \o Utf8(u), quoted)
  ELSE IF pos + 11 > Len(json) THEN IF quoted THEN Exception ELSE Result(s, pos, "ok")
  ELSE IF SubSeq(json, pos + 6, pos + 7) # <<Backslash, LetterU>> THEN Exception
  ELSE IF Unit(json, pos + 8) \notin LowSurrogates THEN Exception
  ELSE decodeString(json, pos + 12, s \o Utf8(Surrogates(u, Unit(json, pos + 8))), quoted)

decodeString(json, pos, s, quoted) ==
  LET end  == IF quoted THEN Exception ELSE Result(s, pos, "ok")
      c    == json[pos]
  IN IF pos > Len(json) THEN end
     ELSE IF c = Quote /\ quoted THEN Result(s, pos + 1, "ok")
     ELSE IF c # Backslash THEN decodeString(json, pos + 1, Append(s, c), quoted)
     ELSE IF pos = Len(json) THEN end
     ELSE IF json[pos + 1] # LetterU
          THEN decodeString(json, pos + 2, Append(s, Unescaped(json[pos + 1])), quoted)
     ELSE IF pos + 5 > Len(json) THEN end
     ELSE decodeUnit(json, pos, Unit(json, pos + 2), s, quoted)

Clamped(exponent) == Max({-MaxExponent, Min({MaxExponent, exponent})})

ReadFloat(f) == [OfType("tFloat") EXCEPT !.floatValue = f, !.integerValue64 = llround(f),
                                       !.integerValue = Signed(llround(f), Range32)]
WithFloat(n, exponent) == ReadFloat(Decimal(n, Clamped(exponent)))

WithInteger(n) ==
  [OfType(IF n = Signed(n, Range32) THEN "tInteger" ELSE "tInteger64")
   EXCEPT !.integerValue = Signed(n, Range32), !.integerValue64 = n, !.floatValue = Decimal(n, 0)]

\* A number whose digits but the last exceed this is read as a double.
Limit == (Range64 \div 2) \div 10

SkipSign(json, pos) == IF pos <= Len(json) /\ json[pos] \in {Plus, Minus} THEN pos + 1 ELSE pos

WholeEnd(json, start)  == IF At(json, start, 48) THEN start + 1 ELSE After(json, start, Digits)
PlacesEnd(json, start) == IF At(json, start, Point) THEN After(json, start + 1, Digits) ELSE start

\* The exponent at pos, which starts with a digit or is empty.
ExponentAt(json, pos, end, minus) ==
  Result((IF minus THEN -1 ELSE 1) * ValueOf(SubSeq(json, pos, end - 1)), end, "ok")

exponent2(json, pos) ==
  LET start == SkipSign(json, pos + 1) IN
  IF pos > Len(json) \/ json[pos] \notin {69, LetterE} THEN Result(0, pos, "ok")
  ELSE IF start > Len(json) THEN Result(0, start, "no")
  ELSE ExponentAt(json, start, After(json, start, Digits), json[pos + 1] = Minus)

\* The exponent of a number without a point is read and not used.
NumberOf(whole, places, point, exponent, sign) ==
  LET mantissa == ValueOf(whole \o places)
      isDouble == point \/ ValueOf(whole) \div 10 >= Limit
  IN IF exponent.state # "ok"
     THEN Result(IF isDouble THEN [Void EXCEPT !.floatValue = Decimal(mantissa, 0)] ELSE Void, exponent.pos, "no")
     ELSE Result(IF isDouble THEN WithFloat(sign * mantissa, exponent.value - Len(places))
                 ELSE WithInteger(sign * mantissa), exponent.pos, "ok")

\* The digits before the point are from start on, those behind it before end.
NumberFrom(json, start, wholeEnd, end, sign) ==
  NumberOf(SubSeq(json, start, wholeEnd - 1), SubSeq(json, wholeEnd + 1, end - 1),
           At(json, wholeEnd, Point), exponent2(json, end), sign)

decodeNumber(json, pos) ==
  LET start    == SkipSign(json, pos)
      wholeEnd == WholeEnd(json, start)
  IN IF start > Len(json) \/ json[start] \notin Digits THEN Result(Void, start, "no")
     ELSE NumberFrom(json, start, wholeEnd, PlacesEnd(json, wholeEnd), IF json[pos] = Minus THEN -1 ELSE 1)

\* map::insert: the first of several members with one name stays.
Inserted(members, name, v) == members @@ name :> v

StringOf(result) ==
  IF result.state # "ok" THEN Exception
  ELSE [result EXCEPT !.value = [OfType("tString") EXCEPT !.stringValue = result.value]]

RECURSIVE decodeValue(_, _), decodeElements(_, _, _), decodeMembers(_, _, _)

\* What a comma or a closing bracket makes of the elements.
ElementRead(json, element, elements) ==
  LET next == skipWhitespace(json, element.pos)
      all  == Append(elements, element.value)
  IN IF element.state # "ok" THEN Exception
     ELSE IF At(json, next, Comma) THEN decodeElements(json, skipWhitespace(json, next + 1), all)
     ELSE IF At(json, next, CloseBracket) THEN Result(Array(all), next + 1, "ok")
     ELSE Exception

\* The loop of decodeArray.
decodeElements(json, pos, elements) == ElementRead(json, decodeValue(json, pos), elements)

\* A name alone is a member without a value.
decodeMember(json, pos) ==
  IF At(json, pos, Colon) THEN decodeValue(json, skipWhitespace(json, pos + 1)) ELSE Result(Void, pos, "ok")

MemberRead(json, element, all) ==
  LET next == skipWhitespace(json, element.pos)
  IN IF element.state # "ok" THEN Exception
     ELSE IF At(json, next, Comma) THEN decodeMembers(json, skipWhitespace(json, next + 1), all)
     ELSE IF At(json, next, CloseBrace) THEN Result(Struct(all), next + 1, "ok")
     ELSE Exception

WithMember(json, name, element, members) ==
  MemberRead(json, element, Inserted(members, name, element.value))

NameRead(json, name, members) ==
  IF name.state # "ok" THEN Exception
  ELSE WithMember(json, name.value, decodeMember(json, skipWhitespace(json, name.pos)), members)

\* The loop of decodeObject.
decodeMembers(json, pos, members) ==
  IF At(json, pos, Quote) THEN NameRead(json, decodeString(json, pos + 1, <<>>, TRUE), members) ELSE Exception

decodeValue(json, pos) ==
  LET c     == json[pos]
      first == skipWhitespace(json, pos + 1)
  IN IF pos > Len(json) THEN Result(Void, pos, "no")
     ELSE CASE c = null[1]  -> Result(Void, pos + 4, "ok")
       [] c = true[1]  -> Result([OfType("tBoolean") EXCEPT !.booleanValue = TRUE], pos + 4, "ok")
       [] c = false[1] -> Result(OfType("tBoolean"), pos + 5, "ok")
       [] c = Quote -> StringOf(decodeString(json, pos + 1, <<>>, TRUE))
       [] c = OpenBracket ->
            IF At(json, first, CloseBracket) THEN Result(Array(<<>>), first + 1, "ok")
            ELSE decodeElements(json, first, <<>>)
       [] c = OpenBrace ->
            IF At(json, first, CloseBrace) THEN Result(Struct(NoStruct), first + 1, "ok")
            ELSE decodeMembers(json, first, NoStruct)
       [] OTHER -> decodeNumber(json, pos)

OkOrException(result) == IF result.state = "ok" THEN result ELSE Exception

\* decode(json, bytesRead); pos is bytesRead + 1.
decodeNext(json) ==
  LET start == skipWhitespace(json, 1)
  IN IF start > Len(json) THEN Result(Void, start, "ok") ELSE OkOrException(decodeValue(json, start))


\* What is no value is a string, with what has been read before of a number.
ValueOrText(json, result) ==
  LET string == StringOf(decodeString(json, 1, <<>>, FALSE))
  IN IF result.state # "no" THEN result
     ELSE [string EXCEPT !.value.integerValue = result.value.integerValue, !.value.floatValue = result.value.floatValue]

\* decode(json): what follows a value is ignored.
decode(json) ==
  LET start == skipWhitespace(json, 1)
  IN IF start > Len(json) THEN Result(Void, start, "ok") ELSE ValueOrText(json, decodeValue(json, start))

-----------------------------------------------------------------------------
(* Variable *)

\* operator=.  The children of rhs are copied and added to those of lhs.
RECURSIVE assigned(_, _)
assigned(lhs, rhs) ==
  [rhs EXCEPT
     !.arrayValue  = lhs.arrayValue \o [i \in DOMAIN @ |-> assigned(Void, @[i])],
     !.structValue = LET added == @ IN
                     lhs.structValue @@ [n \in DOMAIN added |-> assigned(Void, added[n])]]

=============================================================================
