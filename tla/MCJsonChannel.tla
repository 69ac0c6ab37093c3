---------------------------- MODULE MCJsonChannel ----------------------------
(* Instances of JsonChannel for TLC: integers have 8 and 16 bits (base 4),   *)
(* doubles 3 places or 4 digits.                                             *)
EXTENDS JsonChannel

Double(n, e) == [OfType("tFloat") EXCEPT !.floatValue = <<n, e>>]
Member(n, v) == Struct(n :> v)
a == <<97>>
b == <<98>>

Alphabet == {0, 10, Quote, 47, Backslash, 97, LetterU, 128, 169, 195, 233}
StringsOf(n) == UNION {[1 .. m -> Alphabet] : m \in 0 .. n}

\* €, 𝄞, DEL; and a character cut off, two not in their shortest form, ANSI without a meaning.
Texts   == StringsOf(2) \cup {<<226, 130, 172, 240, 157, 132, 158>>, <<127, 1, 9, 31>>, <<12, 8, 13>>}
Invalid == {<<195, 169, 226, 130>>, <<192, 128>>, <<224, 128, 128>>, <<240, 157, 132, 65>>, <<129, 132>>}

Numbers == {Integer(0), Integer(-128), Integer(127), Integer64(5), Integer64(-129), Integer64(128),
            Integer64(32759), Integer64(32760), Integer64(-32767)}
           \cup {Double(n, e) : n \in {15, -25}, e \in {-1, -2, -5}}
           \cup {Double(5, 0), Double(0, 0), Double(-1, 3), Double(12, 2), Double(3, 4), Double(15, 4), Double(7, -5),
                 Double(11111, -5), Double(-1111, -4), Double(12345, -2), Double(99996, -1), Double(1234, -3)}

Nested ==
  {Array(<<>>), Struct(NoStruct), Array(<<Array(<<>>), Struct(NoStruct), Void>>),
   Member(a, Array(<<Integer(1), String(<<93, Comma>>)>>)),
   Struct(<<>> :> Void @@ a :> Boolean(TRUE) @@ b :> Member(b, String(<<125, Quote>>))),
   Struct(a :> Integer(1) @@ <<98, Quote, 10>> :> Integer(2) @@ <<195, 169>> :> Void),
   Struct(a :> Integer(1) @@ <<98, 0>> :> Integer(2) @@ b :> Integer(3) @@ <<233>> :> Integer(4)),
   Member(<<233, 9>>, Integer(1)), Member(<<0>>, Integer(1)),
   Struct(a :> Void @@ <<192, 128>> :> Void)}
FirstNames == {Member(n, Integer(1)) : n \in StringsOf(2)}
                \cup {Struct(<<>> :> Void @@ n :> Boolean(TRUE) @@ <<195, 169>> :> Void) : n \in StringsOf(2)}
                \cup {Array(<<Member(<<Backslash, 116>>, Boolean(FALSE))>>)}

Values == {Void, OfType("tVariant"), Boolean(TRUE), Boolean(FALSE), Binary(<<1>>), Base64(a), Null}
            \cup {String(s) : s \in Texts \cup Invalid} \cup Numbers \cup Nested \cup FirstNames

Pairs == {<<Member(a, Array(<<Integer(1)>>)), Struct(a :> Integer(2) @@ b :> Void)>>,
          <<Array(<<Boolean(TRUE)>>), String(a)>>, <<Integer(12), Integer64(300)>>,
          <<String(<<192, 128>>), Void>>, <<Member(a, Void), Member(<<Quote>>, Void)>>,
          <<Array(<<Member(a, Void)>>), Member(b, Array(<<Void>>)), Array(<<Member(b, Integer(1))>>)>>}

MCConversations == {<<v>> : v \in Values} \cup Pairs

\* Structs with one name that has to be escaped.
MCNames == {<<Member(n, Integer(1))>> : n \in UNION {[1 .. m -> {97, Quote, Backslash, 116}] : m \in 1 .. 2}}

\* hello, test, no, 1st, -, +5, -75e1 with a point, 1e, 2.5e-, 1.x, 999999, e with
\* an accent, 01, a comma, and C:\te
Words ==
  {<<104, 101, 108, 108, 111>>, <<116, 101, 115, 116>>, <<110, 111>>, <<49, 115, 116>>, <<Minus>>,
   <<Plus, 53>>, <<Minus, 55, Point, 53, LetterE, 49>>, <<49, LetterE>>, <<50, Point, 53, LetterE, Minus>>,
   <<49, Point, 120>>, <<57, 57, 57, 57, 57, 57>>, <<195, 169>>, <<48, 49>>, <<Comma>>,
   <<67, Colon, Backslash, 116, 101>>}

\* [1, [1], [x], {a:1}, {"a"1}, {"a":1}, "a, "a", "\ud834"
JsonLike ==
  {<<OpenBracket, 49>>, <<OpenBracket, 49, CloseBracket>>, <<OpenBracket, 120, CloseBracket>>,
   <<OpenBrace, 97, Colon, 49, CloseBrace>>, <<OpenBrace, Quote, 97, Quote, 49, CloseBrace>>,
   <<OpenBrace, Quote, 97, Quote, Colon, 49, CloseBrace>>, <<Quote, 97>>, <<Quote, 97, Quote>>,
   <<Quote, Backslash, LetterU, 100, 56, 51, 52, Quote>>}

\* Each with and without a blank before and behind it; and blanks alone.
MCTypedTexts ==
  {before \o t \o behind : t \in Words \cup JsonLike, before \in {<<>>, <<32>>}, behind \in {<<>>, <<10>>}}
    \cup {<<32, 9>>}
=============================================================================
