--------------------------- MODULE RpcCodecProofs ---------------------------
(***************************************************************************)
(* What RpcEncoder writes, RpcDecoder reads: a variable of any type and    *)
(* any nesting, wherever it is in a packet, is decoded to what Sent says,  *)
(* and the decoder goes on behind its last byte.                           *)
(***************************************************************************)
EXTENDS RpcCodec, FlattenProofs

-----------------------------------------------------------------------------
(* Numbers *)

LEMMA CodecRadix ==
  ASSUME CodecConstants
  PROVE  /\ Radix \in Nat \ {0} /\ Radix >= 3 /\ Range32 \in Nat \ {0} /\ Range32 >= 81
         /\ Range64 \in Nat \ {0} /\ Range64 = Range32 * Range32
<1>1. Radix \in Nat /\ Radix >= 3
  BY DEF CodecConstants
<1>2. PICK c \in Nat : Radix = 3 + c
  <2>1. Radix - 3 \in Nat /\ Radix = 3 + (Radix - 3)
    BY <1>1
  <2> QED  BY <2>1
<1> DEFINE s == Radix * Radix
<1>3. s \in Nat /\ s >= 9
  BY <1>2
<1> HIDE DEF s
<1>4. PICK d \in Nat : s = 9 + d
  <2>1. s - 9 \in Nat /\ s = 9 + (s - 9)
    BY <1>3
  <2> QED  BY <2>1
<1>5. s * s \in Nat /\ s * s >= 81
  BY <1>4
<1>6. Range32 = s * s
  BY <1>1 DEF Range32, s
<1>7. Range32 \in Nat \ {0} /\ Range32 >= 81
  BY <1>5, <1>6
<1>8. Range64 \in Nat \ {0}
  <2>1. Range64 = Range32 * Range32
    BY DEF Range64
  <2> HIDE DEF Range64
  <2> DEFINE r == Range32
  <2>2. r \in Nat \ {0}
    BY <1>7
  <2> HIDE DEF r
  <2>3. r * r \in Nat \ {0}
    BY <2>2
  <2> QED  BY <2>1, <2>3 DEF r
<1> QED  BY <1>1, <1>7, <1>8 DEF Range64

\* Four digits are read as the number they are of, modulo Range32.
LEMMA IntegerDigits ==
  ASSUME CodecConstants, NEW i \in Int
  PROVE  /\ encodeInteger(i) \in Seq(Nat) /\ Len(encodeInteger(i)) = 4
         /\ FromBigEndian(encodeInteger(i)) = i % Range32
         /\ i % Range32 \in 0 .. Range32 - 1
<1> DEFINE w == Radix
           j == i \div w
           k == j \div w
           l == k \div w
           q == l \div w
           a == l % w
           b == k % w
           c == j % w
           d == i % w
<1>1. w \in Nat \ {0}
  BY CodecRadix
<1>2. encodeInteger(i) = <<a, b, c, d>>
  BY DEF encodeInteger
<1>r. w = Radix
  OBVIOUS
<1> HIDE DEF w
<1>3. i = j * w + d /\ j \in Int /\ d \in 0 .. w - 1
  BY <1>1, IntegerDivision
<1> HIDE DEF j, d
<1>4. j = k * w + c /\ k \in Int /\ c \in 0 .. w - 1
  BY <1>1, <1>3, IntegerDivision
<1> HIDE DEF k, c
<1>5. k = l * w + b /\ l \in Int /\ b \in 0 .. w - 1
  BY <1>1, <1>4, IntegerDivision
<1> HIDE DEF l, b
<1>6. l = q * w + a /\ q \in Int /\ a \in 0 .. w - 1
  BY <1>1, <1>5, IntegerDivision
<1> HIDE DEF q, a
<1> DEFINE ab == a * w + b
           abc == ab * w + c
           abcd == abc * w + d
<1>7. ab \in 0 .. w * w - 1 /\ w * w \in Nat \ {0}
  BY <1>1, <1>5, <1>6, Horner
<1> HIDE DEF ab
<1>8. abc \in 0 .. (w * w) * w - 1 /\ (w * w) * w \in Nat \ {0}
  <2> DEFINE m == w * w
  <2>1. m \in Nat \ {0} /\ ab \in 0 .. m - 1
    BY <1>7
  <2> HIDE DEF m
  <2>2. ab * w + c \in 0 .. m * w - 1 /\ m * w \in Nat \ {0}
    BY <1>1, <1>4, <2>1, Horner
  <2> QED  BY <2>2 DEF m
<1> HIDE DEF abc
<1>9. abcd \in 0 .. Range32 - 1
  <2> DEFINE m == (w * w) * w
  <2>1. m \in Nat \ {0} /\ abc \in 0 .. m - 1
    BY <1>8
  <2> HIDE DEF m
  <2>2. abc * w + d \in 0 .. m * w - 1
    BY <1>1, <1>3, <2>1, Horner
  <2> QED  BY <1>r, <2>2 DEF m, Range32
<1>10. i = q * Range32 + abcd
  <2>1. l = q * w + a /\ k = (q * w + a) * w + b
    BY <1>5, <1>6
  <2>2. k = q * (w * w) + ab
    BY <1>1, <1>6, <1>5, <2>1 DEF ab
  <2>3. j = q * ((w * w) * w) + abc
    <3> DEFINE t == q * ((w * w) * w)
               u == ab * w
               v == k * w
    <3>1. (q * (w * w) + ab) * w = q * ((w * w) * w) + ab * w
      BY <1>1, <1>6, <1>7
    <3>2. t \in Int /\ u \in Int /\ v = t + u /\ j = v + c /\ abc = u + c
      BY <1>1, <1>4, <1>6, <1>7, <2>2, <3>1 DEF abc
    <3> HIDE DEF t, u, v
    <3>3. j = t + abc
      BY <1>4, <3>2
    <3> QED  BY <3>3 DEF t
  <2>4. (q * ((w * w) * w) + abc) * w = q * (((w * w) * w) * w) + abc * w
    BY <1>1, <1>6, <1>8
  <2>5. i = q * (((w * w) * w) * w) + abcd
    <3> DEFINE t == q * (((w * w) * w) * w)
               u == abc * w
               v == j * w
    <3>1. t \in Int /\ u \in Int /\ v = t + u /\ i = v + d /\ abcd = u + d
      BY <1>1, <1>3, <1>6, <1>8, <2>3, <2>4 DEF abcd
    <3> HIDE DEF t, u, v
    <3>2. i = t + abcd
      BY <1>3, <3>1
    <3> QED  BY <3>2 DEF t
  <2> QED  BY <1>r, <2>5 DEF Range32
<1> HIDE DEF abcd
<1>11. i % Range32 = abcd
  BY <1>6, <1>9, <1>10, CodecRadix, DivisionStep
<1>12. ASSUME NEW x \in Nat, NEW y \in Nat, NEW z \in Nat, NEW u \in Nat
       PROVE  <<x, y, z, u>> \in Seq(Nat) /\ Len(<<x, y, z, u>>) = 4
              /\ FromBigEndian(<<x, y, z, u>>) = ((x * Radix + y) * Radix + z) * Radix + u
  BY DEF FromBigEndian
<1>13. FromBigEndian(<<a, b, c, d>>) = abcd
  BY <1>r, <1>3, <1>4, <1>5, <1>6, <1>12 DEF abcd, abc, ab
<1> QED  BY <1>2, <1>3, <1>4, <1>5, <1>6, <1>9, <1>11, <1>12, <1>13

LEMMA SmallRemainder ==
  ASSUME NEW w \in Nat \ {0}, NEW n \in 0 .. w - 1
  PROVE  n % w = n
<1>1. (0 * w + n) % w = n
  BY DivisionStep
<1> QED  BY <1>1

\* Reading once more changes nothing.
LEMMA RemainderTwice ==
  ASSUME NEW w \in Nat \ {0}, NEW n \in Int
  PROVE  (n % w) % w = n % w /\ Signed(n % w, w) = Signed(n, w)
<1> DEFINE r == n % w
<1>1. r \in 0 .. w - 1
  BY IntegerDivision
<1> HIDE DEF r
<1>2. r % w = r
  BY <1>1, SmallRemainder
<1> QED  BY <1>2 DEF Signed, r

\* A size is in the range of its type.
LEMMA SignedSize ==
  ASSUME NEW w \in Nat \ {0}, NEW n \in Nat, IsSigned(n, w)
  PROVE  n \in 0 .. w - 1 /\ n % w = n
<1>1. n % w \in 0 .. w - 1
  BY IntegerDivision
<1>2. n = n % w \/ n = (n % w) - w
  BY DEF IsSigned, Signed
<1> QED  BY <1>1, <1>2

-----------------------------------------------------------------------------
(* Bytes in a packet *)

\* The bytes are in the packet, behind the position.
Has(packet, position, bytes) ==
  /\ position + Len(bytes) <= Len(packet)
  /\ \A i \in 1 .. Len(bytes) : packet[position + i] = bytes[i]

LEMMA HasParts ==
  ASSUME NEW packet \in Seq(Nat), NEW position \in Nat, NEW s \in Seq(Nat), NEW t \in Seq(Nat),
         Has(packet, position, s \o t)
  PROVE  Has(packet, position, s) /\ Has(packet, position + Len(s), t)
<1>1. Len(s) \in Nat /\ Len(t) \in Nat /\ Len(packet) \in Nat
  BY LenProperties
<1>2. /\ Len(s \o t) = Len(s) + Len(t)
      /\ \A i \in 1 .. Len(s) + Len(t) : (s \o t)[i] = IF i <= Len(s) THEN s[i] ELSE t[i - Len(s)]
  BY ConcatProperties
<1> DEFINE u == s \o t
           n == Len(s)
<1>3. /\ position + (n + Len(t)) <= Len(packet)
      /\ \A i \in 1 .. n + Len(t) : packet[position + i] = IF i <= n THEN s[i] ELSE t[i - n]
  BY <1>2 DEF Has
<1>n. n \in Nat
  BY <1>1
<1> HIDE DEF u, n
<1>4. ASSUME NEW i \in 1 .. n PROVE packet[position + i] = s[i]
  <2>1. i \in 1 .. n + Len(t) /\ i <= n
    BY <1>1, <1>n
  <2> QED  BY <1>3, <2>1
<1>5. ASSUME NEW i \in 1 .. Len(t) PROVE packet[(position + n) + i] = t[i]
  <2> DEFINE j == n + i
  <2>1. j \in 1 .. n + Len(t) /\ ~(j <= n) /\ j - n = i /\ (position + n) + i = position + j
    BY <1>1, <1>n
  <2> HIDE DEF j
  <2> QED  BY <1>3, <2>1
<1>6. Has(packet, position, s)
  <2>1. position + n <= Len(packet)
    BY <1>1, <1>3, <1>n
  <2> QED  BY <1>4, <2>1 DEF Has, n
<1>7. Has(packet, position + n, t)
  <2>1. (position + n) + Len(t) <= Len(packet)
    BY <1>1, <1>3, <1>n
  <2> QED  BY <1>5, <2>1 DEF Has
<1> QED  BY <1>6, <1>7 DEF n

LEMMA HasRange ==
  ASSUME NEW packet \in Seq(Nat), NEW position \in Nat, NEW s \in Seq(Nat), Has(packet, position, s)
  PROVE  SubSeq(packet, position + 1, position + Len(s)) = s /\ ~(position + Len(s) > Len(packet))
<1> DEFINE n == Len(s)
           u == SubSeq(packet, position + 1, position + n)
<1>1. n \in Nat /\ Len(packet) \in Nat /\ position + n <= Len(packet)
  BY LenProperties DEF Has
<1>2. \A i \in 1 .. n : packet[position + i] = s[i]
  BY DEF Has
<1> HIDE DEF n
<1>3. \A i \in position + 1 .. position + n : packet[i] \in Nat
  <2>1. \A i \in position + 1 .. position + n : i \in 1 .. Len(packet)
    BY <1>1
  <2> QED  BY <2>1, ElementOfSeq
<1>4. /\ u \in Seq(Nat)
      /\ Len(u) = IF position + 1 <= position + n THEN (position + n) - (position + 1) + 1 ELSE 0
      /\ \A i \in 1 .. (position + n) - (position + 1) + 1 : u[i] = packet[(position + 1) + i - 1]
  BY <1>1, <1>3, SubSeqProperties
<1> HIDE DEF u
<1>5. Len(u) = n
  BY <1>1, <1>4
<1>6. ASSUME NEW i \in 1 .. n PROVE u[i] = s[i]
  <2>1. i \in 1 .. (position + n) - (position + 1) + 1 /\ (position + 1) + i - 1 = position + i
    BY <1>1
  <2>2. u[i] = packet[(position + 1) + i - 1]
    BY <1>4, <2>1
  <2> QED  BY <1>2, <2>1, <2>2
<1>7. u = s
  BY <1>4, <1>5, <1>6, SeqEqual DEF n
<1> QED  BY <1>1, <1>7 DEF u, n

-----------------------------------------------------------------------------
(* BinaryDecoder reads what BinaryEncoder wrote *)

LEMMA DecodeInteger ==
  ASSUME CodecConstants, NEW packet \in Seq(Nat), NEW position \in Nat, NEW i \in Int,
         Has(packet, position, encodeInteger(i))
  PROVE  decodeInteger(packet, position) = At(Signed(i, Range32), position + 4)
<1> DEFINE e == encodeInteger(i)
<1>1. e \in Seq(Nat) /\ Len(e) = 4 /\ FromBigEndian(e) = i % Range32
  BY IntegerDigits
<1> HIDE DEF e
<1>2. SubSeq(packet, position + 1, position + 4) = e /\ ~(position + 4 > Len(packet))
  <2>1. Has(packet, position, e)
    BY DEF e
  <2>2. SubSeq(packet, position + 1, position + Len(e)) = e /\ ~(position + Len(e) > Len(packet))
    BY <1>1, <2>1, HasRange
  <2> QED  BY <1>1, <2>2
<1>3. Signed(i % Range32, Range32) = Signed(i, Range32)
  BY CodecRadix, RemainderTwice
<1> QED  BY <1>1, <1>2, <1>3 DEF decodeInteger, Decode

LEMMA DecodeUnsigned ==
  ASSUME CodecConstants, NEW packet \in Seq(Nat), NEW position \in Nat, NEW n \in 0 .. Range32 - 1,
         Has(packet, position, encodeInteger(n))
  PROVE  decodeUnsigned(packet, position) = At(n, position + 4)
<1>1. Range32 \in Nat \ {0} /\ n \in Int
  BY CodecRadix
<1>2. decodeInteger(packet, position) = At(Signed(n, Range32), position + 4)
  BY <1>1, DecodeInteger
<1>3. n % Range32 = n
  BY <1>1, SmallRemainder
<1>4. Signed(n, Range32) = n \/ Signed(n, Range32) = n - Range32
  BY <1>3 DEF Signed
<1>5. (n - Range32) % Range32 = n
  <2>1. PICK k \in Int : k = -1
    OBVIOUS
  <2> DEFINE r == Range32
  <2>2. r \in Nat \ {0}
    BY <1>1
  <2>3. (k * r + n) % r = n
    BY <2>2, DivisionStep
  <2> HIDE DEF r
  <2>4. k * r + n = n - r
    BY <2>1, <2>2
  <2> QED  BY <2>3, <2>4 DEF r
<1>6. Signed(n, Range32) % Range32 = n
  BY <1>3, <1>4, <1>5
<1> QED  BY <1>2, <1>6 DEF decodeUnsigned, At

LEMMA DecodeInteger64 ==
  ASSUME CodecConstants, NEW packet \in Seq(Nat), NEW position \in Nat, NEW i \in Int,
         Has(packet, position, encodeInteger64(i))
  PROVE  /\ decodeInteger64(packet, position) = At(Signed(i, Range64), position + 8)
         /\ encodeInteger64(i) \in Seq(Nat) /\ Len(encodeInteger64(i)) = 8
<1> DEFINE h == i \div Range32
           l == i % Range32
           s == encodeInteger(h)
           t == encodeInteger(i)
           e == s \o t
<1>1. Range32 \in Nat \ {0} /\ Range64 \in Nat \ {0} /\ Range64 = Range32 * Range32
  BY CodecRadix
<1>2. i = h * Range32 + l /\ h \in Int /\ l \in 0 .. Range32 - 1
  BY <1>1, IntegerDivision
<1> HIDE DEF h
<1>3. s \in Seq(Nat) /\ Len(s) = 4 /\ FromBigEndian(s) = h % Range32 /\ h % Range32 \in 0 .. Range32 - 1
  BY <1>2, IntegerDigits
<1>4. t \in Seq(Nat) /\ Len(t) = 4 /\ FromBigEndian(t) = l
  BY IntegerDigits
<1>5. Has(packet, position, e)
  BY DEF encodeInteger64, h
<1>l. l = i % Range32
  OBVIOUS
<1> HIDE DEF s, t, l
<1>6. /\ e \in Seq(Nat) /\ Len(e) = 8
      /\ \A j \in 1 .. Len(s) + Len(t) : e[j] = IF j <= Len(s) THEN s[j] ELSE t[j - Len(s)]
  <2>1. /\ e \in Seq(Nat) /\ Len(e) = Len(s) + Len(t)
        /\ \A j \in 1 .. Len(s) + Len(t) : e[j] = IF j <= Len(s) THEN s[j] ELSE t[j - Len(s)]
    BY <1>3, <1>4, ConcatProperties
  <2> HIDE DEF e
  <2>2. Len(e) = 8
    BY <1>3, <1>4, <2>1
  <2> QED  BY <2>1, <2>2
<1>7. FromBigEndian(e) = FromBigEndian(s)
  <2> HIDE DEF e
  <2>1. \A j \in 1 .. 4 : e[j] = s[j]
    BY <1>3, <1>4, <1>6
  <2>2. e[1] = s[1] /\ e[2] = s[2] /\ e[3] = s[3] /\ e[4] = s[4]
    BY <2>1
  <2> QED  BY <2>2 DEF FromBigEndian
<1>8. SubSeq(e, 5, 8) = t
  <2>1. Len(s) + 1 = 5 /\ Has(e, 0, e)
    BY <1>3, <1>6 DEF Has
  <2>2. Has(e, 0 + Len(s), t)
    BY <1>3, <1>4, <1>6, <2>1, HasParts
  <2> HIDE DEF e
  <2>3. 0 + Len(s) = 4 /\ 4 + 1 = 5 /\ 4 + Len(t) = 8 /\ 4 \in Nat
    BY <1>3, <1>4
  <2>4. SubSeq(e, 4 + 1, 4 + Len(t)) = t
    BY <1>4, <1>6, <2>2, <2>3, HasRange, ZenonT(60)
  <2> QED  BY <2>3, <2>4
<1> DEFINE x == (h % Range32) * Range32 + l
<1>9. x \in 0 .. Range64 - 1
  <2> DEFINE r == Range32
             g == h % Range32
  <2>1. r \in Nat \ {0} /\ g \in 0 .. r - 1 /\ l \in 0 .. r - 1 /\ Range64 = r * r
    BY <1>1, <1>2, <1>3
  <2> HIDE DEF r, g
  <2>2. g * r + l \in 0 .. r * r - 1
    BY <2>1, Horner
  <2> QED  BY <2>1, <2>2 DEF r, g
<1>10. i % Range64 = x
  <2> DEFINE r == Range32
             g == h % Range32
             q == h \div Range32
  <2>1. h = q * r + g /\ q \in Int /\ r \in Nat \ {0} /\ g \in Int /\ Range64 = r * r
    BY <1>1, <1>2, IntegerDivision
  <2>2. i = h * r + l /\ x = g * r + l
    BY <1>2
  <2> HIDE DEF r, g, q, x
  <2>3. (q * r + g) * r = q * (r * r) + g * r
    BY <2>1
  <2> DEFINE a == q * (r * r)
             b == g * r
             c == h * r
  <2>4. a \in Int /\ b \in Int /\ c = a + b /\ i = c + l /\ x = b + l
    BY <2>1, <2>2, <2>3
  <2> HIDE DEF a, b, c
  <2>5. i = a + x
    BY <1>2, <2>4
  <2>6. i = q * Range64 + x
    BY <2>1, <2>5 DEF a
  <2> QED  BY <1>1, <1>9, <2>1, <2>6, DivisionStep
<1>11. Signed(x, Range64) = Signed(i, Range64)
  BY <1>1, <1>10, RemainderTwice
<1>12. SubSeq(packet, position + 1, position + 8) = e /\ ~(position + 8 > Len(packet))
  <2>1. SubSeq(packet, position + 1, position + Len(e)) = e /\ ~(position + Len(e) > Len(packet))
    <3> HIDE DEF e
    <3> QED  BY <1>5, <1>6, HasRange
  <2> QED  BY <1>6, <2>1
<1>13. FromBigEndian(e) * Range32 + FromBigEndian(SubSeq(e, 5, 8)) = x
  BY <1>3, <1>4, <1>7, <1>8
<1>14. encodeInteger64(i) = e
  BY DEF encodeInteger64, s, t, h
<1> HIDE DEF e, x
<1>15. decodeInteger64(packet, position) = At(Signed(x, Range64), position + 8)
  BY <1>12, <1>13 DEF decodeInteger64, Decode
<1> QED  BY <1>6, <1>11, <1>14, <1>15

LEMMA DecodeBoolean ==
  ASSUME NEW packet \in Seq(Nat), NEW position \in Nat, NEW b \in BOOLEAN,
         Has(packet, position, encodeBoolean(b))
  PROVE  decodeBoolean(packet, position) = At(b, position + 1)
<1> DEFINE e == <<IF b THEN 1 ELSE 0>>
<1>1. e \in Seq(Nat) /\ Len(e) = 1 /\ (e[1] # 0) = b
  OBVIOUS
<1>2. Has(packet, position, e)
  BY DEF encodeBoolean
<1> HIDE DEF e
<1>3. SubSeq(packet, position + 1, position + Len(e)) = e /\ ~(position + Len(e) > Len(packet))
  BY <1>1, <1>2, HasRange
<1> QED  BY <1>1, <1>3 DEF decodeBoolean, Decode

LEMMA StringBytes ==
  ASSUME CodecConstants, NEW s \in Seq(Nat)
  PROVE  encodeString(s) \in Seq(Nat) /\ Len(encodeString(s)) = 4 + Len(s) /\ Len(s) \in Nat
<1>1. Len(s) \in Nat
  BY LenProperties
<1> DEFINE e == encodeInteger(Len(s))
<1>2. e \in Seq(Nat) /\ Len(e) = 4
  BY <1>1, IntegerDigits
<1> HIDE DEF e
<1>3. e \o s \in Seq(Nat) /\ Len(e \o s) = Len(e) + Len(s)
  BY <1>2, ConcatProperties
<1> QED  BY <1>1, <1>2, <1>3 DEF encodeString, e

LEMMA DecodeString ==
  ASSUME CodecConstants, NEW packet \in Seq(Nat), NEW position \in Nat, NEW s, SendableString(s),
         Has(packet, position, encodeString(s))
  PROVE  decodeString(packet, position) = At(s, position + (4 + Len(s)))
<1> DEFINE e == encodeInteger(Len(s))
           n == Len(s)
<1>1. s \in Seq(Nat) /\ n \in Nat /\ Signed(n, Range32) = n
  BY LenProperties DEF SendableString, IsSigned
<1>2. e \in Seq(Nat) /\ Len(e) = 4
  BY <1>1, IntegerDigits
<1>3. Has(packet, position, e) /\ Has(packet, position + 4, s)
  <2>1. Has(packet, position, e \o s)
    BY DEF encodeString
  <2> HIDE DEF e
  <2>2. Has(packet, position, e) /\ Has(packet, position + Len(e), s)
    BY <1>1, <1>2, <2>1, HasParts
  <2> QED  BY <1>2, <2>2
<1>4. decodeInteger(packet, position) = At(n, position + 4)
  BY <1>1, <1>3, DecodeInteger
<1> DEFINE p == position + 4
<1>5. SubSeq(packet, p + 1, p + n) = s /\ ~(p + n > Len(packet)) /\ p \in Nat
  <2>1. p \in Nat
    OBVIOUS
  <2> HIDE DEF p
  <2> QED  BY <1>1, <1>3, <2>1, HasRange DEF p
<1>6. decodeString(packet, position) = At(s, p + n)
  <2>1. decodeInteger(packet, position).position = p /\ decodeInteger(packet, position).value = n
    BY <1>4 DEF At
  <2> HIDE DEF p, n
  <2> QED  BY <1>5, <2>1 DEF decodeString, Decode
<1>7. p + n = position + (4 + n)
  BY <1>1
<1> QED  BY <1>6, <1>7

LEMMA DecodeBinary ==
  ASSUME NEW b
  PROVE  encodeBinary(b) = encodeString(b)
BY DEF encodeBinary, encodeString

LEMMA TypeBytes ==
  ASSUME CodecConstants, NEW t \in ToSet(Types)
  PROVE  /\ TypeCode[t] \in 1 .. 11 /\ Types[TypeCode[t]] = t
         /\ encodeType(t) \in Seq(Nat) /\ Len(encodeType(t)) = 4
<1> DEFINE c == TypeCode[t]
<1>1. c \in 1 .. 11 /\ Types[c] = t
  <2>1. DOMAIN Types = 1 .. 11
    BY DEF Types
  <2>2. \E d \in DOMAIN Types : Types[d] = t
    BY DEF ToSet
  <2>3. c = CHOOSE d \in DOMAIN Types : Types[d] = t
    BY DEF TypeCode
  <2> HIDE DEF c
  <2> QED  BY <2>1, <2>2, <2>3
<1> HIDE DEF c
<1>2. encodeType(t) = encodeInteger(c)
  BY DEF encodeType, c
<1>3. encodeInteger(c) \in Seq(Nat) /\ Len(encodeInteger(c)) = 4
  BY <1>1, IntegerDigits
<1> QED  BY <1>1, <1>2, <1>3 DEF c

LEMMA DecodeType ==
  ASSUME CodecConstants, NEW packet \in Seq(Nat), NEW position \in Nat, NEW t \in ToSet(Types),
         Has(packet, position, encodeType(t))
  PROVE  decodeType(packet, position) = At(t, position + 4)
<1> DEFINE c == TypeCode[t]
<1>1. c \in 1 .. 11 /\ Types[c] = t
  BY TypeBytes
<1> HIDE DEF c
<1>2. encodeType(t) = encodeInteger(c)
  BY DEF encodeType, c
<1>3. decodeInteger(packet, position) = At(Signed(c, Range32), position + 4)
  BY <1>1, <1>2, DecodeInteger
<1>4. Types[Signed(c, Range32)] = t
  <2>1. Range32 \in Nat /\ Range32 >= 81
    BY CodecRadix
  <2> DEFINE r == Range32
  <2>2. r \in Nat \ {0} /\ c \in 0 .. r - 1 /\ c < r \div 2
    BY <1>1, <2>1
  <2> HIDE DEF r
  <2>3. c % r = c
    BY <2>2, SmallRemainder
  <2> QED  BY <1>1, <2>2, <2>3 DEF Signed, r
<1> QED  BY <1>3, <1>4 DEF decodeType, At

-----------------------------------------------------------------------------
(* Doubles *)

LEMMA PowerDefined ==
  /\ PowerOf2 \in [Nat -> Nat \ {0}] /\ PowerOf2[0] = 1
  /\ \A n \in Nat : PowerOf2[n + 1] = 2 * PowerOf2[n]
<1> DEFINE Doubles(n, f) == f[0] = 1 /\ \A i \in 1 .. n : f[i] = 2 * f[i - 1]
           Row(n) == CHOOSE f \in [0 .. n -> Nat \ {0}] : Doubles(n, f)
           g == [n \in Nat |-> Row(n)[n]]
<1>1. ASSUME NEW n \in Nat PROVE Row(n) \in [0 .. n -> Nat \ {0}] /\ Doubles(n, Row(n))
  <2> DEFINE step == [x \in (1 .. n) \X (Nat \ {0}) |-> 2 * x[2]]
  <2>1. step \in [(1 .. n) \X (Nat \ {0}) -> Nat \ {0}] /\ 1 \in Nat \ {0}
    OBVIOUS
  <2>2. \A i \in 1 .. n : \A y \in Nat \ {0} : step[<<i, y>>] = 2 * y
    OBVIOUS
  <2> HIDE DEF step
  <2>3. PICK f \in [0 .. n -> Nat \ {0}] : Iterates(f, n, 1, step)
    BY <2>1, Iteration
  <2>4. Doubles(n, f)
    <3>1. \A i \in 1 .. n : i - 1 \in 0 .. n
      OBVIOUS
    <3> QED  BY <2>2, <2>3, <3>1 DEF Iterates
  <2> QED  BY <2>3, <2>4
<1> HIDE DEF Row
<1>2. g[0] = 1 /\ g \in [Nat -> Nat \ {0}]
  <2>1. \A n \in Nat : Row(n)[n] \in Nat \ {0}
    BY <1>1
  <2>2. Row(0)[0] = 1
    BY <1>1
  <2> QED  BY <2>1, <2>2
<1>3. ASSUME NEW n \in Nat PROVE g[n + 1] = 2 * g[n]
  <2>1. Row(n + 1)[n + 1] = 2 * Row(n + 1)[n]
    <3>1. n + 1 \in Nat /\ n + 1 \in 1 .. n + 1 /\ (n + 1) - 1 = n
      OBVIOUS
    <3>2. Doubles(n + 1, Row(n + 1))
      BY <1>1, <3>1
    <3> QED  BY <3>1, <3>2
  <2>2. SameSteps(Row(n + 1), Row(n), n)
    <3>1. Doubles(n + 1, Row(n + 1)) /\ Doubles(n, Row(n))
      BY <1>1
    <3>2. \A i \in 1 .. n : i \in 1 .. n + 1
      OBVIOUS
    <3> QED  BY <3>1, <3>2 DEF SameSteps
  <2>3. Row(n + 1)[n] = Row(n)[n]
    BY <2>2, IterationsAgree
  <2> QED  BY <2>1, <2>3
<1>4. g = [n \in Nat |-> IF n = 0 THEN 1 ELSE 2 * g[n - 1]]
  <2>1. ASSUME NEW n \in Nat PROVE g[n] = IF n = 0 THEN 1 ELSE 2 * g[n - 1]
    <3>1. CASE n = 0
      BY <1>2, <3>1
    <3>2. CASE n # 0
      <4>1. n - 1 \in Nat /\ (n - 1) + 1 = n
        BY <3>2
      <4>2. g[(n - 1) + 1] = 2 * g[n - 1]
        <5> HIDE DEF g
        <5> QED  BY <1>3, <4>1
      <4> HIDE DEF g
      <4> QED  BY <3>2, <4>1, <4>2
    <3> QED  BY <3>1, <3>2
  <2>2. g \in [Nat -> Nat \ {0}]
    BY <1>2
  <2> HIDE DEF g
  <2> QED  BY <2>1, <2>2
<1> HIDE DEF g
<1> DEFINE Def(f) == [n \in Nat |-> IF n = 0 THEN 1 ELSE 2 * f[n - 1]]
           chosen == CHOOSE f : f = Def(f)
<1>5. chosen = Def(chosen)
  BY <1>4
<1>6. PowerOf2 = chosen
  BY DEF PowerOf2
<1> HIDE DEF chosen
<1>7. PowerOf2[0] = 1 /\ \A n \in Nat : PowerOf2[n + 1] = 2 * PowerOf2[n]
  <2>1. \A n \in Nat : n + 1 \in Nat /\ n + 1 # 0 /\ (n + 1) - 1 = n
    OBVIOUS
  <2> QED  BY <1>5, <1>6, <2>1
<1>8. \A n \in Nat : PowerOf2[n] \in Nat \ {0}
  <2> DEFINE T == {n \in Nat : PowerOf2[n] \in Nat \ {0}}
  <2>1. 0 \in T
    BY <1>7
  <2>2. ASSUME NEW n \in Nat, n \in T PROVE n + 1 \in T
    BY <1>7, <2>2
  <2> HIDE DEF T
  <2>3. \A n \in Nat : n \in T
    BY <2>1, <2>2, NaturalInduction
  <2> QED  BY <2>3 DEF T
<1>9. PowerOf2 = [n \in Nat |-> PowerOf2[n]]
  BY <1>5, <1>6
<1> QED  BY <1>7, <1>8, <1>9

LEMMA PowerSum ==
  ASSUME NEW a \in Nat, NEW b \in Nat
  PROVE  PowerOf2[a + b] = PowerOf2[a] * PowerOf2[b]
<1> DEFINE T == {n \in Nat : PowerOf2[a + n] = PowerOf2[a] * PowerOf2[n]}
<1>1. PowerOf2 \in [Nat -> Nat \ {0}] /\ PowerOf2[0] = 1 /\ PowerOf2[a] \in Nat
  BY PowerDefined
<1>2. 0 \in T
  BY <1>1
<1>3. ASSUME NEW n \in Nat, n \in T PROVE n + 1 \in T
  <2> DEFINE x == PowerOf2[a]
             y == PowerOf2[n]
             z == PowerOf2[a + n]
  <2>1. PowerOf2[(a + n) + 1] = 2 * z /\ PowerOf2[n + 1] = 2 * y
    BY PowerDefined
  <2>2. x \in Nat /\ y \in Nat /\ z = x * y
    BY <1>1, <1>3
  <2>3. a + (n + 1) = (a + n) + 1
    OBVIOUS
  <2> HIDE DEF x, y, z
  <2>4. 2 * z = x * (2 * y)
    BY <2>2
  <2> QED  BY <2>1, <2>3, <2>4 DEF x
<1> HIDE DEF T
<1>4. \A n \in Nat : n \in T
  BY <1>2, <1>3, NaturalInduction
<1> QED  BY <1>4 DEF T

LEMMA PowerGrows ==
  ASSUME NEW a \in Nat
  PROVE  a < PowerOf2[a]
<1> DEFINE T == {n \in Nat : n < PowerOf2[n]}
<1>1. 0 \in T
  BY PowerDefined
<1>2. ASSUME NEW n \in Nat, n \in T PROVE n + 1 \in T
  BY <1>2, PowerDefined
<1> HIDE DEF T
<1>3. \A n \in Nat : n \in T
  BY <1>1, <1>2, NaturalInduction
<1> QED  BY <1>3 DEF T

LEMMA BitsOfNumber ==
  ASSUME NEW n \in Nat
  PROVE  BitLength(n) \in 0 .. n /\ n < PowerOf2[BitLength(n)]
<1> DEFINE Bits(l) == n < PowerOf2[l] /\ (l # 0 => PowerOf2[l - 1] <= n)
           T == {m \in Nat : n < PowerOf2[m] => \E l \in 0 .. m : Bits(l)}
<1>1. 0 \in T
  OBVIOUS
<1>2. ASSUME NEW m \in Nat, m \in T PROVE m + 1 \in T
  <2>1. CASE n < PowerOf2[m]
    <3>1. PICK l \in 0 .. m : Bits(l)
      BY <1>2, <2>1
    <3>2. l \in 0 .. m + 1
      OBVIOUS
    <3> QED  BY <3>1, <3>2
  <2>2. CASE ~(n < PowerOf2[m])
    <3>1. PowerOf2[m] \in Nat /\ (m + 1) - 1 = m /\ m + 1 \in 0 .. m + 1
      BY PowerDefined
    <3>2. PowerOf2[(m + 1) - 1] <= n
      BY <2>2, <3>1
    <3> QED  BY <3>1, <3>2
  <2> QED  BY <2>1, <2>2
<1> HIDE DEF T
<1>3. n \in T
  BY <1>1, <1>2, NaturalInduction
<1>4. \E l \in 0 .. n : Bits(l)
  BY <1>3, PowerGrows DEF T
<1>5. BitLength(n) = CHOOSE l \in 0 .. n : Bits(l)
  BY DEF BitLength
<1> QED  BY <1>4, <1>5

\* Odd numbers times different powers of 2 are different.
LEMMA OddParts ==
  ASSUME NEW a \in Int, NEW b \in Int, NEW i \in Nat, NEW j \in Nat, i < j, a % 2 = 1
  PROVE  a * PowerOf2[i] # b * PowerOf2[j]
<1>1. SUFFICES ASSUME a * PowerOf2[i] = b * PowerOf2[j] PROVE FALSE
  OBVIOUS
<1> DEFINE d == j - i - 1
           x == PowerOf2[i]
           y == PowerOf2[d]
<1>2. d \in Nat /\ j = i + (d + 1) /\ d + 1 \in Nat
  OBVIOUS
<1> HIDE DEF d
<1>3. PowerOf2[j] = x * (2 * y) /\ x \in Nat \ {0} /\ y \in Nat
  BY <1>2, PowerSum, PowerDefined, ZenonT(60)
<1>4. a * x = b * (x * (2 * y))
  BY <1>1, <1>3
<1> HIDE DEF x, y
<1>5. b * (x * (2 * y)) = (2 * (b * y)) * x
  BY <1>3
<1> DEFINE c == b * y
<1>6. c \in Int /\ a * x = (2 * c) * x
  BY <1>3, <1>4, <1>5
<1> HIDE DEF c
<1>7. (a - 2 * c) * x = 0
  BY <1>3, <1>6
<1>8. a - 2 * c = 0
  BY <1>3, <1>6, <1>7
<1> QED  BY <1>6, <1>8

LEMMA FloatOfOdd ==
  ASSUME NEW n \in Int, n % 2 = 1, NEW d \in Nat, NEW k \in Int
  PROVE  FloatOf(n * PowerOf2[d], k) = <<n, k + d>> /\ n * PowerOf2[d] # 0
<1> DEFINE m == n * PowerOf2[d]
           Bound == IF m < 0 THEN -m ELSE m
           Fits(j) == m % PowerOf2[j] = 0 /\ (m \div PowerOf2[j]) % 2 = 1
           chosen == CHOOSE j \in 0 .. Bound : Fits(j)
<1>1. \A j \in Nat : PowerOf2[j] \in Nat \ {0}
  BY PowerDefined
<1>2. m \in Int /\ m # 0 /\ d \in 0 .. Bound
  <2> DEFINE p == PowerOf2[d]
  <2>1. p \in Nat \ {0} /\ d < p /\ n # 0
    BY <1>1, PowerGrows
  <2> HIDE DEF p
  <2>2. n * p \in Int
    BY <2>1
  <2>3. CASE n > 0
    <3>1. PICK c \in Nat : n = 1 + c
      <4>1. n - 1 \in Nat /\ n = 1 + (n - 1)
        BY <2>3
      <4> QED  BY <4>1
    <3>2. n * p = p + c * p /\ c * p \in Nat
      BY <2>1, <3>1
    <3>3. n * p >= p
      BY <2>1, <2>2, <3>2
    <3> QED  BY <2>1, <2>2, <3>3 DEF p
  <2>4. CASE n < 0
    <3>1. PICK c \in Nat : n = -1 - c
      <4>1. -n - 1 \in Nat /\ n = -1 - (-n - 1)
        BY <2>4
      <4> QED  BY <4>1
    <3>2. n * p = -p - c * p /\ c * p \in Nat
      BY <2>1, <3>1
    <3>3. n * p <= -p
      BY <2>1, <2>2, <3>2
    <3> QED  BY <2>1, <2>2, <3>3 DEF p
  <2> QED  BY <2>1, <2>3, <2>4
<1>3. Fits(d)
  <2> DEFINE p == PowerOf2[d]
  <2>1. p \in Nat \ {0} /\ 0 \in 0 .. p - 1
    BY <1>1
  <2> HIDE DEF p
  <2>2. (n * p + 0) \div p = n /\ (n * p + 0) % p = 0
    BY <2>1, DivisionStep
  <2>3. n * p + 0 = n * p
    <3>1. n * p \in Int
      BY <2>1
    <3> QED  BY <3>1
  <2> QED  BY <2>2, <2>3 DEF p
<1>4. ASSUME NEW j \in Nat, Fits(j) PROVE j = d
  <2> DEFINE p == PowerOf2[j]
             q == m \div p
  <2>1. p \in Nat \ {0}
    BY <1>1
  <2>2. m = q * p + (m % p) /\ q \in Int
    <3> HIDE DEF m, p
    <3> QED  BY <1>2, <2>1, IntegerDivision
  <2>3. m % p = 0 /\ q % 2 = 1
    BY <1>4
  <2>4. n * PowerOf2[d] = q * PowerOf2[j]
    <3>1. q * p \in Int /\ m = q * p
      <4> HIDE DEF m, q, p
      <4>1. q * p \in Int
        BY <2>1, <2>2
      <4> QED  BY <2>2, <2>3, <4>1
    <3> QED  BY <3>1
  <2> HIDE DEF q, m
  <2>5. CASE j < d
    BY <2>2, <2>3, <2>4, <2>5, OddParts
  <2>6. CASE d < j
    BY <2>2, <2>4, <2>6, OddParts
  <2> QED  BY <2>5, <2>6
<1> HIDE DEF Fits
<1>5. chosen \in Nat /\ Fits(chosen)
  <2>1. \A j \in 0 .. Bound : j \in Nat
    OBVIOUS
  <2>2. \E j \in 0 .. Bound : Fits(j)
    BY <1>2, <1>3
  <2> HIDE DEF Bound
  <2> QED  BY <2>1, <2>2
<1>6. chosen = d
  BY <1>4, <1>5
<1>7. m \div PowerOf2[d] = n
  <2> DEFINE p == PowerOf2[d]
  <2>1. p \in Nat \ {0} /\ 0 \in 0 .. p - 1
    BY <1>1
  <2> HIDE DEF p
  <2>2. (n * p + 0) \div p = n
    BY <2>1, DivisionStep
  <2>3. n * p + 0 = n * p
    <3>1. n * p \in Int
      BY <2>1
    <3> QED  BY <3>1
  <2> QED  BY <2>2, <2>3 DEF p
<1>8. FloatOf(m, k) = IF m = 0 THEN <<0, 0>> ELSE <<m \div PowerOf2[chosen], k + chosen>>
  <2> HIDE DEF m
  <2> QED  BY DEF FloatOf, chosen, Bound, Fits
<1> HIDE DEF m, chosen
<1> QED  BY <1>2, <1>6, <1>7, <1>8 DEF m

LEMMA SmallSigned ==
  ASSUME NEW w \in Nat \ {0}, NEW i \in Int, 2 * i < w - 1, -w <= 2 * i
  PROVE  Signed(i, w) = i
<1>1. CASE i >= 0
  <2>1. i \in 0 .. w - 1 /\ i < w \div 2
    BY <1>1
  <2> QED  BY <2>1, SmallRemainder DEF Signed
<1>2. CASE i < 0
  <2>1. i + w \in 0 .. w - 1 /\ ~(i + w < w \div 2)
    BY <1>2
  <2>2. PICK k \in Int : k = -1
    OBVIOUS
  <2> DEFINE r == i + w
  <2>3. (k * w + r) % w = r
    BY <2>1, DivisionStep
  <2>4. k * w + r = i
    BY <2>2
  <2>5. i % w = i + w
    BY <2>3, <2>4
  <2> QED  BY <2>1, <2>5 DEF Signed
<1> QED  BY <1>1, <1>2

LEMMA DecodeFloat ==
  ASSUME CodecConstants, NEW packet \in Seq(Nat), NEW position \in Nat, NEW b, NEW f,
         SendableFloat(f, b), Has(packet, position, encodeFloat(f))
  PROVE  /\ decodeFloat(packet, position, b) = At(f, position + 8)
         /\ encodeFloat(f) \in Seq(Nat) /\ Len(encodeFloat(f)) = 8
<1> DEFINE size == IF f[1] < 0 THEN -f[1] ELSE f[1]
           bits == BitLength(size)
           d    == MantissaBits - bits
           zero == f = <<0, 0>>
           m    == IF zero THEN 0 ELSE f[1] * PowerOf2[d]
           e    == IF zero THEN 0 ELSE f[2] + bits
           s    == encodeInteger(m)
           t    == encodeInteger(e)
<1>1. ASSUME ~zero
      PROVE  /\ f[1] \in Int /\ f[2] \in Int /\ f = <<f[1], f[2]>> /\ f[1] % 2 = 1
             /\ bits <= MantissaBits /\ IsSigned(f[2] + bits, Range32)
             /\ b.bytes = "char" \/ f[2] + bits \in 2 - ShiftBits .. ShiftBits - 2
             /\ RoundDigits(f) = f
  <2>1. /\ f \in Int \X Int /\ f[1] % 2 = 1 /\ bits <= MantissaBits
        /\ IsSigned(f[2] + bits, Range32)
        /\ b.bytes = "char" \/ f[2] + bits \in 2 - ShiftBits .. ShiftBits - 2
        /\ RoundDigits(f) = f
    BY <1>1 DEF SendableFloat
  <2> HIDE DEF bits
  <2> QED  BY <2>1
<1>2. MantissaBits \in Nat /\ ShiftBits \in Nat \ {0}
      /\ 2 * PowerOf2[MantissaBits] <= Range32 /\ Range32 \in Nat \ {0} /\ Range32 >= 81
  BY CodecRadix DEF CodecConstants
<1>3. ASSUME ~zero
      PROVE  size \in Nat /\ bits \in Nat /\ size < PowerOf2[bits] /\ d \in Nat
  <2>1. size \in Nat
    BY <1>1, <1>3
  <2> HIDE DEF size
  <2>2. bits \in Nat /\ size < PowerOf2[bits]
    BY <2>1, BitsOfNumber
  <2> HIDE DEF bits
  <2> QED  BY <1>1, <1>2, <1>3, <2>1, <2>2
<1>4. m \in Int /\ e \in Int /\ Signed(m, Range32) = m /\ Signed(e, Range32) = e
  <2>1. CASE zero
    <3>1. m = 0 /\ e = 0
      BY <2>1
    <3>2. Signed(0, Range32) = 0
      BY <1>2, SmallSigned
    <3> HIDE DEF m, e
    <3> QED  BY <3>1, <3>2
  <2>2. CASE ~zero
    <3> DEFINE n == f[1]
               p == PowerOf2[d]
               q == PowerOf2[bits]
    <3>1. /\ n \in Int /\ p \in Nat \ {0} /\ q \in Nat \ {0} /\ -q < n /\ n < q
          /\ PowerOf2[MantissaBits] = q * p /\ m = n * p
      <4>1. MantissaBits = bits + d /\ n \in Int /\ bits \in Nat /\ d \in Nat
        <5> HIDE DEF bits
        <5> QED  BY <1>1, <1>2, <1>3, <2>2
      <4>2. size < q
        BY <1>3, <2>2
      <4> HIDE DEF bits, d
      <4>3. PowerOf2[bits + d] = q * p /\ p \in Nat \ {0} /\ q \in Nat \ {0}
        BY <4>1, PowerSum, PowerDefined
      <4>4. -q < n /\ n < q
        BY <4>1, <4>2, <4>3
      <4> QED  BY <2>2, <4>1, <4>3, <4>4
    <3>2. e = f[2] + bits /\ IsSigned(e, Range32)
      BY <1>1, <2>2
    <3> HIDE DEF n, p, q, m, e
    <3>3. n * p < q * p /\ -(q * p) < n * p /\ n * p \in Int /\ q * p \in Nat
      <4>1. PICK a \in Nat, c \in Nat : q = n + 1 + a /\ n = -q + 1 + c
        <5>1. q - n - 1 \in Nat /\ q = n + 1 + (q - n - 1) /\ n + q - 1 \in Nat /\ n = -q + 1 + (n + q - 1)
          BY <3>1
        <5> QED  BY <5>1
      <4>2. q * p = n * p + p + a * p
        BY <3>1, <4>1
      <4>3. n * p = -(q * p) + p + c * p
        BY <3>1, <4>1
      <4>4. a * p \in Nat /\ c * p \in Nat /\ n * p \in Int /\ q * p \in Nat
        BY <3>1, <4>1
      <4> DEFINE np == n * p
                 qp == q * p
                 ap == a * p
                 cp == c * p
      <4>5. np \in Int /\ qp \in Nat /\ ap \in Nat /\ cp \in Nat /\ qp = np + p + ap /\ np = -qp + p + cp
        BY <4>2, <4>3, <4>4
      <4> HIDE DEF np, qp, ap, cp
      <4>6. np < qp /\ -qp < np
        BY <3>1, <4>5
      <4> QED  BY <4>5, <4>6 DEF np, qp
    <3> DEFINE qp == q * p
    <3>4. m \in Int /\ m < qp /\ -qp < m /\ 2 * qp <= Range32 /\ qp \in Nat
      BY <1>2, <3>1, <3>3
    <3> HIDE DEF qp
    <3>5. 2 * m < Range32 - 1 /\ -Range32 <= 2 * m
      BY <1>2, <3>4
    <3>6. Signed(m, Range32) = m
      BY <1>2, <3>4, <3>5, SmallSigned
    <3> QED  BY <3>2, <3>4, <3>6 DEF IsSigned
  <2> QED  BY <2>1, <2>2
<1>5. encodeFloat(f) = s \o t
  BY DEF encodeFloat
<1>6. /\ ~zero => m = f[1] * PowerOf2[d] /\ e = f[2] + bits
      /\ zero => m = 0 /\ e = 0
  OBVIOUS
<1> HIDE DEF m, e
<1>7. s \in Seq(Nat) /\ Len(s) = 4 /\ t \in Seq(Nat) /\ Len(t) = 4
  BY <1>4, IntegerDigits
<1> HIDE DEF s, t
<1>8. /\ s \o t \in Seq(Nat) /\ Len(s \o t) = 8
      /\ Has(packet, position, s) /\ Has(packet, position + 4, t)
  <2>1. Has(packet, position, s) /\ Has(packet, position + Len(s), t)
    BY <1>5, <1>7, HasParts
  <2>2. s \o t \in Seq(Nat) /\ Len(s \o t) = Len(s) + Len(t)
    BY <1>7, ConcatProperties
  <2> QED  BY <1>7, <2>1, <2>2
<1>9. /\ decodeInteger(packet, position) = At(m, position + 4)
      /\ decodeInteger(packet, position + 4) = At(e, (position + 4) + 4)
  <2>1. position + 4 \in Nat
    OBVIOUS
  <2>2. decodeInteger(packet, position) = At(Signed(m, Range32), position + 4)
    BY <1>4, <1>8, DecodeInteger DEF s
  <2>3. decodeInteger(packet, position + 4) = At(Signed(e, Range32), (position + 4) + 4)
    BY <1>4, <1>8, <2>1, DecodeInteger DEF t
  <2> QED  BY <1>4, <2>2, <2>3
<1>10. ~(position + 8 > Len(packet))
  <2>1. (position + 4) + Len(t) <= Len(packet) /\ Len(packet) \in Nat
    BY <1>8, LenProperties DEF Has
  <2> QED  BY <1>7, <2>1
<1> DEFINE factor == scale(e, b)
           value == FloatOf(m * factor[1], factor[2] - MantissaBits)
<1>11. decodeFloat(packet, position, b)
         = At(IF value = <<0, 0>> THEN value ELSE RoundDigits(value), position + 8)
  BY <1>9, <1>10 DEF decodeFloat, At
<1>12. (IF value = <<0, 0>> THEN value ELSE RoundDigits(value)) = f
  <2>1. CASE zero
    <3>1. m = 0 /\ factor[1] \in {1, -1}
      BY <1>6, <2>1 DEF scale
    <3>2. m * factor[1] = 0
      <4> HIDE DEF factor
      <4> QED  BY <3>1
    <3>3. value = <<0, 0>>
      BY <3>2 DEF FloatOf
    <3> HIDE DEF value
    <3> QED  BY <2>1, <3>3
  <2>2. CASE ~zero
    <3>1. factor = <<1, e>>
      <4>1. CASE b.bytes = "char"
        BY <4>1 DEF scale
      <4>2. CASE b.bytes # "char"
        <5>1. e \in 2 - ShiftBits .. ShiftBits - 2
          BY <1>1, <1>6, <2>2, <4>2
        <5> DEFINE a == IF e < 0 THEN -e ELSE e
        <5>2. a \in 0 .. ShiftBits - 1 /\ a # ShiftBits - 1 /\ (IF e < 0 THEN -a ELSE a) = e
          BY <1>2, <1>4, <5>1
        <5> HIDE DEF a
        <5>3. a % ShiftBits = a
          BY <1>2, <5>2, SmallRemainder
        <5>4. factor = <<IF a = ShiftBits - 1 THEN -1 ELSE 1, IF e < 0 THEN -a ELSE a>>
          BY <4>2, <5>3 DEF scale, a
        <5> QED  BY <5>2, <5>4
      <4> QED  BY <4>1, <4>2
    <3>2. factor[1] = 1 /\ factor[2] = e
      BY <3>1
    <3> HIDE DEF factor
    <3>3. m * factor[1] = m
      BY <1>4, <3>2
    <3>4. FloatOf(m, e - MantissaBits) = <<f[1], (e - MantissaBits) + d>> /\ m # 0
      <4>1. f[1] \in Int /\ f[1] % 2 = 1 /\ d \in Nat /\ e - MantissaBits \in Int
        BY <1>1, <1>2, <1>3, <1>4, <2>2
      <4> HIDE DEF d
      <4> QED  BY <1>6, <2>2, <4>1, FloatOfOdd
    <3>5. (e - MantissaBits) + d = f[2]
      <4>1. e = f[2] + bits /\ f[2] \in Int /\ bits \in Nat
        BY <1>1, <1>3, <1>6, <2>2
      <4> HIDE DEF bits
      <4> QED  BY <1>2, <4>1
    <3>6. value = f
      BY <1>1, <2>2, <3>2, <3>3, <3>4, <3>5
    <3> HIDE DEF value
    <3> QED  BY <1>1, <2>2, <3>6
  <2> QED  BY <2>1, <2>2
<1> QED  BY <1>5, <1>8, <1>11, <1>12

-----------------------------------------------------------------------------
(* The order of names *)

\* a is before b because of their bytes behind the first n.
BeforeAt(a, b, n) ==
  /\ \A i \in 1 .. n : i <= Len(b) /\ a[i] = b[i]
  /\ n < Len(b) /\ (n = Len(a) \/ a[n + 1] < b[n + 1])

LEMMA BeforeIsBeforeAt ==
  ASSUME NEW a, NEW b
  PROVE  Before(a, b) <=> \E n \in 0 .. Len(a) : BeforeAt(a, b, n)
BY DEF Before, BeforeAt

LEMMA BeforeIrreflexive ==
  ASSUME NEW a \in Seq(Nat)
  PROVE  ~Before(a, a)
<1>1. SUFFICES ASSUME Before(a, a) PROVE FALSE
  OBVIOUS
<1>2. PICK n \in 0 .. Len(a) : BeforeAt(a, a, n)
  BY <1>1, BeforeIsBeforeAt
<1>3. Len(a) \in Nat /\ n < Len(a) /\ (n = Len(a) \/ a[n + 1] < a[n + 1])
  BY <1>2, LenProperties DEF BeforeAt
<1>4. a[n + 1] \in Nat
  <2>1. n + 1 \in 1 .. Len(a)
    BY <1>3
  <2> QED  BY <2>1, ElementOfSeq
<1> QED  BY <1>3, <1>4

LEMMA BeforeTransitive ==
  ASSUME NEW a \in Seq(Nat), NEW b \in Seq(Nat), NEW c \in Seq(Nat), Before(a, b), Before(b, c)
  PROVE  Before(a, c)
<1>1. PICK m \in 0 .. Len(a) : BeforeAt(a, b, m)
  BY BeforeIsBeforeAt
<1>2. PICK n \in 0 .. Len(b) : BeforeAt(b, c, n)
  BY BeforeIsBeforeAt
<1>3. Len(a) \in Nat /\ Len(b) \in Nat /\ Len(c) \in Nat /\ m \in Nat /\ n \in Nat
  BY <1>1, <1>2, LenProperties
<1>4. /\ \A i \in 1 .. Len(a) : a[i] \in Nat
      /\ \A i \in 1 .. Len(b) : b[i] \in Nat
      /\ \A i \in 1 .. Len(c) : c[i] \in Nat
  BY ElementOfSeq
<1>5. /\ \A i \in 1 .. m : i <= Len(b) /\ a[i] = b[i]
      /\ m < Len(b) /\ (m = Len(a) \/ a[m + 1] < b[m + 1])
  BY <1>1 DEF BeforeAt
<1>6. /\ \A i \in 1 .. n : i <= Len(c) /\ b[i] = c[i]
      /\ n < Len(c) /\ (n = Len(b) \/ b[n + 1] < c[n + 1])
  BY <1>2 DEF BeforeAt
<1>7. CASE m < n
  <2>1. m + 1 \in 1 .. n /\ \A i \in 1 .. m : i \in 1 .. n
    BY <1>3, <1>7
  <2>2. \A i \in 1 .. m : i <= Len(c) /\ a[i] = c[i]
    BY <1>5, <1>6, <2>1
  <2>3. m < Len(c) /\ (m = Len(a) \/ a[m + 1] < c[m + 1])
    BY <1>3, <1>5, <1>6, <1>7, <2>1
  <2>4. BeforeAt(a, c, m)
    BY <2>2, <2>3 DEF BeforeAt
  <2> QED  BY <1>1, <2>4, BeforeIsBeforeAt
<1>8. CASE n < m
  <2>1. n + 1 \in 1 .. m /\ \A i \in 1 .. n : i \in 1 .. m
    BY <1>3, <1>8
  <2>2. \A i \in 1 .. n : i <= Len(c) /\ a[i] = c[i]
    BY <1>5, <1>6, <2>1
  <2>3. n < Len(c) /\ a[n + 1] < c[n + 1]
    BY <1>3, <1>5, <1>6, <1>8, <2>1
  <2>4. BeforeAt(a, c, n) /\ n \in 0 .. Len(a)
    BY <1>1, <1>3, <1>8, <2>2, <2>3 DEF BeforeAt
  <2> QED  BY <2>4, BeforeIsBeforeAt
<1>9. CASE m = n
  <2>1. \A i \in 1 .. m : i <= Len(c) /\ a[i] = c[i]
    BY <1>5, <1>6, <1>9
  <2>2. b[m + 1] < c[m + 1] /\ m < Len(c)
    BY <1>3, <1>5, <1>6, <1>9
  <2>3. m = Len(a) \/ a[m + 1] < c[m + 1]
    <3>1. CASE m # Len(a)
      <4>1. m + 1 \in 1 .. Len(a) /\ m + 1 \in 1 .. Len(b) /\ m + 1 \in 1 .. Len(c)
        BY <1>1, <1>3, <1>5, <2>2, <3>1, SMTT(30)
      <4>2. a[m + 1] \in Nat /\ b[m + 1] \in Nat /\ c[m + 1] \in Nat /\ a[m + 1] < b[m + 1]
        BY <1>4, <1>5, <3>1, <4>1
      <4> DEFINE x == a[m + 1]  y == b[m + 1]  z == c[m + 1]
      <4>3. x \in Nat /\ y \in Nat /\ z \in Nat /\ x < y /\ y < z
        BY <2>2, <4>2
      <4>4. x < z
        <5> HIDE DEF x, y, z
        <5> QED  BY <4>3
      <4> QED  BY <4>4
    <3> QED  BY <3>1
  <2>4. BeforeAt(a, c, m)
    BY <2>1, <2>2, <2>3 DEF BeforeAt
  <2> QED  BY <1>1, <2>4, BeforeIsBeforeAt
<1> QED  BY <1>3, <1>7, <1>8, <1>9

LEMMA BeforeTotal ==
  ASSUME NEW a \in Seq(Nat), NEW b \in Seq(Nat), ~Before(a, b), ~Before(b, a)
  PROVE  a = b
<1>1. Len(a) \in Nat /\ Len(b) \in Nat
  BY LenProperties
<1>2. (\A i \in 1 .. Len(a) : a[i] \in Nat) /\ \A i \in 1 .. Len(b) : b[i] \in Nat
  BY ElementOfSeq
<1> DEFINE Common(n) == n <= Len(a) /\ n <= Len(b) /\ \A i \in 1 .. n : a[i] = b[i]
           T == {n \in Nat : (n <= Len(a) \/ n <= Len(b)) => Common(n)}
<1>3. 0 \in T
  BY <1>1
<1>4. ASSUME NEW n \in Nat, n \in T PROVE n + 1 \in T
  <2>1. SUFFICES ASSUME n + 1 <= Len(a) \/ n + 1 <= Len(b) PROVE Common(n + 1)
    OBVIOUS
  <2>2. Common(n)
    BY <1>1, <1>4, <2>1
  <2>3. n + 1 <= Len(a)
    <3>1. SUFFICES ASSUME ~(n + 1 <= Len(a)) PROVE FALSE
      OBVIOUS
    <3>2. n = Len(a) /\ n < Len(b) /\ n \in 0 .. Len(a)
      BY <1>1, <2>1, <2>2, <3>1
    <3>3. \A i \in 1 .. n : i <= Len(b) /\ a[i] = b[i]
      BY <1>1, <2>2, <3>2
    <3>4. BeforeAt(a, b, n)
      BY <3>2, <3>3 DEF BeforeAt
    <3> QED  BY <3>2, <3>4, BeforeIsBeforeAt
  <2>4. n + 1 <= Len(b)
    <3>1. SUFFICES ASSUME ~(n + 1 <= Len(b)) PROVE FALSE
      OBVIOUS
    <3>2. n = Len(b) /\ n < Len(a) /\ n \in 0 .. Len(b)
      BY <1>1, <2>1, <2>2, <3>1
    <3>3. \A i \in 1 .. n : i <= Len(a) /\ b[i] = a[i]
      BY <1>1, <2>2, <3>2
    <3>4. BeforeAt(b, a, n)
      BY <3>2, <3>3 DEF BeforeAt
    <3> QED  BY <3>2, <3>4, BeforeIsBeforeAt
  <2>5. a[n + 1] = b[n + 1]
    <3>1. n + 1 \in 1 .. Len(a) /\ n + 1 \in 1 .. Len(b) /\ n \in 0 .. Len(a) /\ n \in 0 .. Len(b)
      BY <1>1, <2>3, <2>4
    <3>2. a[n + 1] \in Nat /\ b[n + 1] \in Nat
      BY <1>2, <3>1
    <3>3. ~(a[n + 1] < b[n + 1])
      <4>1. SUFFICES ASSUME a[n + 1] < b[n + 1] PROVE FALSE
        OBVIOUS
      <4>2. \A i \in 1 .. n : i <= Len(b) /\ a[i] = b[i]
        BY <1>1, <2>2
      <4>3. n < Len(b)
        BY <1>1, <2>4
      <4>4. BeforeAt(a, b, n)
        BY <4>1, <4>2, <4>3 DEF BeforeAt
      <4> QED  BY <3>1, <4>4, BeforeIsBeforeAt
    <3>4. ~(b[n + 1] < a[n + 1])
      <4>1. SUFFICES ASSUME b[n + 1] < a[n + 1] PROVE FALSE
        OBVIOUS
      <4>2. \A i \in 1 .. n : i <= Len(a) /\ b[i] = a[i]
        BY <1>1, <2>2
      <4>3. n < Len(a)
        BY <1>1, <2>3
      <4>4. BeforeAt(b, a, n)
        BY <4>1, <4>2, <4>3 DEF BeforeAt
      <4> QED  BY <3>1, <4>4, BeforeIsBeforeAt
    <3> QED  BY <3>2, <3>3, <3>4
  <2>6. \A i \in 1 .. n + 1 : i \in 1 .. n \/ i = n + 1
    OBVIOUS
  <2> QED  BY <2>2, <2>3, <2>4, <2>5, <2>6
<1> HIDE DEF T
<1>5. \A n \in Nat : n \in T
  BY <1>3, <1>4, NaturalInduction
<1>6. Common(Len(a)) /\ Common(Len(b))
  BY <1>1, <1>5 DEF T
<1>7. Len(a) = Len(b)
  BY <1>1, <1>6
<1> QED  BY <1>6, <1>7, SeqEqual

LEMMA EmptyIsFirst ==
  ASSUME NEW a \in Seq(Nat)
  PROVE  ~Before(a, <<>>)
<1>1. SUFFICES ASSUME NEW n \in 0 .. Len(a), BeforeAt(a, <<>>, n) PROVE FALSE
  BY BeforeIsBeforeAt
<1>2. n < Len(<<>>) /\ Len(<<>>) = 0 /\ Len(a) \in Nat
  BY <1>1, EmptySeq, LenProperties DEF BeforeAt
<1> QED  BY <1>2

-----------------------------------------------------------------------------
(* The names of a struct *)

Sorted(names, n) == \A i, j \in 1 .. n : i < j => Before(names[i], names[j])

\* Every element of a set is before last, but last itself.
IsLast(last, names) == last \in names /\ \A name \in names : name # last => Before(name, last)

\* A set of names that is not empty has a last one.
LEMMA LastName ==
  ASSUME NEW n \in Nat, NEW S \in SUBSET Seq(Nat), IsFiniteSet(S), Cardinality(S) = n + 1
  PROVE  \E last \in S : IsLast(last, S)
<1> DEFINE T == {m \in Nat : \A R \in SUBSET Seq(Nat) :
                   IsFiniteSet(R) /\ Cardinality(R) = m + 1 => \E last \in R : IsLast(last, R)}
<1>1. ASSUME NEW m \in Nat, NEW R \in SUBSET Seq(Nat), IsFiniteSet(R), Cardinality(R) = m + 1
      PROVE  \E x \in R : IsFiniteSet(R \ {x}) /\ Cardinality(R \ {x}) = m
  <2>1. R # {}
    BY <1>1, FS_EmptySet
  <2>2. PICK x : x \in R
    BY <2>1
  <2>3. IsFiniteSet(R \ {x}) /\ Cardinality(R \ {x}) = Cardinality(R) - 1
    BY <1>1, <2>2, FS_RemoveElement
  <2>4. Cardinality(R) - 1 = m
    BY <1>1
  <2> QED  BY <2>2, <2>3, <2>4
<1>2. 0 \in T
  <2>1. SUFFICES ASSUME NEW R \in SUBSET Seq(Nat), IsFiniteSet(R), Cardinality(R) = 0 + 1
                 PROVE  \E last \in R : IsLast(last, R)
    OBVIOUS
  <2>2. PICK x \in R : IsFiniteSet(R \ {x}) /\ Cardinality(R \ {x}) = 0
    BY <1>1, <2>1
  <2>3. R \ {x} = {}
    BY <2>2, FS_EmptySet
  <2> QED  BY <2>2, <2>3 DEF IsLast
<1>3. ASSUME NEW m \in Nat, m \in T PROVE m + 1 \in T
  <2>1. SUFFICES ASSUME NEW R \in SUBSET Seq(Nat), IsFiniteSet(R), Cardinality(R) = (m + 1) + 1
                 PROVE  \E last \in R : IsLast(last, R)
    OBVIOUS
  <2>2. PICK x \in R : IsFiniteSet(R \ {x}) /\ Cardinality(R \ {x}) = m + 1
    BY <1>1, <2>1
  <2>3. R \ {x} \in SUBSET Seq(Nat)
    OBVIOUS
  <2>4. PICK y \in R \ {x} : IsLast(y, R \ {x})
    BY <1>3, <2>2, <2>3
  <2>5. x \in Seq(Nat) /\ y \in Seq(Nat) /\ x # y
    BY <2>4
  <2>6. CASE Before(x, y)
    BY <2>2, <2>4, <2>6 DEF IsLast
  <2>7. CASE ~Before(x, y)
    <3>1. Before(y, x)
      BY <2>5, <2>7, BeforeTotal
    <3>2. ASSUME NEW name \in R, name # x PROVE Before(name, x)
      <4>1. name = y \/ Before(name, y)
        BY <2>4, <3>2 DEF IsLast
      <4>2. name \in Seq(Nat)
        OBVIOUS
      <4> QED  BY <2>5, <3>1, <4>1, <4>2, BeforeTransitive
    <3> QED  BY <2>2, <3>2 DEF IsLast
  <2> QED  BY <2>6, <2>7
<1> HIDE DEF T
<1>4. \A m \in Nat : m \in T
  BY <1>2, <1>3, NaturalInduction
<1>5. n \in T
  BY <1>4
<1> QED  BY <1>5 DEF T

\* The elements of a set of names in their order.
LEMMA SortedNames ==
  ASSUME NEW S \in SUBSET Seq(Nat), IsFiniteSet(S)
  PROVE  \E names \in [1 .. Cardinality(S) -> S] : Sorted(names, Cardinality(S))
<1> DEFINE T == {m \in Nat : \A R \in SUBSET Seq(Nat) :
                   IsFiniteSet(R) /\ Cardinality(R) = m =>
                     \E names \in [1 .. m -> R] : Sorted(names, m)}
<1>1. 0 \in T
  <2>1. SUFFICES ASSUME NEW R \in SUBSET Seq(Nat)
                 PROVE  \E names \in [1 .. 0 -> R] : Sorted(names, 0)
    OBVIOUS
  <2>2. [i \in 1 .. 0 |-> <<>>] \in [1 .. 0 -> R]
    OBVIOUS
  <2>3. \A names : Sorted(names, 0)
    BY DEF Sorted
  <2> QED  BY <2>2, <2>3
<1>2. ASSUME NEW m \in Nat, m \in T PROVE m + 1 \in T
  <2>1. SUFFICES ASSUME NEW R \in SUBSET Seq(Nat), IsFiniteSet(R), Cardinality(R) = m + 1
                 PROVE  \E names \in [1 .. m + 1 -> R] : Sorted(names, m + 1)
    OBVIOUS
  <2>2. PICK last \in R : IsLast(last, R)
    BY <2>1, LastName
  <2>3. IsFiniteSet(R \ {last}) /\ Cardinality(R \ {last}) = m
    <3>1. IsFiniteSet(R \ {last}) /\ Cardinality(R \ {last}) = Cardinality(R) - 1
      BY <2>1, <2>2, FS_RemoveElement
    <3>2. Cardinality(R) - 1 = m
      BY <2>1
    <3> QED  BY <3>1, <3>2
  <2>4. R \ {last} \in SUBSET Seq(Nat)
    OBVIOUS
  <2>5. PICK f \in [1 .. m -> R \ {last}] : Sorted(f, m)
    BY <1>2, <2>3, <2>4
  <2> DEFINE g == [i \in 1 .. m + 1 |-> IF i = m + 1 THEN last ELSE f[i]]
  <2>6. g \in [1 .. m + 1 -> R]
    BY <2>2, <2>5
  <2>7. ASSUME NEW i \in 1 .. m + 1, NEW j \in 1 .. m + 1, i < j PROVE Before(g[i], g[j])
    <3>1. i \in 1 .. m /\ g[i] = f[i] /\ f[i] \in R \ {last}
      BY <2>5, <2>7
    <3>2. CASE j = m + 1
      <4>1. g[j] = last
        BY <3>2
      <4>2. Before(f[i], last)
        BY <2>2, <3>1 DEF IsLast
      <4> QED  BY <3>1, <4>1, <4>2
    <3>3. CASE j # m + 1
      <4>1. j \in 1 .. m /\ g[j] = f[j]
        BY <3>3
      <4>2. Before(f[i], f[j])
        BY <2>5, <2>7, <3>1, <4>1 DEF Sorted
      <4> QED  BY <3>1, <4>1, <4>2
    <3> QED  BY <3>2, <3>3
  <2> HIDE DEF g
  <2> QED  BY <2>6, <2>7 DEF Sorted
<1> HIDE DEF T
<1>3. \A m \in Nat : m \in T
  BY <1>1, <1>2, NaturalInduction
<1>4. Cardinality(S) \in T
  BY <1>3, FS_CardinalityType
<1> QED  BY <1>4 DEF T

\* Names(s) are all names, once each, and only the first of them may be empty.
LEMMA NamesOfStruct ==
  ASSUME NEW s, DOMAIN s \in SUBSET Seq(Nat), IsFiniteSet(DOMAIN s)
  PROVE  /\ Names(s) \in Seq(DOMAIN s) /\ Len(Names(s)) = Cardinality(DOMAIN s)
         /\ DOMAIN Names(s) = 1 .. Len(Names(s))
         /\ \A i, j \in 1 .. Len(Names(s)) : Names(s)[i] = Names(s)[j] => i = j
         /\ \A name \in DOMAIN s : \E i \in 1 .. Len(Names(s)) : Names(s)[i] = name
         /\ \A i \in 1 .. Len(Names(s)) : Names(s)[i] = <<>> => i = 1
<1> DEFINE D == DOMAIN s
           n == Cardinality(D)
           names == Names(s)
<1>1. n \in Nat
  BY FS_CardinalityType
<1>2. \E f \in [1 .. n -> D] : \A i, j \in DOMAIN f : i < j => Before(f[i], f[j])
  <2>1. PICK f \in [1 .. n -> D] : Sorted(f, n)
    BY SortedNames
  <2> QED  BY <2>1 DEF Sorted
<1>3. names \in [1 .. n -> D] /\ \A i, j \in DOMAIN names : i < j => Before(names[i], names[j])
  BY <1>2 DEF Names
<1> HIDE DEF names, n
<1>4. names \in Seq(D) /\ Len(names) = n /\ DOMAIN names = 1 .. n
  BY <1>1, <1>3, SeqDef
<1>5. ASSUME NEW i \in 1 .. n, NEW j \in 1 .. n, i < j
      PROVE  names[i] # names[j] /\ names[j] # <<>>
  <2>1. names[i] \in Seq(Nat) /\ names[j] \in Seq(Nat) /\ Before(names[i], names[j])
    BY <1>3, <1>5
  <2> QED  BY <2>1, BeforeIrreflexive, EmptyIsFirst
<1>6. \A i, j \in 1 .. n : names[i] = names[j] => i = j
  <2>1. ASSUME NEW i \in 1 .. n, NEW j \in 1 .. n, i # j PROVE names[i] # names[j]
    <3>1. i < j \/ j < i
      BY <1>1, <2>1
    <3> QED  BY <1>5, <3>1
  <2> QED  BY <2>1
<1>7. \A i \in 1 .. n : names[i] = <<>> => i = 1
  <2>1. ASSUME NEW i \in 1 .. n, i # 1 PROVE names[i] # <<>>
    <3>1. 1 \in 1 .. n /\ 1 < i
      BY <1>1, <2>1
    <3> QED  BY <1>5, <3>1
  <2> QED  BY <2>1
<1>8. \A name \in D : \E i \in 1 .. n : names[i] = name
  <2>1. names \in Injection(1 .. n, D)
    BY <1>3, <1>4, <1>6 DEF Injection, IsInjective
  <2>2. Cardinality(1 .. n) = n
    BY <1>1, FS_Interval
  <2>3. names \in Surjection(1 .. n, D)
    BY <2>1, <2>2, FS_Injection DEF n
  <2> QED  BY <2>3 DEF Surjection
<1> QED  BY <1>4, <1>6, <1>7, <1>8 DEF names, n

-----------------------------------------------------------------------------
(* Sequences of encoded elements *)

LEMMA SumBounds ==
  ASSUME NEW x \in Nat, NEW y \in Nat, NEW z, NEW w \in Nat, z = x + y, z <= w
  PROVE  x <= w /\ y <= w
OBVIOUS

\* The parts of FlattenSeq(s) in a packet, and what is behind them: part i is
\* between behind[i - 1] and behind[i].
Parts(packet, position, s, behind) ==
  /\ behind[0] = position /\ behind[Len(s)] = position + Len(FlattenSeq(s))
  /\ \A i \in 1 .. Len(s) : /\ behind[i] = behind[i - 1] + Len(s[i])
                            /\ Has(packet, behind[i - 1], s[i])
                            /\ Len(s[i]) <= Len(FlattenSeq(s))

LEMMA FlattenParts ==
  ASSUME NEW packet \in Seq(Nat), NEW position \in Nat, NEW s \in Seq(Seq(Nat)),
         Has(packet, position, FlattenSeq(s))
  PROVE  \E behind \in [0 .. Len(s) -> Nat] : Parts(packet, position, s, behind)
<1>a. Len(s) \in Nat /\ \A i \in 1 .. Len(s) : s[i] \in Seq(Nat) /\ Len(s[i]) \in Nat
  BY LenProperties, ElementOfSeq
<1>1. CASE Len(s) = 0
  <2> DEFINE g == [i \in 0 .. Len(s) |-> position]
  <2>1. FlattenSeq(s) = <<>> /\ Len(FlattenSeq(s)) = 0
    <3>1. s = <<>>
      BY <1>1, EmptySeq
    <3> QED  BY <3>1, FlattenEmpty, EmptySeq
  <2>2. g \in [0 .. Len(s) -> Nat] /\ g[0] = position /\ g[Len(s)] = position
    BY <1>1
  <2> HIDE DEF g
  <2>3. Parts(packet, position, s, g)
    BY <1>1, <2>1, <2>2 DEF Parts
  <2> QED  BY <2>2, <2>3
<1>2. CASE Len(s) # 0
  <2> DEFINE n == Len(s)
  <2>1. PICK f \in [1 .. n -> Seq(Nat)] : Concatenations(s, n, f) /\ FlattenSeq(s) = f[n]
    BY <1>2, FlattenIsConcatenation
  <2>2. n \in Nat \ {0} /\ n \in 1 .. n /\ Len(s) = n
    BY <1>a, <1>2
  <2> HIDE DEF n
  <2>3. \A i \in 1 .. n : f[i] \in Seq(Nat) /\ Len(f[i]) \in Nat
    BY <2>1, LenProperties
  <2>4. ASSUME NEW i \in 1 .. n, i # 1
        PROVE  f[i] = f[i - 1] \o s[i] /\ Len(f[i]) = Len(f[i - 1]) + Len(s[i]) /\ i - 1 \in 1 .. n
    <3>1. i - 1 \in 1 .. n
      BY <2>2, <2>4
    <3>2. f[i] = f[i - 1] \o s[i]
      BY <2>1, <2>4 DEF Concatenations
    <3>3. f[i - 1] \in Seq(Nat) /\ s[i] \in Seq(Nat)
      BY <1>a, <2>2, <2>3, <3>1
    <3> QED  BY <3>1, <3>2, <3>3, ConcatProperties
  <2>5. f[1] = s[1] /\ 1 \in 1 .. n
    BY <2>1, <2>2 DEF Concatenations
  <2> DEFINE T == {d \in Nat : d < n => /\ Has(packet, position, f[n - d])
                                        /\ Len(f[n - d]) <= Len(f[n])}
  <2>6. 0 \in T
    BY <2>1, <2>2, <2>3
  <2>7. ASSUME NEW d \in Nat, d \in T PROVE d + 1 \in T
    <3>1. SUFFICES ASSUME d + 1 < n
                   PROVE  Has(packet, position, f[n - (d + 1)]) /\ Len(f[n - (d + 1)]) <= Len(f[n])
      OBVIOUS
    <3> DEFINE i == n - d
    <3>2. i \in 1 .. n /\ i # 1 /\ n - (d + 1) = i - 1 /\ n \in 1 .. n
      BY <2>2, <3>1
    <3>3. Has(packet, position, f[i]) /\ Len(f[i]) <= Len(f[n])
      BY <2>2, <2>7, <3>1
    <3> HIDE DEF i
    <3>4. f[i] = f[i - 1] \o s[i] /\ Len(f[i]) = Len(f[i - 1]) + Len(s[i]) /\ i - 1 \in 1 .. n
      BY <2>4, <3>2
    <3>5. f[i - 1] \in Seq(Nat) /\ s[i] \in Seq(Nat)
      BY <1>a, <2>2, <2>3, <3>2, <3>4
    <3>6. Has(packet, position, f[i - 1])
      BY <3>3, <3>4, <3>5, HasParts
    <3>7. Len(f[i - 1]) <= Len(f[n])
      <4>1. Len(f[i - 1]) \in Nat /\ Len(s[i]) \in Nat /\ Len(f[n]) \in Nat /\ Len(f[i]) \in Nat
        BY <2>3, <3>2, <3>5, LenProperties
      <4> QED  BY <3>3, <3>4, <4>1, SumBounds
    <3> QED  BY <3>2, <3>6, <3>7
  <2> HIDE DEF T
  <2>8. \A d \in Nat : d \in T
    BY <2>6, <2>7, NaturalInduction
  <2>9. ASSUME NEW i \in 1 .. n PROVE Has(packet, position, f[i]) /\ Len(f[i]) <= Len(f[n])
    <3>1. n - i \in Nat /\ n - i < n /\ n - (n - i) = i
      BY <2>2
    <3>2. n - i \in T
      BY <2>8, <3>1
    <3> QED  BY <3>1, <3>2 DEF T
  <2> DEFINE g == [i \in 0 .. n |-> IF i = 0 THEN position ELSE position + Len(f[i])]
  <2>10. g \in [0 .. n -> Nat]
    BY <2>3
  <2>11. g[0] = position /\ \A i \in 1 .. n : g[i] = position + Len(f[i])
    BY <2>2
  <2> HIDE DEF g
  <2>12. ASSUME NEW i \in 1 .. n
         PROVE  g[i] = g[i - 1] + Len(s[i]) /\ Has(packet, g[i - 1], s[i]) /\ Len(s[i]) <= Len(f[n])
    <3>1. CASE i = 1
      <4>1. i - 1 = 0
        BY <3>1
      <4> QED  BY <2>5, <2>9, <2>11, <3>1, <4>1
    <3>2. CASE i # 1
      <4>1. f[i] = f[i - 1] \o s[i] /\ Len(f[i]) = Len(f[i - 1]) + Len(s[i]) /\ i - 1 \in 1 .. n
        BY <2>4, <3>2
      <4>2. /\ f[i - 1] \in Seq(Nat) /\ s[i] \in Seq(Nat) /\ Len(f[i - 1]) \in Nat /\ Len(s[i]) \in Nat
            /\ Len(f[i]) \in Nat /\ Len(f[n]) \in Nat
        BY <1>a, <2>2, <2>3, <4>1
      <4>3. Has(packet, position + Len(f[i - 1]), s[i])
        BY <2>9, <4>1, <4>2, HasParts
      <4>4. g[i] = position + Len(f[i]) /\ g[i - 1] = position + Len(f[i - 1])
        BY <2>11, <4>1
      <4>5. Len(f[i]) <= Len(f[n])
        BY <2>9
      <4>6. Len(s[i]) <= Len(f[n]) /\ position + Len(f[i]) = (position + Len(f[i - 1])) + Len(s[i])
        <5> DEFINE x == Len(f[i - 1])  y == Len(s[i])  z == Len(f[i])  w == Len(f[n])
        <5>1. x \in Nat /\ y \in Nat /\ w \in Nat /\ z = x + y /\ z <= w
          BY <4>1, <4>2, <4>5
        <5>2. y <= w /\ position + z = (position + x) + y
          <6> HIDE DEF x, y, z, w
          <6> QED  BY <5>1
        <5> QED  BY <5>2
      <4>7. g[i] = g[i - 1] + Len(s[i]) /\ Has(packet, g[i - 1], s[i])
        BY <4>3, <4>4, <4>6
      <4> QED  BY <4>6, <4>7
    <3> QED  BY <3>1, <3>2
  <2>13. Parts(packet, position, s, g)
    BY <2>1, <2>2, <2>11, <2>12 DEF Parts
  <2> QED  BY <2>2, <2>10, <2>13
<1> QED  BY <1>1, <1>2

-----------------------------------------------------------------------------
(* Arrays *)

\* The table d has the value t[q] wherever the packet has the bytes e[q] of an
\* element q, of at most so many bytes.
Reads(packet, e, t, d, elements, size) ==
  \A q \in elements : \A p \in Nat :
    Len(e[q]) <= size /\ Has(packet, p, e[q]) => d[p] = At(t[q], p + Len(e[q]))

LEMMA AppendElement ==
  ASSUME NEW i \in Nat \ {0}, NEW f
  PROVE  Append([k \in 1 .. i - 1 |-> f[k]], f[i]) = [k \in 1 .. i |-> f[k]]
<1> DEFINE s == [k \in 1 .. i - 1 |-> f[k]]
           S == {f[k] : k \in 1 .. i}
<1>1. s \in [1 .. i - 1 -> S] /\ f[i] \in S /\ i - 1 \in Nat /\ \A k \in 1 .. i - 1 : s[k] = f[k]
  OBVIOUS
<1> HIDE DEF s, S
<1>2. s \in Seq(S) /\ Len(s) = i - 1
  BY <1>1, SeqDef
<1> DEFINE r == Append(s, f[i])
<1>3. /\ r \in Seq(S) /\ Len(r) = (i - 1) + 1
      /\ \A k \in 1 .. i - 1 : r[k] = s[k]
      /\ r[(i - 1) + 1] = f[i]
  BY <1>1, <1>2, AppendProperties
<1> HIDE DEF r
<1>4. DOMAIN r = 1 .. i /\ r = [k \in DOMAIN r |-> r[k]]
  <2>1. r \in [1 .. Len(r) -> S] /\ (i - 1) + 1 = i
    BY <1>3, LenProperties
  <2> QED  BY <1>3, <2>1
<1>5. \A k \in 1 .. i : r[k] = f[k]
  <2>1. ASSUME NEW k \in 1 .. i PROVE r[k] = f[k]
    <3>1. CASE k = i
      <4>1. (i - 1) + 1 = i
        OBVIOUS
      <4> QED  BY <1>3, <3>1, <4>1
    <3>2. CASE k # i
      <4>1. k \in 1 .. i - 1
        BY <3>2
      <4> QED  BY <1>1, <1>3, <4>1
    <3> QED  BY <3>1, <3>2
  <2> QED  BY <2>1
<1>6. r = [k \in 1 .. i |-> f[k]]
  BY <1>4, <1>5
<1> QED  BY <1>6 DEF r, s

\* The table d has values[i] wherever the packet has s[i].
ReadsAll(packet, s, values, d) ==
  \A i \in 1 .. Len(s) : \A p \in Nat :
    Len(s[i]) <= Len(FlattenSeq(s)) /\ Has(packet, p, s[i]) => d[p] = At(values[i], p + Len(s[i]))

\* Elements one behind the other are read one after the other.
LEMMA DecodeElements ==
  ASSUME NEW packet \in Seq(Nat), NEW position \in Nat, NEW n \in Nat, NEW s \in Seq(Seq(Nat)),
         Len(s) = n, Has(packet, position, FlattenSeq(s)), NEW values, NEW d,
         ReadsAll(packet, s, values, d)
  PROVE  decodeElements(position, n, d) =
           At([i \in 1 .. n |-> values[i]], position + Len(FlattenSeq(s)))
<1>1. PICK behind \in [0 .. n -> Nat] : Parts(packet, position, s, behind)
  BY FlattenParts
<1> DEFINE Def(f) == [i \in 0 .. n |->
             IF i = 0 THEN At(<<>>, position)
             ELSE LET array   == f[i - 1]
                      element == d[array.position]
                  IN At(Append(array.value, element.value), element.position)]
           read == CHOOSE f : f = Def(f)
           FirstOf(i) == [k \in 1 .. i |-> values[k]]
           h == [i \in 0 .. n |-> At(FirstOf(i), behind[i])]
<1>2. decodeElements(position, n, d) = read[n]
  BY DEF decodeElements
<1>3. ASSUME NEW i \in 1 .. n
      PROVE  /\ i - 1 \in 0 .. n /\ behind[i - 1] \in Nat
             /\ d[behind[i - 1]] = At(values[i], behind[i])
             /\ Append(FirstOf(i - 1), values[i]) = FirstOf(i)
  <2>1. i - 1 \in 0 .. n /\ behind[i - 1] \in Nat
    OBVIOUS
  <2>2. behind[i] = behind[i - 1] + Len(s[i]) /\ Has(packet, behind[i - 1], s[i])
        /\ Len(s[i]) <= Len(FlattenSeq(s))
    BY <1>1 DEF Parts
  <2>3. Append(FirstOf(i - 1), values[i]) = FirstOf(i)
    BY AppendElement
  <2> QED  BY <2>1, <2>2, <2>3 DEF ReadsAll
<1>4. \A i \in 0 .. n : h[i] = At(FirstOf(i), behind[i])
  OBVIOUS
<1>5. FirstOf(0) = <<>> /\ behind[0] = position
  BY <1>1 DEF Parts
<1>6. h = Def(h)
  <2> HIDE DEF FirstOf
  <2>1. \A i \in 0 .. n : h[i] = Def(h)[i]
    <3>1. ASSUME NEW i \in 0 .. n PROVE h[i] = Def(h)[i]
      <4> HIDE DEF h
      <4>1. CASE i = 0
        BY <1>4, <1>5, <4>1
      <4>2. CASE i # 0
        <5>1. i \in 1 .. n /\ i - 1 \in 0 .. n
          BY <4>2
        <5>2. h[i - 1] = At(FirstOf(i - 1), behind[i - 1])
          BY <1>4, <5>1
        <5>3. h[i - 1].value = FirstOf(i - 1) /\ h[i - 1].position = behind[i - 1]
          BY <5>2 DEF At
        <5>4. d[h[i - 1].position] = At(values[i], behind[i])
          BY <1>3, <5>1, <5>3
        <5>5. d[h[i - 1].position].value = values[i] /\ d[h[i - 1].position].position = behind[i]
          BY <5>4 DEF At
        <5>6. Def(h)[i] = At(Append(h[i - 1].value, d[h[i - 1].position].value),
                             d[h[i - 1].position].position)
          BY <4>2
        <5> QED  BY <1>3, <1>4, <5>1, <5>3, <5>5, <5>6
      <4> QED  BY <4>1, <4>2
    <3> QED  BY <3>1
  <2>2. h = [i \in 0 .. n |-> h[i]]
    OBVIOUS
  <2>3. Def(h) = [i \in 0 .. n |-> Def(h)[i]]
    OBVIOUS
  <2> HIDE DEF h, Def
  <2> QED  BY <2>1, <2>2, <2>3
<1>7. read = Def(read)
  <2> HIDE DEF h, Def
  <2> QED  BY <1>6
<1>8. SameSteps(h, read, n)
  <2>1. h[0] = read[0]
    <3> HIDE DEF read, h
    <3>1. h[0] = Def(h)[0] /\ read[0] = Def(read)[0]
      <4> HIDE DEF Def
      <4> QED  BY <1>6, <1>7
    <3> QED  BY <3>1
  <2>2. ASSUME NEW i \in 1 .. n, h[i - 1] = read[i - 1] PROVE h[i] = read[i]
    <3> HIDE DEF read, h
    <3>1. h[i] = Def(h)[i] /\ read[i] = Def(read)[i]
      <4> HIDE DEF Def
      <4> QED  BY <1>6, <1>7
    <3>2. Def(h)[i] = Def(read)[i]
      <4>1. i \in 0 .. n /\ i # 0
        BY <2>2
      <4>2. \A g : Def(g)[i] = At(Append(g[i - 1].value, d[g[i - 1].position].value),
                                 d[g[i - 1].position].position)
        BY <4>1
      <4> HIDE DEF Def
      <4> QED  BY <2>2, <4>2
    <3> HIDE DEF Def
    <3> QED  BY <3>1, <3>2
  <2> HIDE DEF read, h
  <2> QED  BY <2>1, <2>2 DEF SameSteps
<1>9. read[n] = h[n]
  <2> HIDE DEF read, h
  <2> QED  BY <1>8, IterationsAgree
<1>10. behind[n] = position + Len(FlattenSeq(s))
  BY <1>1 DEF Parts
<1> HIDE DEF read
<1> QED  BY <1>2, <1>4, <1>9, <1>10

\* What encode has of elements are bytes.
Bytes(e, elements) == \A q \in elements : e[q] \in Seq(Nat)

LEMMA ElementsBytes ==
  ASSUME NEW elements, NEW e, Bytes(e, elements), NEW a \in Seq(elements)
  PROVE  /\ [i \in DOMAIN a |-> e[a[i]]] \in Seq(Seq(Nat))
         /\ Len([i \in DOMAIN a |-> e[a[i]]]) = Len(a)
         /\ DOMAIN a = 1 .. Len(a) /\ Len(a) \in Nat
         /\ \A i \in 1 .. Len(a) : a[i] \in elements
<1>1. DOMAIN a = 1 .. Len(a) /\ Len(a) \in Nat
  BY LenProperties
<1>2. \A i \in 1 .. Len(a) : a[i] \in elements
  BY ElementOfSeq
<1> DEFINE s == [i \in DOMAIN a |-> e[a[i]]]
<1>3. s \in [1 .. Len(a) -> Seq(Nat)]
  BY <1>1, <1>2 DEF Bytes
<1> HIDE DEF s
<1>4. s \in Seq(Seq(Nat)) /\ Len(s) = Len(a)
  BY <1>1, <1>3, SeqDef
<1> QED  BY <1>1, <1>2, <1>4 DEF s

LEMMA DecodeArray ==
  ASSUME CodecConstants, NEW packet \in Seq(Nat), NEW position \in Nat, NEW a, NEW elements,
         a \in Seq(elements), Len(a) < Range32, NEW e, NEW t, NEW d, NEW size \in Nat,
         Bytes(e, elements), Reads(packet, e, t, d, elements, size),
         Len(FlattenSeq([i \in DOMAIN a |-> e[a[i]]])) <= size,
         Has(packet, position, encodeInteger(Len(a)) \o FlattenSeq([i \in DOMAIN a |-> e[a[i]]]))
  PROVE  decodeArray(packet, position, d) =
           At([i \in DOMAIN a |-> t[a[i]]],
              position + (4 + Len(FlattenSeq([i \in DOMAIN a |-> e[a[i]]]))))
<1> DEFINE s == [i \in DOMAIN a |-> e[a[i]]]
           n == Len(a)
<1>1. /\ s \in Seq(Seq(Nat)) /\ Len(s) = n /\ DOMAIN a = 1 .. n /\ n \in Nat
      /\ \A i \in 1 .. n : a[i] \in elements
  BY ElementsBytes
<1>2. \A i \in 1 .. n : s[i] = e[a[i]]
  BY <1>1
<1>3. Has(packet, position, encodeInteger(n) \o FlattenSeq(s)) /\ Len(FlattenSeq(s)) <= size
  OBVIOUS
<1> HIDE DEF s
<1>4. encodeInteger(n) \in Seq(Nat) /\ Len(encodeInteger(n)) = 4
  BY <1>1, IntegerDigits
<1>5. FlattenSeq(s) \in Seq(Nat) /\ Len(FlattenSeq(s)) \in Nat
  BY <1>1, FlattenType, LenProperties
<1>6. Has(packet, position, encodeInteger(n)) /\ Has(packet, position + 4, FlattenSeq(s))
  BY <1>3, <1>4, <1>5, HasParts
<1>7. decodeUnsigned(packet, position) = At(n, position + 4)
  <2>1. n \in 0 .. Range32 - 1
    BY <1>1, CodecRadix
  <2> HIDE DEF n
  <2> QED  BY <1>6, <2>1, DecodeUnsigned
<1> DEFINE values == [i \in DOMAIN a |-> t[a[i]]]
<1>8. ASSUME NEW i \in 1 .. n, NEW p \in Nat,
             Len(s[i]) <= Len(FlattenSeq(s)), Has(packet, p, s[i])
      PROVE  d[p] = At(values[i], p + Len(s[i]))
  <2>1. s[i] = e[a[i]] /\ a[i] \in elements /\ values[i] = t[a[i]] /\ Len(s[i]) \in Nat
    BY <1>1, <1>2, ElementOfSeq, LenProperties
  <2>2. Len(e[a[i]]) <= size /\ Has(packet, p, e[a[i]])
    <3>1. Len(s[i]) <= size
      BY <1>3, <1>5, <1>8, <2>1
    <3> QED  BY <1>8, <2>1, <3>1
  <2> QED  BY <2>1, <2>2 DEF Reads
<1> HIDE DEF values
<1>9. position + 4 \in Nat /\ ReadsAll(packet, s, values, d)
  BY <1>1, <1>8 DEF ReadsAll
<1> HIDE DEF n
<1>10. decodeElements(position + 4, n, d) =
         At([i \in 1 .. n |-> values[i]], (position + 4) + Len(FlattenSeq(s)))
  BY <1>1, <1>6, <1>9, DecodeElements
<1>11. [i \in 1 .. n |-> values[i]] = values
  BY <1>1 DEF values
<1>12. decodeArray(packet, position, d) = At(values, (position + 4) + Len(FlattenSeq(s)))
  <2>1. decodeArray(packet, position, d) = decodeElements(position + 4, n, d)
    BY <1>7 DEF decodeArray, At
  <2> QED  BY <2>1, <1>10, <1>11
<1>13. (position + 4) + Len(FlattenSeq(s)) = position + (4 + Len(FlattenSeq(s)))
  BY <1>5
<1> QED  BY <1>12, <1>13 DEF values, s

-----------------------------------------------------------------------------
(* Structs *)

LEMMA ElementNames ==
  ASSUME CodecConstants, NEW name, SendableString(name)
  PROVE  SendableString(elementName(name))
<1>1. CASE name = <<>>
  <2>1. <<203>> \in Seq(Nat) /\ Len(<<203>>) = 1
    OBVIOUS
  <2>2. Signed(1, Range32) = 1
    <3> DEFINE w == Range32
    <3>1. w \in Nat \ {0} /\ w >= 81
      BY CodecRadix
    <3> HIDE DEF w
    <3>2. 2 * 1 < w - 1 /\ -w <= 2 * 1 /\ 1 \in Int
      BY <3>1
    <3>3. Signed(1, w) = 1
      BY <3>1, <3>2, SmallSigned
    <3> QED  BY <3>3 DEF w
  <2>3. IsSigned(Len(<<203>>), Range32)
    BY <2>1, <2>2 DEF IsSigned
  <2> QED  BY <1>1, <2>1, <2>3 DEF elementName, Undefined, SendableString
<1>2. CASE name # <<>>
  BY <1>2 DEF elementName
<1> QED  BY <1>1, <1>2

\* The name that an element had before it was sent.
NameFrom(s, m) == IF m = Undefined /\ <<>> \in DOMAIN s THEN <<>> ELSE m

\* What the first i elements of s are when they arrive.
Made(s, t, i) ==
  [m \in {elementName(Names(s)[k]) : k \in 1 .. i} |-> t[s[NameFrom(s, m)]]]

LEMMA InsertNext ==
  ASSUME NEW s, DOMAIN s \in SUBSET Seq(Nat), IsFiniteSet(DOMAIN s), NEW t,
         NEW i \in 1 .. Len(Names(s))
  PROVE  mapInsert(Made(s, t, i - 1), elementName(Names(s)[i]), t[s[Names(s)[i]]]) = Made(s, t, i)
<1> DEFINE N == Names(s)
           n == Len(N)
           x == elementName(N[i])
           old == {elementName(N[k]) : k \in 1 .. i - 1}
           new == {elementName(N[k]) : k \in 1 .. i}
           Old == Made(s, t, i - 1)
<1>1. /\ \A j \in 1 .. n : N[j] \in DOMAIN s
      /\ \A name \in DOMAIN s : \E j \in 1 .. n : N[j] = name
      /\ \A j \in 1 .. n : N[j] = <<>> => j = 1
      /\ n \in Nat
  <2>1. N \in Seq(DOMAIN s) /\ DOMAIN N = 1 .. n
    BY NamesOfStruct
  <2>2. (\A j \in 1 .. n : N[j] \in DOMAIN s) /\ n \in Nat
    BY <2>1, ElementOfSeq, LenProperties
  <2> QED  BY <2>2, NamesOfStruct
<1> HIDE DEF N, n
<1>2. new = old \cup {x}
  <2>1. \A k \in 1 .. i : k \in 1 .. i - 1 \/ k = i
    BY <1>1 DEF n
  <2>2. i \in 1 .. i /\ \A k \in 1 .. i - 1 : k \in 1 .. i
    BY <1>1 DEF n
  <2> QED  BY <2>1, <2>2
<1>3. Old = [m \in old |-> t[s[NameFrom(s, m)]]] /\ Made(s, t, i) = [m \in new |-> t[s[NameFrom(s, m)]]]
  BY DEF Made, N
<1>4. x \notin old => NameFrom(s, x) = N[i]
  <2>1. SUFFICES ASSUME x \notin old PROVE NameFrom(s, x) = N[i]
    OBVIOUS
  <2>2. CASE N[i] = <<>>
    <3>1. x = Undefined /\ <<>> \in DOMAIN s
      BY <1>1, <2>2 DEF elementName, n, N
    <3> QED  BY <2>2, <3>1 DEF NameFrom
  <2>3. CASE N[i] # <<>>
    <3>1. x = N[i]
      BY <2>3 DEF elementName
    <3>2. CASE x = Undefined /\ <<>> \in DOMAIN s
      <4>1. PICK j \in 1 .. n : N[j] = <<>>
        BY <1>1, <3>2
      <4>2. j = 1 /\ i # 1 /\ j \in 1 .. i - 1
        BY <1>1, <2>3, <4>1 DEF n
      <4>3. elementName(N[j]) = Undefined
        BY <4>1 DEF elementName
      <4> QED  BY <2>1, <3>2, <4>2, <4>3
    <3>3. CASE ~(x = Undefined /\ <<>> \in DOMAIN s)
      BY <3>1, <3>3 DEF NameFrom
    <3> QED  BY <3>2, <3>3
  <2> QED  BY <2>2, <2>3
<1> HIDE DEF x, old, new, Old
<1>5. DOMAIN Old = old /\ \A m \in old : Old[m] = t[s[NameFrom(s, m)]]
  BY <1>3
<1>6. mapInsert(Old, x, t[s[N[i]]]) =
        [m \in old \cup {x} |-> IF m \in old THEN Old[m] ELSE t[s[N[i]]]]
  BY <1>5 DEF mapInsert
<1>7. \A m \in old \cup {x} : (IF m \in old THEN Old[m] ELSE t[s[N[i]]]) = t[s[NameFrom(s, m)]]
  BY <1>4, <1>5
<1>8. mapInsert(Old, x, t[s[N[i]]]) = Made(s, t, i)
  BY <1>2, <1>3, <1>6, <1>7
<1> QED  BY <1>8 DEF Old, x, N

\* All elements together.
LEMMA AllMade ==
  ASSUME NEW s, DOMAIN s \in SUBSET Seq(Nat), IsFiniteSet(DOMAIN s), NEW t
  PROVE  /\ Made(s, t, Len(Names(s))) =
              [m \in {IF n = <<>> THEN Undefined ELSE n : n \in DOMAIN s} |->
                 t[s[IF m = Undefined /\ <<>> \in DOMAIN s THEN <<>> ELSE m]]]
         /\ Made(s, t, 0) = NoStruct
<1> DEFINE N == Names(s)
<1>1. /\ \A j \in 1 .. Len(N) : N[j] \in DOMAIN s
      /\ \A name \in DOMAIN s : \E j \in 1 .. Len(N) : N[j] = name
  <2>1. N \in Seq(DOMAIN s)
    BY NamesOfStruct
  <2>2. \A j \in 1 .. Len(N) : N[j] \in DOMAIN s
    BY <2>1, ElementOfSeq
  <2> QED  BY <2>2, NamesOfStruct
<1> HIDE DEF N
<1>2. {elementName(N[k]) : k \in 1 .. Len(N)} = {IF n = <<>> THEN Undefined ELSE n : n \in DOMAIN s}
  BY <1>1 DEF elementName
<1>3. Made(s, t, Len(N)) =
        [m \in {IF n = <<>> THEN Undefined ELSE n : n \in DOMAIN s} |-> t[s[NameFrom(s, m)]]]
  BY <1>2 DEF Made, N
<1>4. Made(s, t, 0) = NoStruct
  BY DEF Made, NoStruct
<1> QED  BY <1>3, <1>4 DEF NameFrom, N

\* The bytes of the elements, in the order of the names.
Elements(s, e) ==
  [i \in DOMAIN Names(s) |-> encodeString(elementName(Names(s)[i])) \o e[s[Names(s)[i]]]]

LEMMA StructBytes ==
  ASSUME CodecConstants, NEW s, NEW elements, SendableStruct(s, elements), NEW e, Bytes(e, elements)
  PROVE  /\ DOMAIN s \in SUBSET Seq(Nat) /\ IsFiniteSet(DOMAIN s)
         /\ Elements(s, e) \in Seq(Seq(Nat)) /\ Len(Elements(s, e)) = Len(Names(s))
         /\ Len(Names(s)) \in 0 .. Range32 - 1
         /\ \A i \in 1 .. Len(Names(s)) :
              /\ Elements(s, e)[i] = encodeString(elementName(Names(s)[i])) \o e[s[Names(s)[i]]]
              /\ SendableString(elementName(Names(s)[i]))
              /\ s[Names(s)[i]] \in elements
<1> DEFINE N == Names(s)
           n == Len(N)
<1>1. DOMAIN s \in SUBSET Seq(Nat) /\ IsFiniteSet(DOMAIN s)
  BY DEF SendableStruct, SendableString
<1>2. N \in Seq(DOMAIN s) /\ n = Cardinality(DOMAIN s) /\ DOMAIN N = 1 .. n
  BY <1>1, NamesOfStruct
<1>3. n \in 0 .. Range32 - 1 /\ n \in Nat
  <2>1. Cardinality(DOMAIN s) \in Nat /\ Cardinality(DOMAIN s) < Range32
    BY <1>1, FS_CardinalityType DEF SendableStruct
  <2>2. Range32 \in Nat
    BY CodecRadix
  <2> HIDE DEF n, N
  <2> QED  BY <1>2, <2>1, <2>2
<1>4. ASSUME NEW i \in 1 .. n
      PROVE  /\ SendableString(elementName(N[i])) /\ s[N[i]] \in elements
             /\ encodeString(elementName(N[i])) \o e[s[N[i]]] \in Seq(Nat)
  <2>1. N[i] \in DOMAIN s
    BY <1>2, ElementOfSeq
  <2> HIDE DEF n, N
  <2>2. SendableString(N[i]) /\ s[N[i]] \in elements
    BY <2>1 DEF SendableStruct
  <2>3. SendableString(elementName(N[i]))
    BY <2>2, ElementNames
  <2>4. encodeString(elementName(N[i])) \in Seq(Nat)
    BY <2>3, StringBytes DEF SendableString
  <2>5. e[s[N[i]]] \in Seq(Nat)
    BY <2>2 DEF Bytes
  <2> QED  BY <2>2, <2>3, <2>4, <2>5, ConcatProperties
<1>5. Elements(s, e) = [i \in 1 .. n |-> encodeString(elementName(N[i])) \o e[s[N[i]]]]
  BY <1>2 DEF Elements
<1> HIDE DEF n
<1>6. Elements(s, e) \in [1 .. n -> Seq(Nat)]
  BY <1>4, <1>5
<1>7. Elements(s, e) \in Seq(Seq(Nat)) /\ Len(Elements(s, e)) = n
  <2> HIDE DEF N
  <2>1. Elements(s, e) \in Seq(Seq(Nat))
    BY <1>3, <1>6, SeqDef
  <2>2. DOMAIN Elements(s, e) = 1 .. n
    BY <1>5
  <2> QED  BY <1>3, <2>1, <2>2, LenProperties
<1>8. \A i \in 1 .. n : Elements(s, e)[i] = encodeString(elementName(N[i])) \o e[s[N[i]]]
  BY <1>5
<1> QED  BY <1>1, <1>3, <1>4, <1>7, <1>8 DEF n

\* Every element is read at its place.
LEMMA DecodeElement ==
  ASSUME CodecConstants, NEW packet \in Seq(Nat), NEW p \in Nat, NEW name, SendableString(name),
         NEW bytes \in Seq(Nat), Has(packet, p, encodeString(name) \o bytes)
  PROVE  /\ decodeString(packet, p) = At(name, p + (4 + Len(name)))
         /\ p + (4 + Len(name)) \in Nat /\ Has(packet, p + (4 + Len(name)), bytes)
         /\ Len(bytes) <= Len(encodeString(name) \o bytes)
         /\ (p + (4 + Len(name))) + Len(bytes) = p + Len(encodeString(name) \o bytes)
<1>1. name \in Seq(Nat) /\ encodeString(name) \in Seq(Nat) /\ Len(encodeString(name)) = 4 + Len(name)
      /\ Len(name) \in Nat /\ Len(bytes) \in Nat
  BY StringBytes, LenProperties DEF SendableString
<1>2. Len(encodeString(name) \o bytes) = (4 + Len(name)) + Len(bytes)
  BY <1>1, ConcatProperties, ZenonT(60)
<1>3. Has(packet, p, encodeString(name)) /\ Has(packet, p + (4 + Len(name)), bytes)
  BY <1>1, HasParts
<1>4. decodeString(packet, p) = At(name, p + (4 + Len(name)))
  BY <1>3, DecodeString
<1>5. /\ p + (4 + Len(name)) \in Nat
      /\ Len(bytes) <= (4 + Len(name)) + Len(bytes)
      /\ (p + (4 + Len(name))) + Len(bytes) = p + ((4 + Len(name)) + Len(bytes))
  BY <1>1
<1> QED  BY <1>2, <1>3, <1>4, <1>5

LEMMA DecodeStruct ==
  ASSUME CodecConstants, NEW packet \in Seq(Nat), NEW position \in Nat, NEW s, NEW elements,
         SendableStruct(s, elements), NEW e, NEW t, NEW d, NEW size \in Nat,
         Bytes(e, elements), Reads(packet, e, t, d, elements, size),
         Len(FlattenSeq(Elements(s, e))) <= size,
         Has(packet, position, encodeInteger(Len(Names(s))) \o FlattenSeq(Elements(s, e)))
  PROVE  decodeStruct(packet, position, d) =
           At(Made(s, t, Len(Names(s))), position + (4 + Len(FlattenSeq(Elements(s, e)))))
<1> DEFINE n == Len(Names(s))
           parts == Elements(s, e)
           name(i) == elementName(Names(s)[i])
           length == decodeUnsigned(packet, position)
           Def(f) == [i \in 0 .. length.value |->
             IF i = 0 THEN At(NoStruct, length.position)
             ELSE LET struct  == f[i - 1]
                      nm      == decodeString(packet, struct.position)
                      element == d[nm.position]
                  IN At(mapInsert(struct.value, nm.value, element.value), element.position)]
           read == CHOOSE f : f = Def(f)
<1>1. decodeStruct(packet, position, d) = read[length.value]
  BY DEF decodeStruct
<1>2. /\ DOMAIN s \in SUBSET Seq(Nat) /\ IsFiniteSet(DOMAIN s)
      /\ parts \in Seq(Seq(Nat)) /\ Len(parts) = n /\ n \in 0 .. Range32 - 1
  BY StructBytes
<1>3. \A i \in 1 .. n :
        /\ parts[i] = encodeString(name(i)) \o e[s[Names(s)[i]]]
        /\ SendableString(name(i)) /\ s[Names(s)[i]] \in elements
  BY StructBytes
<1>4. Has(packet, position, encodeInteger(n) \o FlattenSeq(parts)) /\ Len(FlattenSeq(parts)) <= size
  OBVIOUS
<1>5. DOMAIN s \in SUBSET Seq(Nat) /\ n \in Nat /\ n \in Int /\ \A i \in 1 .. n : i \in 1 .. Len(Names(s))
  BY <1>2, CodecRadix
<1> HIDE DEF parts, n, Def
<1>6. encodeInteger(n) \in Seq(Nat) /\ Len(encodeInteger(n)) = 4
  BY <1>5, IntegerDigits
<1>7. FlattenSeq(parts) \in Seq(Nat) /\ Len(FlattenSeq(parts)) \in Nat
  BY <1>2, FlattenType, LenProperties
<1>8. Has(packet, position, encodeInteger(n)) /\ Has(packet, position + 4, FlattenSeq(parts))
  BY <1>4, <1>6, <1>7, HasParts
<1>9. length = At(n, position + 4)
  BY <1>2, <1>8, DecodeUnsigned
<1>10. length.value = n /\ length.position = position + 4 /\ position + 4 \in Nat
  BY <1>9 DEF At
<1>11. PICK behind \in [0 .. n -> Nat] : Parts(packet, position + 4, parts, behind)
  BY <1>2, <1>8, <1>10, FlattenParts
<1> HIDE DEF length
<1> DEFINE h == [i \in 0 .. n |-> At(Made(s, t, i), behind[i])]
<1>12. \A i \in 0 .. n : h[i].value = Made(s, t, i) /\ h[i].position = behind[i]
  BY DEF At
<1>13. ASSUME NEW i \in 1 .. n
       PROVE  LET struct  == h[i - 1]
                  nm      == decodeString(packet, struct.position)
                  element == d[nm.position]
              IN At(mapInsert(struct.value, nm.value, element.value), element.position) = h[i]
  <2> DEFINE q == s[Names(s)[i]]
             p == behind[i - 1]
             next == p + (4 + Len(name(i)))
  <2>1. i - 1 \in 0 .. n /\ i \in 0 .. n /\ p \in Nat
    BY <1>5
  <2>2. h[i - 1].position = p /\ h[i - 1].value = Made(s, t, i - 1)
    BY <1>12, <2>1
  <2>3. parts[i] = encodeString(name(i)) \o e[q] /\ SendableString(name(i)) /\ q \in elements
    BY <1>3
  <2>4. /\ behind[i] = p + Len(parts[i]) /\ Has(packet, p, parts[i])
        /\ Len(parts[i]) <= Len(FlattenSeq(parts))
    BY <1>2, <1>11 DEF Parts
  <2>5. e[q] \in Seq(Nat) /\ Len(e[q]) \in Nat /\ parts[i] \in Seq(Nat) /\ Len(parts[i]) \in Nat
    BY <1>2, <2>3, ElementOfSeq, LenProperties DEF Bytes
  <2>6. h[i] = At(Made(s, t, i), behind[i])
    BY <2>1
  <2> HIDE DEF q, p, h
  <2>7. Has(packet, p, encodeString(name(i)) \o e[q])
    BY <2>3, <2>4
  <2> HIDE DEF name
  <2>8. /\ decodeString(packet, p) = At(name(i), next) /\ next \in Nat /\ Has(packet, next, e[q])
        /\ Len(e[q]) <= Len(parts[i]) /\ next + Len(e[q]) = p + Len(parts[i])
    <3> DEFINE nm == name(i)  bytes == e[q]
    <3>1. SendableString(nm) /\ bytes \in Seq(Nat) /\ Has(packet, p, encodeString(nm) \o bytes)
      BY <2>3, <2>5, <2>7
    <3>2. parts[i] = encodeString(nm) \o bytes
      BY <2>3
    <3> HIDE DEF nm, bytes, next
    <3>3. /\ decodeString(packet, p) = At(nm, p + (4 + Len(nm)))
          /\ p + (4 + Len(nm)) \in Nat /\ Has(packet, p + (4 + Len(nm)), bytes)
          /\ Len(bytes) <= Len(encodeString(nm) \o bytes)
          /\ (p + (4 + Len(nm))) + Len(bytes) = p + Len(encodeString(nm) \o bytes)
      BY <2>1, <3>1, DecodeElement
    <3>4. next = p + (4 + Len(nm))
      BY DEF next, nm
    <3> QED  BY <3>2, <3>3, <3>4 DEF nm, bytes
  <2> HIDE DEF next
  <2>9. Len(e[q]) <= size
    BY <1>4, <1>7, <2>4, <2>5, <2>8, SMTT(30)
  <2>10. d[next] = At(t[q], behind[i])
    BY <2>3, <2>4, <2>8, <2>9 DEF Reads
  <2>11. mapInsert(Made(s, t, i - 1), name(i), t[q]) = Made(s, t, i)
    BY <1>2, <1>5, InsertNext DEF name, q
  <2>12. /\ decodeString(packet, p).position = next /\ decodeString(packet, p).value = name(i)
         /\ d[next].value = t[q] /\ d[next].position = behind[i]
    BY <2>8, <2>10 DEF At
  <2> QED  BY <2>2, <2>6, <2>11, <2>12
<1>14. h[0] = At(NoStruct, position + 4)
  <2>1. behind[0] = position + 4 /\ 0 \in 0 .. n
    BY <1>5, <1>11 DEF Parts
  <2>2. Made(s, t, 0) = NoStruct
    BY <1>2, <1>5, AllMade
  <2> QED  BY <2>1, <2>2
<1>15. h = Def(h)
  <2>1. \A i \in 0 .. n : h[i] = Def(h)[i]
    <3>1. ASSUME NEW i \in 0 .. n PROVE h[i] = Def(h)[i]
      <4>1. CASE i = 0
        <5> HIDE DEF h
        <5>1. Def(h)[i] = At(NoStruct, length.position)
          BY <1>10, <4>1 DEF Def
        <5> QED  BY <1>10, <1>14, <4>1, <5>1
      <4>2. CASE i # 0
        <5>1. i \in 1 .. n
          BY <4>2
        <5>2. Def(h)[i] = LET struct  == h[i - 1]
                              nm      == decodeString(packet, struct.position)
                              element == d[nm.position]
                          IN At(mapInsert(struct.value, nm.value, element.value), element.position)
          <6> HIDE DEF h
          <6> QED  BY <1>10, <4>2 DEF Def
        <5> HIDE DEF h
        <5> QED  BY <1>13, <5>1, <5>2
      <4> QED  BY <4>1, <4>2
    <3> QED  BY <3>1
  <2>2. h = [i \in 0 .. n |-> h[i]]
    OBVIOUS
  <2>3. Def(h) = [i \in 0 .. n |-> Def(h)[i]]
    <3> HIDE DEF h
    <3> QED  BY <1>10 DEF Def
  <2> HIDE DEF h
  <2> QED  BY <2>1, <2>2, <2>3
<1> HIDE DEF h
<1>16. read = Def(read)
  BY <1>15
<1> HIDE DEF read
<1>17. SameSteps(h, read, n)
  <2>1. h[0] = read[0]
    <3>1. h[0] = Def(h)[0] /\ read[0] = Def(read)[0]
      BY <1>15, <1>16
    <3>2. 0 \in 0 .. length.value
      BY <1>5, <1>10
    <3>3. Def(h)[0] = At(NoStruct, length.position) /\ Def(read)[0] = At(NoStruct, length.position)
      BY <3>2 DEF Def
    <3> QED  BY <3>1, <3>3
  <2>2. ASSUME NEW i \in 1 .. n, h[i - 1] = read[i - 1] PROVE h[i] = read[i]
    <3>1. h[i] = Def(h)[i] /\ read[i] = Def(read)[i]
      BY <1>15, <1>16
    <3>2. i \in 0 .. length.value /\ i # 0
      BY <1>5, <1>10
    <3>3. Def(h)[i] = Def(read)[i]
      BY <2>2, <3>2 DEF Def
    <3> QED  BY <3>1, <3>3
  <2> QED  BY <2>1, <2>2 DEF SameSteps
<1>18. read[n] = h[n]
  BY <1>5, <1>17, IterationsAgree
<1>19. h[n] = At(Made(s, t, n), (position + 4) + Len(FlattenSeq(parts)))
  <2>1. behind[n] = (position + 4) + Len(FlattenSeq(parts)) /\ n \in 0 .. n
    BY <1>2, <1>5, <1>11 DEF Parts
  <2> QED  BY <2>1 DEF h
<1>20. (position + 4) + Len(FlattenSeq(parts)) = position + (4 + Len(FlattenSeq(parts)))
  BY <1>7
<1>21. decodeStruct(packet, position, d) = At(Made(s, t, n), position + (4 + Len(FlattenSeq(parts))))
  BY <1>1, <1>10, <1>18, <1>19, <1>20
<1> QED  BY <1>21 DEF parts, n

-----------------------------------------------------------------------------
(* Variables *)

\* A variable is sent as its type and what belongs to the type.
SentType(v, b) == IF v.type = "tInteger" /\ b.forceInteger64 THEN "tInteger64" ELSE v.type
SentNumber(v)  == IF v.type = "tInteger" THEN forced(v) ELSE v.integerValue64
ArrayContent(a, e)  == encodeInteger(Len(a)) \o FlattenSeq([i \in DOMAIN a |-> e[a[i]]])
StructContent(s, e) == encodeInteger(Len(Names(s))) \o FlattenSeq(Elements(s, e))

Content(v, b, e) ==
  CASE SentType(v, b) = "tInteger"   -> encodeInteger(v.integerValue)
    [] SentType(v, b) = "tInteger64" -> encodeInteger64(SentNumber(v))
    [] SentType(v, b) = "tFloat"     -> encodeFloat(v.floatValue)
    [] SentType(v, b) = "tBoolean"   -> encodeBoolean(v.booleanValue)
    [] SentType(v, b) \in {"tString", "tBase64"} -> encodeString(v.stringValue)
    [] SentType(v, b) = "tBinary"    -> encodeString(v.binaryValue)
    [] SentType(v, b) = "tArray"     -> ArrayContent(v.arrayValue, e)
    [] SentType(v, b) = "tStruct"    -> StructContent(v.structValue, e)
    [] SentType(v, b) = "tVoid"      -> <<>>

TypeNames == {"tVoid", "tInteger", "tBoolean", "tString", "tFloat", "tArray",
              "tStruct", "tBase64", "tBinary", "tInteger64"}

LEMMA TypesAreNames ==
  /\ ToSet(Types) \ {"tVariant"} = TypeNames
  /\ ToSet(Types) = TypeNames \cup {"tVariant"}
<1>1. DOMAIN Types = 1 .. 11
  BY DEF Types
<1>2. 1 .. 11 = {1, 2, 3, 4, 5, 6, 7, 8, 9, 10, 11}
  OBVIOUS
<1>3. /\ Types[1] = "tVoid" /\ Types[2] = "tInteger" /\ Types[3] = "tBoolean"
      /\ Types[4] = "tString" /\ Types[5] = "tFloat" /\ Types[6] = "tArray"
      /\ Types[7] = "tStruct" /\ Types[8] = "tBase64" /\ Types[9] = "tBinary"
      /\ Types[10] = "tInteger64" /\ Types[11] = "tVariant"
  BY DEF Types
<1>4. ToSet(Types) = {Types[i] : i \in {1, 2, 3, 4, 5, 6, 7, 8, 9, 10, 11}}
  BY <1>1, <1>2 DEF ToSet
<1>5. ToSet(Types) = TypeNames \cup {"tVariant"}
  BY <1>3, <1>4 DEF TypeNames
<1>6. "tVariant" \notin TypeNames
  BY DEF TypeNames
<1> QED  BY <1>5, <1>6

LEMMA SignedBounds ==
  ASSUME NEW w \in Nat \ {0}, NEW i, IsSigned(i, w)
  PROVE  i \in Int /\ -w <= i /\ i < w
<1> DEFINE u == i % w
<1>1. i \in Int /\ u \in 0 .. w - 1
  BY DEF IsSigned
<1>2. i = IF u < w \div 2 THEN u ELSE u - w
  BY DEF IsSigned, Signed
<1> HIDE DEF u
<1> QED  BY <1>1, <1>2

\* What fits 32 bits fits 64 bits.
LEMMA WiderSigned ==
  ASSUME CodecConstants, NEW i, IsSigned(i, Range32)
  PROVE  IsSigned(i, Range64)
<1> DEFINE r == Range32
           w == r * r
<1>1. r \in Nat /\ r >= 81 /\ Range64 = w
  BY CodecRadix
<1>2. i \in Int /\ -r <= i /\ i < r
  BY <1>1, SignedBounds
<1> HIDE DEF r
<1>3. PICK c \in Nat : r = 81 + c
  <2>1. r - 81 \in Nat /\ r = 81 + (r - 81)
    BY <1>1
  <2> QED  BY <2>1
<1>4. w \in Nat /\ w >= 81 * r
  <2>1. w = 81 * r + c * r /\ c * r \in Nat /\ 81 * r \in Nat
    BY <1>1, <1>3
  <2> DEFINE x == c * r
  <2> HIDE DEF w, x
  <2> QED  BY <1>1, <2>1 DEF x
<1> HIDE DEF w
<1>5. w \in Nat \ {0} /\ 2 * i < w - 1 /\ -w <= 2 * i
  BY <1>1, <1>2, <1>4
<1>6. Signed(i, w) = i
  BY <1>2, <1>5, SmallSigned
<1> QED  BY <1>1, <1>2, <1>6 DEF IsSigned

LEMMA NumberIsSigned ==
  ASSUME CodecConstants, NEW v, NEW b, NEW elements, SendableVariable(v, b, elements),
         SentType(v, b) = "tInteger64"
  PROVE  IsSigned(SentNumber(v), Range64) /\ SentNumber(v) \in Int
<1>1. v.type = "tInteger64" => IsSigned(SentNumber(v), Range64)
  BY DEF SentNumber, SendableVariable
<1>2. v.type = "tInteger" => IsSigned(SentNumber(v), Range64)
  <2>1. SUFFICES ASSUME v.type = "tInteger" PROVE IsSigned(SentNumber(v), Range64)
    OBVIOUS
  <2>2. IsSigned(v.integerValue, Range32) /\ IsSigned(v.integerValue64, Range64)
    BY <2>1 DEF SendableVariable
  <2>3. IsSigned(v.integerValue, Range64)
    BY <2>2, WiderSigned
  <2> QED  BY <2>1, <2>2, <2>3 DEF SentNumber, forced
<1>3. v.type \in {"tInteger", "tInteger64"}
  BY DEF SentType
<1>4. IsSigned(SentNumber(v), Range64)
  BY <1>1, <1>2, <1>3
<1> QED  BY <1>4 DEF IsSigned

LEMMA ThreeParts ==
  ASSUME NEW x \in Seq(Nat), NEW y \in Seq(Nat), NEW z \in Seq(Nat)
  PROVE  /\ y \o z \in Seq(Nat) /\ Len(y \o z) = Len(y) + Len(z)
         /\ x \o (y \o z) = (x \o y) \o z
<1>1. y \o z \in Seq(Nat) /\ Len(y \o z) = Len(y) + Len(z)
  BY ConcatProperties
<1>2. (x \o y) \o z = x \o (y \o z)
  BY ConcatAssociative, SMTT(30)
<1> QED  BY <1>1, <1>2

LEMMA ArrayContentBytes ==
  ASSUME CodecConstants, NEW elements, NEW e, Bytes(e, elements), NEW a \in Seq(elements)
  PROVE  /\ ArrayContent(a, e) \in Seq(Nat)
         /\ Len(ArrayContent(a, e)) = 4 + Len(FlattenSeq([i \in DOMAIN a |-> e[a[i]]]))
         /\ Len(FlattenSeq([i \in DOMAIN a |-> e[a[i]]])) \in Nat
         /\ encodeType("tArray") \o ArrayContent(a, e) = encodeArray(a, e)
<1> DEFINE s == [i \in DOMAIN a |-> e[a[i]]]
           n == Len(a)
<1>1. s \in Seq(Seq(Nat)) /\ n \in Int
  BY ElementsBytes
<1>2. encodeInteger(n) \in Seq(Nat) /\ Len(encodeInteger(n)) = 4
  <2> HIDE DEF n
  <2> QED  BY <1>1, IntegerDigits
<1>3. FlattenSeq(s) \in Seq(Nat) /\ Len(FlattenSeq(s)) \in Nat
  <2> HIDE DEF s
  <2> QED  BY <1>1, FlattenType, LenProperties
<1>4. encodeType("tArray") \in Seq(Nat)
  <2>1. "tArray" \in ToSet(Types)
    BY TypesAreNames DEF TypeNames
  <2> QED  BY <2>1, TypeBytes
<1> DEFINE x == encodeType("tArray")  y == encodeInteger(n)  z == FlattenSeq(s)
<1>5. encodeArray(a, e) = (x \o y) \o z /\ ArrayContent(a, e) = y \o z
  BY DEF encodeArray, ArrayContent
<1>6. x \in Seq(Nat) /\ y \in Seq(Nat) /\ z \in Seq(Nat) /\ Len(y) = 4 /\ Len(z) \in Nat
  BY <1>2, <1>3, <1>4
<1>7. y \o z \in Seq(Nat) /\ Len(y \o z) = 4 + Len(z) /\ x \o (y \o z) = (x \o y) \o z
  <2> HIDE DEF x, y, z
  <2>1. x \o (y \o z) = (x \o y) \o z /\ y \o z \in Seq(Nat) /\ Len(y \o z) = Len(y) + Len(z)
    BY <1>6, ThreeParts, ZenonT(60)
  <2> QED  BY <1>6, <2>1
<1> QED  BY <1>5, <1>6, <1>7

LEMMA StructContentBytes ==
  ASSUME CodecConstants, NEW elements, NEW e, Bytes(e, elements), NEW s, SendableStruct(s, elements)
  PROVE  /\ StructContent(s, e) \in Seq(Nat)
         /\ Len(StructContent(s, e)) = 4 + Len(FlattenSeq(Elements(s, e)))
         /\ Len(FlattenSeq(Elements(s, e))) \in Nat
         /\ encodeType("tStruct") \o StructContent(s, e) = encodeStruct(s, e)
<1> DEFINE n == Len(Names(s))
           x == encodeType("tStruct")  y == encodeInteger(n)  z == FlattenSeq(Elements(s, e))
<1>1. Elements(s, e) \in Seq(Seq(Nat)) /\ n \in 0 .. Range32 - 1
  BY StructBytes
<1>2. y \in Seq(Nat) /\ Len(y) = 4
  <2>1. n \in Int
    BY <1>1, CodecRadix
  <2> HIDE DEF n
  <2> QED  BY <2>1, IntegerDigits
<1>3. z \in Seq(Nat) /\ Len(z) \in Nat
  BY <1>1, FlattenType, LenProperties
<1>4. x \in Seq(Nat)
  <2>1. "tStruct" \in ToSet(Types)
    BY TypesAreNames DEF TypeNames
  <2> QED  BY <2>1, TypeBytes
<1>5. encodeStruct(s, e) = (x \o y) \o z /\ StructContent(s, e) = y \o z
  BY DEF encodeStruct, StructContent, Elements
<1>6. y \o z \in Seq(Nat) /\ Len(y \o z) = 4 + Len(z) /\ x \o (y \o z) = (x \o y) \o z
  <2> HIDE DEF x, y, z
  <2>1. x \o (y \o z) = (x \o y) \o z /\ y \o z \in Seq(Nat) /\ Len(y \o z) = Len(y) + Len(z)
    BY <1>2, <1>3, <1>4, ThreeParts
  <2> QED  BY <1>2, <2>1
<1> QED  BY <1>2, <1>3, <1>5, <1>6

LEMMA Integer64Bytes ==
  ASSUME CodecConstants, NEW i \in Int
  PROVE  encodeInteger64(i) \in Seq(Nat) /\ Len(encodeInteger64(i)) = 8
<1> DEFINE s == encodeInteger(i \div Range32)
           t == encodeInteger(i)
<1>1. s \in Seq(Nat) /\ Len(s) = 4 /\ t \in Seq(Nat) /\ Len(t) = 4
  <2>1. i \div Range32 \in Int
    BY CodecRadix, IntegerDivision
  <2> QED  BY <2>1, IntegerDigits
<1> HIDE DEF s, t
<1>2. s \o t \in Seq(Nat) /\ Len(s \o t) = Len(s) + Len(t)
  BY <1>1, ConcatProperties
<1>3. s \o t \in Seq(Nat) /\ Len(s \o t) = 8
  BY <1>1, <1>2
<1> QED  BY <1>3 DEF encodeInteger64, s, t

LEMMA FloatBytes ==
  ASSUME CodecConstants, NEW b, NEW f, SendableFloat(f, b)
  PROVE  encodeFloat(f) \in Seq(Nat) /\ Len(encodeFloat(f)) = 8
<1>1. ASSUME NEW m \in Int, NEW e \in Int
      PROVE  encodeInteger(m) \o encodeInteger(e) \in Seq(Nat) /\ Len(encodeInteger(m) \o encodeInteger(e)) = 8
  <2> DEFINE s == encodeInteger(m)
             t == encodeInteger(e)
  <2>1. s \in Seq(Nat) /\ Len(s) = 4 /\ t \in Seq(Nat) /\ Len(t) = 4
    BY IntegerDigits
  <2> HIDE DEF s, t
  <2>2. s \o t \in Seq(Nat) /\ Len(s \o t) = Len(s) + Len(t)
    BY <2>1, ConcatProperties
  <2>3. s \o t \in Seq(Nat) /\ Len(s \o t) = 8
    BY <2>1, <2>2
  <2> QED  BY <2>3 DEF s, t
<1>2. CASE f = <<0, 0>>
  BY <1>1, <1>2 DEF encodeFloat
<1>3. CASE f # <<0, 0>>
  <2> DEFINE size == IF f[1] < 0 THEN -f[1] ELSE f[1]
             bits == BitLength(size)
             d == MantissaBits - bits
  <2>1. /\ f \in Int \X Int /\ bits <= MantissaBits
        /\ encodeFloat(f) = encodeInteger(f[1] * PowerOf2[d]) \o encodeInteger(f[2] + bits)
    BY <1>3 DEF SendableFloat, encodeFloat
  <2>2. size \in Nat /\ f[1] \in Int /\ f[2] \in Int
    BY <2>1
  <2>3. bits \in Nat
    <3> HIDE DEF size
    <3> QED  BY <2>2, BitsOfNumber
  <2> HIDE DEF bits, size
  <2>4. d \in Nat
    BY <2>1, <2>3 DEF CodecConstants
  <2>5. PowerOf2[d] \in Nat
    <3> HIDE DEF d
    <3> QED  BY <2>4, PowerDefined
  <2>6. f[1] * PowerOf2[d] \in Int /\ f[2] + bits \in Int
    BY <2>2, <2>3, <2>5
  <2> QED  BY <1>1, <2>1, <2>6
<1> QED  BY <1>2, <1>3

LEMMA ValueBytes ==
  ASSUME CodecConstants, NEW b, b.forceInteger64 \in BOOLEAN, NEW elements, NEW e, Bytes(e, elements),
         NEW v, SendableVariable(v, b, elements)
  PROVE  /\ SentType(v, b) \in TypeNames /\ Content(v, b, e) \in Seq(Nat)
         /\ encodeValue(v, b, e) = encodeType(SentType(v, b)) \o Content(v, b, e)
<1> DEFINE t == SentType(v, b)
<1>1. v.type \in TypeNames /\ t \in TypeNames /\ encodeType(t) \in Seq(Nat)
  <2>1. v.type \in TypeNames
    BY TypesAreNames DEF SendableVariable
  <2>2. t \in TypeNames
    BY <2>1 DEF SentType, TypeNames
  <2>3. t \in ToSet(Types)
    BY <2>2, TypesAreNames
  <2> HIDE DEF t
  <2> QED  BY <2>1, <2>2, <2>3, TypeBytes
<1>2. CASE v.type = "tVoid"
  <2>1. t = "tVoid" /\ Content(v, b, e) = <<>> /\ encodeValue(v, b, e) = encodeType(t)
    BY <1>2 DEF SentType, Content, encodeValue
  <2>2. encodeType(t) \o <<>> = encodeType(t) /\ <<>> \in Seq(Nat)
    BY <1>1, ConcatEmptySeq, EmptySeq
  <2> QED  BY <1>1, <2>1, <2>2
<1>3. CASE v.type = "tInteger" /\ ~b.forceInteger64
  <2>1. /\ t = "tInteger" /\ Content(v, b, e) = encodeInteger(v.integerValue)
        /\ encodeValue(v, b, e) = encodeType(t) \o encodeInteger(v.integerValue)
    BY <1>3 DEF SentType, Content, encodeValue
  <2>2. v.integerValue \in Int
    BY <1>3 DEF SendableVariable, IsSigned
  <2>3. encodeInteger(v.integerValue) \in Seq(Nat)
    BY <2>2, IntegerDigits
  <2> QED  BY <1>1, <2>1, <2>3
<1>4. CASE v.type = "tInteger64" \/ (v.type = "tInteger" /\ b.forceInteger64)
  <2>1. /\ t = "tInteger64" /\ Content(v, b, e) = encodeInteger64(SentNumber(v))
        /\ encodeValue(v, b, e) = encodeType(t) \o encodeInteger64(SentNumber(v))
    BY <1>4 DEF SentType, SentNumber, Content, encodeValue
  <2>2. SentNumber(v) \in Int
    BY <2>1, NumberIsSigned
  <2>3. encodeInteger64(SentNumber(v)) \in Seq(Nat)
    BY <2>2, Integer64Bytes
  <2> QED  BY <1>1, <2>1, <2>3
<1>5. CASE v.type = "tFloat"
  <2>1. /\ t = "tFloat" /\ Content(v, b, e) = encodeFloat(v.floatValue)
        /\ encodeValue(v, b, e) = encodeType(t) \o encodeFloat(v.floatValue)
    BY <1>5 DEF SentType, Content, encodeValue
  <2>2. SendableFloat(v.floatValue, b)
    BY <1>5 DEF SendableVariable
  <2>3. encodeFloat(v.floatValue) \in Seq(Nat)
    BY <2>2, FloatBytes
  <2> QED  BY <1>1, <2>1, <2>3
<1>6. CASE v.type = "tBoolean"
  <2>1. /\ t = "tBoolean" /\ Content(v, b, e) = encodeBoolean(v.booleanValue)
        /\ encodeValue(v, b, e) = encodeType(t) \o encodeBoolean(v.booleanValue)
    BY <1>6 DEF SentType, Content, encodeValue
  <2>2. encodeBoolean(v.booleanValue) \in Seq(Nat)
    BY DEF encodeBoolean
  <2> QED  BY <1>1, <2>1, <2>2
<1>7. CASE v.type \in {"tString", "tBase64"}
  <2>1. /\ t = v.type /\ Content(v, b, e) = encodeString(v.stringValue)
        /\ encodeValue(v, b, e) = encodeType(t) \o encodeString(v.stringValue)
    BY <1>7 DEF SentType, Content, encodeValue
  <2>2. v.stringValue \in Seq(Nat)
    BY <1>7 DEF SendableVariable, SendableString
  <2>3. encodeString(v.stringValue) \in Seq(Nat)
    BY <2>2, StringBytes
  <2> QED  BY <1>1, <2>1, <2>3
<1>8. CASE v.type = "tBinary"
  <2>1. /\ t = "tBinary" /\ Content(v, b, e) = encodeString(v.binaryValue)
        /\ encodeValue(v, b, e) = encodeType(t) \o encodeString(v.binaryValue)
    BY <1>8, DecodeBinary DEF SentType, Content, encodeValue
  <2>2. v.binaryValue \in Seq(Nat)
    BY <1>8 DEF SendableVariable, SendableString
  <2>3. encodeString(v.binaryValue) \in Seq(Nat)
    BY <2>2, StringBytes
  <2> QED  BY <1>1, <2>1, <2>3
<1>9. CASE v.type = "tArray"
  <2>1. /\ t = "tArray" /\ Content(v, b, e) = ArrayContent(v.arrayValue, e)
        /\ encodeValue(v, b, e) = encodeArray(v.arrayValue, e)
    BY <1>9 DEF SentType, Content, encodeValue
  <2>2. v.arrayValue \in Seq(elements)
    BY <1>9 DEF SendableVariable
  <2>3. /\ ArrayContent(v.arrayValue, e) \in Seq(Nat)
        /\ encodeType("tArray") \o ArrayContent(v.arrayValue, e) = encodeArray(v.arrayValue, e)
    BY <2>2, ArrayContentBytes
  <2> QED  BY <1>1, <2>1, <2>3
<1>10. CASE v.type = "tStruct"
  <2>1. /\ t = "tStruct" /\ Content(v, b, e) = StructContent(v.structValue, e)
        /\ encodeValue(v, b, e) = encodeStruct(v.structValue, e)
    BY <1>10 DEF SentType, Content, encodeValue
  <2>2. SendableStruct(v.structValue, elements)
    BY <1>10 DEF SendableVariable
  <2>3. /\ StructContent(v.structValue, e) \in Seq(Nat)
        /\ encodeType("tStruct") \o StructContent(v.structValue, e) = encodeStruct(v.structValue, e)
    BY <2>2, StructContentBytes
  <2> QED  BY <1>1, <2>1, <2>3
<1>11. \/ v.type = "tVoid"
       \/ (v.type = "tInteger" /\ ~b.forceInteger64)
       \/ (v.type = "tInteger64" \/ (v.type = "tInteger" /\ b.forceInteger64))
       \/ v.type \in {"tFloat", "tBoolean", "tBinary", "tArray", "tStruct"}
       \/ v.type \in {"tString", "tBase64"}
  BY <1>1 DEF TypeNames
<1> QED  BY <1>2, <1>3, <1>4, <1>5, <1>6, <1>7, <1>8, <1>9, <1>10, <1>11

LEMMA VoidType == OfType("tVoid") = Void
<1> DEFINE V == Void
           W == [V EXCEPT !.type = "tVoid"]
<1>1. OfType("tVoid") = W
  BY DEF OfType
<1>2. /\ V.type = "tVoid"
      /\ DOMAIN V = {"type", "errorStruct", "stringValue", "integerValue", "integerValue64",
                     "floatValue", "booleanValue", "arrayValue", "structValue", "binaryValue"}
  BY DEF Void
<1>3. V = [f \in DOMAIN V |-> V[f]]
  BY DEF Void
<1> HIDE DEF V
<1>4. W = [f \in DOMAIN V |-> V[f]]
  BY <1>2
<1> QED  BY <1>1, <1>3, <1>4 DEF V

LEMMA EncodedSize ==
  ASSUME CodecConstants, NEW b, b.forceInteger64 \in BOOLEAN, NEW elements, NEW e, Bytes(e, elements),
         NEW v, SendableVariable(v, b, elements)
  PROVE  encodeValue(v, b, e) \in Seq(Nat) /\ Len(encodeValue(v, b, e)) \in Nat
         /\ Len(encodeValue(v, b, e)) >= 4
<1> DEFINE w == SentType(v, b)
           x == encodeType(w)
           c == Content(v, b, e)
<1>1. w \in TypeNames /\ c \in Seq(Nat) /\ encodeValue(v, b, e) = x \o c
  BY ValueBytes
<1>2. x \in Seq(Nat) /\ Len(x) = 4
  <2>1. w \in ToSet(Types)
    BY <1>1, TypesAreNames
  <2> HIDE DEF w
  <2> QED  BY <2>1, TypeBytes
<1> HIDE DEF x, c
<1>3. x \o c \in Seq(Nat) /\ Len(x \o c) = Len(x) + Len(c) /\ Len(c) \in Nat
  BY <1>1, <1>2, ConcatProperties, LenProperties
<1> QED  BY <1>1, <1>2, <1>3

\* The decoder makes of a variable what Sent says.
LEMMA DecodeVariable ==
  ASSUME CodecConstants, NEW packet \in Seq(Nat), NEW position \in Nat,
         NEW b, b.forceInteger64 \in BOOLEAN, NEW elements, NEW e, NEW t, NEW d, NEW size \in Nat,
         Bytes(e, elements), Reads(packet, e, t, d, elements, size),
         NEW v, SendableVariable(v, b, elements), Has(packet, position, encodeValue(v, b, e)),
         Len(encodeValue(v, b, e)) <= size + 1
  PROVE  decodeVariable(packet, position, b, d) =
           At(SentValue(v, b, t), position + Len(encodeValue(v, b, e)))
<1> DEFINE w == SentType(v, b)
           c == Content(v, b, e)
           p == position + 4
           D == decodeVariable(packet, position, b, d)
           S == SentValue(v, b, t)
           Goal == D = At(S, p + Len(c))
<1>1. /\ w \in TypeNames /\ c \in Seq(Nat) /\ Len(c) \in Nat
      /\ encodeValue(v, b, e) = encodeType(w) \o c
  BY ValueBytes, LenProperties
<1>2. /\ encodeType(w) \in Seq(Nat) /\ Len(encodeType(w)) = 4 /\ w \in ToSet(Types)
  <2>1. w \in ToSet(Types)
    BY <1>1, TypesAreNames
  <2> HIDE DEF w
  <2> QED  BY <2>1, TypeBytes
<1> HIDE DEF w, c
<1>3. Len(encodeValue(v, b, e)) = 4 + Len(c)
  <2> DEFINE x == encodeType(w)
  <2> HIDE DEF x
  <2>1. x \in Seq(Nat) /\ Len(x) = 4 /\ encodeValue(v, b, e) = x \o c
    BY <1>1, <1>2 DEF x
  <2>2. Len(x \o c) = Len(x) + Len(c)
    BY <1>1, <2>1, ConcatProperties
  <2> QED  BY <2>1, <2>2
<1>4. Has(packet, position, encodeType(w)) /\ Has(packet, p, c) /\ p \in Nat
  <2> DEFINE x == encodeType(w)
  <2> HIDE DEF x
  <2>1. x \in Seq(Nat) /\ Len(x) = 4 /\ encodeValue(v, b, e) = x \o c
    BY <1>1, <1>2 DEF x
  <2>2. Has(packet, position, x \o c)
    BY <2>1
  <2>3. Has(packet, position, x) /\ Has(packet, position + Len(x), c)
    BY <1>1, <2>1, <2>2, HasParts
  <2> QED  BY <2>1, <2>3 DEF x
<1>5. decodeType(packet, position) = At(w, p)
  BY <1>2, <1>4, DecodeType
<1>6. decodeType(packet, position).value = w /\ decodeType(packet, position).position = p
  BY <1>5 DEF At
<1>7. Len(c) + 3 <= size
  BY <1>1, <1>3
<1>8. v.type \in TypeNames
  BY TypesAreNames DEF SendableVariable
<1> HIDE DEF p
<1>9. ASSUME w = "tVoid" PROVE Goal
  <2>1. v.type = "tVoid" /\ c = <<>>
    BY <1>9 DEF w, c, SentType, Content
  <2>2. D = At(OfType("tVoid"), p)
    BY <1>6, <1>9 DEF decodeVariable
  <2>3. S = Void /\ OfType("tVoid") = Void
    <3>1. S = Void
      BY <2>1 DEF SentValue
    <3>2. OfType("tVoid") = Void
      BY VoidType
    <3> QED  BY <3>1, <3>2
  <2>4. p + Len(c) = p
    BY <1>4, <2>1
  <2> QED  BY <2>2, <2>3, <2>4
<1>10. ASSUME w = "tInteger" PROVE Goal
  <2>1. v.type = "tInteger" /\ ~b.forceInteger64 /\ c = encodeInteger(v.integerValue)
    BY <1>10 DEF w, c, SentType, Content
  <2>2. IsSigned(v.integerValue, Range32) /\ v.integerValue \in Int
    BY <2>1 DEF SendableVariable, IsSigned
  <2>3. decodeInteger(packet, p) = At(v.integerValue, p + 4) /\ Len(c) = 4
    <3>1. decodeInteger(packet, p) = At(Signed(v.integerValue, Range32), p + 4)
      BY <1>4, <2>1, <2>2, DecodeInteger
    <3>2. Len(c) = 4
      BY <2>1, <2>2, IntegerDigits
    <3> QED  BY <2>2, <3>1, <3>2 DEF IsSigned
  <2>4. D = At(Integer(decodeInteger(packet, p).value), decodeInteger(packet, p).position)
    BY <1>6, <1>10 DEF decodeVariable
  <2>5. S = Integer(v.integerValue)
    BY <2>1 DEF SentValue
  <2>6. decodeInteger(packet, p).value = v.integerValue /\ decodeInteger(packet, p).position = p + 4
    BY <2>3 DEF At
  <2> QED  BY <2>3, <2>4, <2>5, <2>6
<1>11. ASSUME w = "tInteger64" PROVE Goal
  <2> DEFINE n == SentNumber(v)
  <2>1. /\ v.type \in {"tInteger", "tInteger64"} /\ (v.type = "tInteger" => b.forceInteger64)
        /\ c = encodeInteger64(n)
    BY <1>11 DEF w, c, SentType, Content
  <2>2. IsSigned(n, Range64) /\ n \in Int
    BY <1>11, NumberIsSigned DEF w
  <2>3. S = Integer64(n)
    BY <2>1 DEF SentValue, SentNumber, forced
  <2> HIDE DEF n
  <2>4. decodeInteger64(packet, p) = At(n, p + 8) /\ Len(c) = 8
    <3>1. decodeInteger64(packet, p) = At(Signed(n, Range64), p + 8)
      BY <1>4, <2>1, <2>2, DecodeInteger64
    <3>2. Len(c) = 8
      BY <2>1, <2>2, Integer64Bytes
    <3> QED  BY <2>2, <3>1, <3>2 DEF IsSigned
  <2>5. D = At(Integer64(decodeInteger64(packet, p).value), decodeInteger64(packet, p).position)
    BY <1>6, <1>11 DEF decodeVariable
  <2>6. decodeInteger64(packet, p).value = n /\ decodeInteger64(packet, p).position = p + 8
    BY <2>4 DEF At
  <2> QED  BY <2>3, <2>4, <2>5, <2>6
<1>12. ASSUME w = "tFloat" PROVE Goal
  <2> DEFINE f == v.floatValue
  <2>1. v.type = "tFloat" /\ c = encodeFloat(f) /\ S = Float(f)
    BY <1>12 DEF w, c, SentType, Content, SentValue
  <2>2. SendableFloat(f, b)
    BY <2>1 DEF SendableVariable
  <2> HIDE DEF f
  <2>3. decodeFloat(packet, p, b) = At(f, p + 8) /\ Len(c) = 8
    BY <1>4, <2>1, <2>2, DecodeFloat
  <2>4. D = At(Float(decodeFloat(packet, p, b).value), decodeFloat(packet, p, b).position)
    BY <1>6, <1>12 DEF decodeVariable
  <2>5. decodeFloat(packet, p, b).value = f /\ decodeFloat(packet, p, b).position = p + 8
    BY <2>3 DEF At
  <2> QED  BY <2>1, <2>3, <2>4, <2>5
<1>13. ASSUME w = "tBoolean" PROVE Goal
  <2> DEFINE x == v.booleanValue
  <2>1. v.type = "tBoolean" /\ c = encodeBoolean(x) /\ S = Boolean(x)
    BY <1>13 DEF w, c, SentType, Content, SentValue
  <2>2. x \in BOOLEAN
    BY <2>1 DEF SendableVariable
  <2> HIDE DEF x
  <2>3. decodeBoolean(packet, p) = At(x, p + 1)
    BY <1>4, <2>1, <2>2, DecodeBoolean
  <2>4. Len(c) = 1
    BY <2>1 DEF encodeBoolean
  <2>5. D = At(Boolean(decodeBoolean(packet, p).value), decodeBoolean(packet, p).position)
    BY <1>6, <1>13 DEF decodeVariable
  <2>6. decodeBoolean(packet, p).value = x /\ decodeBoolean(packet, p).position = p + 1
    BY <2>3 DEF At
  <2> QED  BY <2>1, <2>4, <2>5, <2>6
<1>14. ASSUME NEW s, SendableString(s), c = encodeString(s)
       PROVE  /\ decodeString(packet, p).value = s
              /\ decodeString(packet, p).position = p + Len(c)
  <2>1. decodeString(packet, p) = At(s, p + (4 + Len(s)))
    BY <1>4, <1>14, DecodeString
  <2>2. Len(c) = 4 + Len(s)
    BY <1>14, StringBytes DEF SendableString
  <2> QED  BY <2>1, <2>2 DEF At
<1>15. ASSUME w \in {"tString", "tBase64"} PROVE Goal
  <2> DEFINE s == v.stringValue
  <2>1. v.type = w /\ c = encodeString(s) /\ S = WithString(OfType(w), s)
    BY <1>15 DEF w, c, SentType, Content, SentValue
  <2>2. SendableString(s)
    BY <1>15, <2>1 DEF SendableVariable
  <2> HIDE DEF s
  <2>3. D = At(WithString(OfType(w), decodeString(packet, p).value), decodeString(packet, p).position)
    BY <1>6, <1>15 DEF decodeVariable
  <2> QED  BY <1>14, <2>1, <2>2, <2>3
<1>16. ASSUME w = "tBinary" PROVE Goal
  <2> DEFINE s == v.binaryValue
  <2>1. v.type = "tBinary" /\ c = encodeString(s) /\ S = Binary(s)
    BY <1>16 DEF w, c, SentType, Content, SentValue
  <2>2. SendableString(s)
    BY <1>16, <2>1 DEF SendableVariable
  <2> HIDE DEF s
  <2>3. D = At(Binary(decodeString(packet, p).value), decodeString(packet, p).position)
    BY <1>6, <1>16 DEF decodeVariable
  <2> QED  BY <1>14, <2>1, <2>2, <2>3
<1>17. ASSUME w = "tArray" PROVE Goal
  <2> DEFINE a == v.arrayValue
             z == FlattenSeq([i \in DOMAIN a |-> e[a[i]]])
             r == [i \in DOMAIN a |-> t[a[i]]]
  <2>1. v.type = "tArray" /\ c = ArrayContent(a, e) /\ S = Array(r)
    BY <1>17 DEF w, c, SentType, Content, SentValue
  <2>2. a \in Seq(elements) /\ Len(a) < Range32
    BY <2>1 DEF SendableVariable
  <2>3. ArrayContent(a, e) = encodeInteger(Len(a)) \o z
    BY DEF ArrayContent
  <2>4. D = At(Array(decodeArray(packet, p, d).value), decodeArray(packet, p, d).position)
    BY <1>6, <1>17 DEF decodeVariable
  <2> HIDE DEF a
  <2>5. Len(c) = 4 + Len(z) /\ Len(z) \in Nat
    BY <2>1, <2>2, ArrayContentBytes
  <2>6. Len(z) <= size /\ Has(packet, p, encodeInteger(Len(a)) \o z)
    <3> HIDE DEF z
    <3> QED  BY <1>4, <1>7, <2>1, <2>3, <2>5
  <2>7. decodeArray(packet, p, d) = At(r, p + (4 + Len(z)))
    BY <1>4, <2>2, <2>6, DecodeArray, SMTT(30)
  <2> HIDE DEF z, r
  <2>8. decodeArray(packet, p, d).value = r /\ decodeArray(packet, p, d).position = p + Len(c)
    BY <2>5, <2>7 DEF At
  <2> QED  BY <2>1, <2>4, <2>8
<1>18. ASSUME w = "tStruct" PROVE Goal
  <2> DEFINE s == v.structValue
             z == FlattenSeq(Elements(s, e))
             r == Made(s, t, Len(Names(s)))
             Faulty(x) == [Struct(x) EXCEPT !.errorStruct = isFault(x)]
  <2>1. v.type = "tStruct" /\ c = StructContent(s, e)
    BY <1>18 DEF w, c, SentType, Content
  <2>2. SendableStruct(s, elements)
    BY <2>1 DEF SendableVariable
  <2>3. StructContent(s, e) = encodeInteger(Len(Names(s))) \o z
    BY DEF StructContent
  <2>4. D = At(Faulty(decodeStruct(packet, p, d).value), decodeStruct(packet, p, d).position)
    BY <1>6, <1>18 DEF decodeVariable
  <2> HIDE DEF s
  <2>5. Len(c) = 4 + Len(z) /\ Len(z) \in Nat
    BY <2>1, <2>2, StructContentBytes
  <2>6. Len(z) <= size /\ Has(packet, p, encodeInteger(Len(Names(s))) \o z)
    <3> HIDE DEF z
    <3> QED  BY <1>4, <1>7, <2>1, <2>3, <2>5
  <2>7. decodeStruct(packet, p, d) = At(r, p + (4 + Len(z)))
    BY <1>4, <2>2, <2>6, DecodeStruct
  <2>8. S = Faulty(r)
    <3> DEFINE names == {IF n = <<>> THEN Undefined ELSE n : n \in DOMAIN s}
               x == [m \in names |-> t[s[IF m = Undefined /\ <<>> \in DOMAIN s THEN <<>> ELSE m]]]
    <3>1. r = x
      <4>1. DOMAIN s \in SUBSET Seq(Nat) /\ IsFiniteSet(DOMAIN s)
        BY <2>2 DEF SendableStruct, SendableString
      <4> QED  BY <4>1, AllMade
    <3>2. S = [Struct(x) EXCEPT !.errorStruct = DOMAIN s = {FaultCode, FaultString}]
      BY <2>1 DEF SentValue, s
    <3>3. isFault(x) <=> DOMAIN s = {FaultCode, FaultString}
      <4>1. DOMAIN x = names
        OBVIOUS
      <4>2. Undefined \notin {FaultCode, FaultString} /\ <<>> \notin {FaultCode, FaultString}
        BY DEF Undefined, FaultCode, FaultString
      <4>3. names = {FaultCode, FaultString} <=> DOMAIN s = {FaultCode, FaultString}
        BY <4>2
      <4> HIDE DEF x, names
      <4> QED  BY <4>1, <4>3 DEF isFault
    <3>4. isFault(x) = (DOMAIN s = {FaultCode, FaultString})
      <4> HIDE DEF x
      <4> QED  BY <3>3 DEF isFault
    <3> HIDE DEF x, r
    <3> QED  BY <3>1, <3>2, <3>4
  <2> HIDE DEF z, r, Faulty
  <2>9. decodeStruct(packet, p, d).value = r /\ decodeStruct(packet, p, d).position = p + Len(c)
    BY <2>5, <2>7 DEF At
  <2> QED  BY <2>1, <2>4, <2>8, <2>9
<1> HIDE DEF Goal
<1>19. Goal
  BY <1>1, <1>9, <1>10, <1>11, <1>12, <1>13, <1>15, <1>16, <1>17, <1>18 DEF TypeNames
<1>20. p + Len(c) = position + (4 + Len(c))
  BY <1>1 DEF p
<1> QED  BY <1>3, <1>19, <1>20 DEF Goal

-----------------------------------------------------------------------------
(* Variables in variables *)

\* Of what e has only the elements of a variable matter.
LEMMA EncodeLocal ==
  ASSUME NEW b, NEW elements, NEW v, SendableVariable(v, b, elements),
         NEW e, NEW f, \A q \in elements : e[q] = f[q]
  PROVE  encodeValue(v, b, e) = encodeValue(v, b, f)
<1>1. CASE v.type = "tArray"
  <2> DEFINE a == v.arrayValue
  <2>1. a \in Seq(elements)
    BY <1>1 DEF SendableVariable
  <2>2. encodeValue(v, b, e) = encodeArray(a, e) /\ encodeValue(v, b, f) = encodeArray(a, f)
    BY <1>1 DEF encodeValue
  <2> HIDE DEF a
  <2>3. DOMAIN a = 1 .. Len(a) /\ \A i \in 1 .. Len(a) : a[i] \in elements
    BY <2>1, ElementOfSeq, LenProperties
  <2>4. [i \in DOMAIN a |-> e[a[i]]] = [i \in DOMAIN a |-> f[a[i]]]
    BY <2>3
  <2>5. encodeArray(a, e) = encodeArray(a, f)
    BY <2>4 DEF encodeArray
  <2> QED  BY <2>2, <2>5
<1>2. CASE v.type = "tStruct"
  <2> DEFINE s == v.structValue
             N == Names(s)
  <2>1. SendableStruct(s, elements)
    BY <1>2 DEF SendableVariable
  <2>2. encodeValue(v, b, e) = encodeStruct(s, e) /\ encodeValue(v, b, f) = encodeStruct(s, f)
    BY <1>2 DEF encodeValue
  <2> HIDE DEF s
  <2>3. DOMAIN s \in SUBSET Seq(Nat) /\ IsFiniteSet(DOMAIN s) /\ \A n \in DOMAIN s : s[n] \in elements
    BY <2>1 DEF SendableStruct, SendableString
  <2>4. N \in Seq(DOMAIN s) /\ DOMAIN N = 1 .. Len(N)
    BY <2>3, NamesOfStruct
  <2> HIDE DEF N
  <2>5. \A i \in DOMAIN N : N[i] \in DOMAIN s
    BY <2>4, ElementOfSeq
  <2>6. Elements(s, e) = Elements(s, f)
    <3>1. \A i \in DOMAIN N : e[s[N[i]]] = f[s[N[i]]]
      BY <2>3, <2>5
    <3>2. [i \in DOMAIN N |-> encodeString(elementName(N[i])) \o e[s[N[i]]]] =
          [i \in DOMAIN N |-> encodeString(elementName(N[i])) \o f[s[N[i]]]]
      BY <3>1
    <3> QED  BY <3>2 DEF Elements, N
  <2>7. encodeStruct(s, e) = encodeStruct(s, f)
    <3>1. \A g : encodeStruct(s, g) =
            encodeType("tStruct") \o encodeInteger(Len(N)) \o FlattenSeq(Elements(s, g))
      BY DEF encodeStruct, Elements, N
    <3> QED  BY <2>6, <3>1
  <2> QED  BY <2>2, <2>7
<1>3. CASE v.type \notin {"tArray", "tStruct"}
  BY <1>3 DEF encodeValue
<1> QED  BY <1>1, <1>2, <1>3

LEMMA SentLocal ==
  ASSUME NEW b, NEW elements, NEW v, SendableVariable(v, b, elements),
         NEW e, NEW f, \A q \in elements : e[q] = f[q]
  PROVE  SentValue(v, b, e) = SentValue(v, b, f)
<1>1. CASE v.type = "tArray"
  <2> DEFINE a == v.arrayValue
  <2>1. a \in Seq(elements)
    BY <1>1 DEF SendableVariable
  <2>2. /\ SentValue(v, b, e) = Array([i \in DOMAIN a |-> e[a[i]]])
        /\ SentValue(v, b, f) = Array([i \in DOMAIN a |-> f[a[i]]])
    BY <1>1 DEF SentValue
  <2> HIDE DEF a
  <2>3. DOMAIN a = 1 .. Len(a) /\ \A i \in 1 .. Len(a) : a[i] \in elements
    BY <2>1, ElementOfSeq, LenProperties
  <2>4. [i \in DOMAIN a |-> e[a[i]]] = [i \in DOMAIN a |-> f[a[i]]]
    BY <2>3
  <2> QED  BY <2>2, <2>4
<1>2. CASE v.type = "tStruct"
  <2> DEFINE s == v.structValue
             names == {IF n = <<>> THEN Undefined ELSE n : n \in DOMAIN s}
             From(n) == IF n = Undefined /\ <<>> \in DOMAIN s THEN <<>> ELSE n
             x(g) == [n \in names |-> g[s[From(n)]]]
             Faulty(y) == [Struct(y) EXCEPT !.errorStruct = DOMAIN s = {FaultCode, FaultString}]
  <2>1. \A n \in DOMAIN s : s[n] \in elements
    BY <1>2 DEF SendableVariable, SendableStruct
  <2>2. SentValue(v, b, e) = Faulty(x(e)) /\ SentValue(v, b, f) = Faulty(x(f))
    BY <1>2 DEF SentValue
  <2>3. x(e) = x(f)
    <3>1. \A n \in names : From(n) \in DOMAIN s
      OBVIOUS
    <3> HIDE DEF names, From, s
    <3> QED  BY <2>1, <3>1
  <2> HIDE DEF x, Faulty
  <2> QED  BY <2>2, <2>3
<1>3. CASE v.type \notin {"tArray", "tStruct"}
  BY <1>3 DEF SentValue
<1> QED  BY <1>1, <1>2, <1>3

\* The variables of so many levels, and null.
Reach(level) == IF level = 0 THEN {} ELSE Below(level)

LEMMA InUnion ==
  ASSUME NEW f, NEW S, NEW p
  PROVE  p \in UNION {f[l] : l \in S} <=> \E l \in S : p \in f[l]
OBVIOUS

LEMMA InBelow ==
  ASSUME NEW level, NEW p
  PROVE  p \in Below(level) <=> p = Null \/ \E l \in 1 .. level - 1 : p \in Levels[l]
<1> DEFINE U == UNION {Levels[l] : l \in 1 .. level - 1}
<1>1. p \in U <=> \E l \in 1 .. level - 1 : p \in Levels[l]
  BY InUnion
<1>2. Below(level) = U \cup {Null}
  BY Zenon DEF Below
<1> HIDE DEF U
<1>3. p \in Below(level) <=> p \in U \/ p = Null
  BY <1>2
<1> QED  BY <1>1, <1>3

\* What is in a variable is of the levels below.
LEMMA ElementsBelow ==
  ASSUME CodecConstants, NEW b, AllSendableTo(b), NEW level \in 0 .. Len(Levels),
         NEW p \in Reach(level + 1)
  PROVE  \E elements \in SUBSET Reach(level) : SendableVariable(pointedTo(p), b, elements)
<1>1. Len(Levels) \in Nat /\ DOMAIN Levels = 1 .. Len(Levels)
  BY LenProperties DEF CodecConstants
<1>2. CASE p = Null
  <2>1. pointedTo(p) = Void
    BY <1>2 DEF pointedTo
  <2>2. Void.type = "tVoid" /\ Void.errorStruct = FALSE
    BY DEF Void
  <2>3. "tVoid" \in ToSet(Types) \ {"tVariant"}
    BY TypesAreNames DEF TypeNames
  <2>4. SendableVariable(Void, b, {})
    BY <2>2, <2>3 DEF SendableVariable
  <2> QED  BY <2>1, <2>4
<1>3. CASE p # Null
  <2>1. p \in Below(level + 1)
    BY DEF Reach
  <2>2. PICK l \in 1 .. (level + 1) - 1 : p \in Levels[l]
    BY <1>3, <2>1, InBelow
  <2>3. l \in DOMAIN Levels /\ l \in 1 .. level /\ level # 0
    BY <1>1, <2>2
  <2>4. SendableVariable(p, b, Below(l))
    BY <2>2, <2>3 DEF AllSendableTo
  <2>5. Below(l) \subseteq Reach(level)
    <3>1. 1 .. l - 1 \subseteq 1 .. level - 1
      BY <2>3
    <3>2. \A q \in Below(l) : q \in Below(level)
      BY <3>1, InBelow
    <3> QED  BY <2>3, <3>2 DEF Reach
  <2>6. pointedTo(p) = p
    BY <1>3 DEF pointedTo
  <2> QED  BY <2>4, <2>5, <2>6
<1> QED  BY <1>2, <1>3

LEMMA ReachAll ==
  ASSUME CodecConstants
  PROVE  /\ Reach(Len(Levels) + 1) = Pointers /\ Len(Levels) \in Nat
         /\ \A level \in 0 .. Len(Levels) + 1 : Reach(level) \subseteq Pointers
<1>1. Len(Levels) \in Nat /\ DOMAIN Levels = 1 .. Len(Levels)
  BY LenProperties DEF CodecConstants
<1>2. \A p : p \in Variables <=> \E l \in 1 .. Len(Levels) : p \in Levels[l]
  BY <1>1 DEF Variables, ToSet
<1>3. (Len(Levels) + 1) - 1 = Len(Levels) /\ Len(Levels) + 1 # 0
  BY <1>1
<1>4. Below(Len(Levels) + 1) = Pointers
  <2>1. \A p : p \in Below(Len(Levels) + 1) <=> p = Null \/ \E l \in 1 .. Len(Levels) : p \in Levels[l]
    BY <1>3, InBelow
  <2>2. \A p : p \in Pointers <=> p = Null \/ \E l \in 1 .. Len(Levels) : p \in Levels[l]
    BY <1>2 DEF Pointers
  <2> QED  BY <2>1, <2>2
<1>5. ASSUME NEW level \in 0 .. Len(Levels) + 1 PROVE Reach(level) \subseteq Pointers
  <2>1. 1 .. level - 1 \subseteq 1 .. Len(Levels)
    BY <1>1
  <2>2. \A p \in Below(level) : p \in Pointers
    BY <1>2, <2>1, InBelow DEF Pointers
  <2> QED  BY <2>2 DEF Reach
<1> QED  BY <1>1, <1>3, <1>4, <1>5 DEF Reach

\* One step of the recursion of encodeVariable and of Sent.
EncodeStep(b, e) == [p \in Pointers |-> encodeValue(pointedTo(p), b, e)]
SentStep(b, t)   == [p \in Pointers |-> SentValue(pointedTo(p), b, t)]
Agree(S, e, f)   == \A q \in S : e[q] = f[q]

LEMMA EncodeNext ==
  ASSUME CodecConstants, NEW b, AllSendableTo(b), NEW level \in 0 .. Len(Levels),
         NEW e, NEW f, Agree(Reach(level), e, f)
  PROVE  Agree(Reach(level + 1), EncodeStep(b, e), EncodeStep(b, f))
<1>1. SUFFICES ASSUME NEW p \in Reach(level + 1) PROVE EncodeStep(b, e)[p] = EncodeStep(b, f)[p]
  BY DEF Agree
<1>2. PICK elements \in SUBSET Reach(level) : SendableVariable(pointedTo(p), b, elements)
  BY ElementsBelow
<1>3. \A q \in elements : e[q] = f[q]
  BY DEF Agree
<1>4. encodeValue(pointedTo(p), b, e) = encodeValue(pointedTo(p), b, f)
  BY <1>2, <1>3, EncodeLocal
<1>5. p \in Pointers
  <2>1. level + 1 \in 0 .. Len(Levels) + 1
    BY ReachAll
  <2> QED  BY <2>1, ReachAll
<1> QED  BY <1>4, <1>5 DEF EncodeStep

LEMMA SentNext ==
  ASSUME CodecConstants, NEW b, AllSendableTo(b), NEW level \in 0 .. Len(Levels),
         NEW e, NEW f, Agree(Reach(level), e, f)
  PROVE  Agree(Reach(level + 1), SentStep(b, e), SentStep(b, f))
<1>1. SUFFICES ASSUME NEW p \in Reach(level + 1) PROVE SentStep(b, e)[p] = SentStep(b, f)[p]
  BY DEF Agree
<1>2. PICK elements \in SUBSET Reach(level) : SendableVariable(pointedTo(p), b, elements)
  BY ElementsBelow
<1>3. \A q \in elements : e[q] = f[q]
  BY DEF Agree
<1>4. SentValue(pointedTo(p), b, e) = SentValue(pointedTo(p), b, f)
  BY <1>2, <1>3, SentLocal
<1>5. p \in Pointers
  <2>1. level + 1 \in 0 .. Len(Levels) + 1
    BY ReachAll
  <2> QED  BY <2>1, ReachAll
<1> QED  BY <1>4, <1>5 DEF SentStep

\* The recursive functions exist: level by level.
LEMMA EncodeExists ==
  ASSUME CodecConstants, NEW b, AllSendableTo(b)
  PROVE  \E e : e = EncodeStep(b, e)
<1> DEFINE T == {l \in Nat : l <= Len(Levels) + 1 => \E e : Agree(Reach(l), e, EncodeStep(b, e))}
<1>a. Len(Levels) \in Nat
  BY ReachAll
<1>1. 0 \in T
  BY DEF Reach, Agree
<1>2. ASSUME NEW l \in Nat, l \in T PROVE l + 1 \in T
  <2>1. SUFFICES ASSUME l + 1 <= Len(Levels) + 1
                 PROVE  \E e : Agree(Reach(l + 1), e, EncodeStep(b, e))
    OBVIOUS
  <2>2. PICK e : Agree(Reach(l), e, EncodeStep(b, e))
    BY <1>a, <1>2, <2>1
  <2>3. l \in 0 .. Len(Levels)
    BY <1>a, <2>1
  <2>4. Agree(Reach(l + 1), EncodeStep(b, e), EncodeStep(b, EncodeStep(b, e)))
    BY <2>2, <2>3, EncodeNext
  <2> QED  BY <2>4
<1> HIDE DEF T
<1>3. \A l \in Nat : l \in T
  BY <1>1, <1>2, NaturalInduction
<1>4. Len(Levels) + 1 \in T
  BY <1>a, <1>3
<1>5. PICK e : Agree(Reach(Len(Levels) + 1), e, EncodeStep(b, e))
  BY <1>a, <1>4 DEF T
<1> DEFINE f == EncodeStep(b, e)
<1>6. Agree(Reach(Len(Levels)), e, f)
  <2>1. Reach(Len(Levels)) \subseteq Reach(Len(Levels) + 1)
    <3>1. Len(Levels) \in 0 .. Len(Levels) + 1
      BY <1>a
    <3> QED  BY <3>1, ReachAll
  <2> QED  BY <1>5, <2>1 DEF Agree
<1>7. Agree(Reach(Len(Levels) + 1), f, EncodeStep(b, f))
  <2>1. Len(Levels) \in 0 .. Len(Levels)
    BY <1>a
  <2> HIDE DEF f
  <2>2. Agree(Reach(Len(Levels) + 1), EncodeStep(b, e), EncodeStep(b, f))
    BY <1>6, <2>1, EncodeNext
  <2> QED  BY <2>2 DEF f
<1>8. f = EncodeStep(b, f)
  <2>1. \A q \in Pointers : f[q] = EncodeStep(b, f)[q]
    <3> HIDE DEF f
    <3> QED  BY <1>7, ReachAll DEF Agree
  <2>2. f = [q \in Pointers |-> f[q]]
    BY DEF EncodeStep
  <2> HIDE DEF f
  <2>3. EncodeStep(b, f) = [q \in Pointers |-> EncodeStep(b, f)[q]]
    BY DEF EncodeStep
  <2> QED  BY <2>1, <2>2, <2>3
<1> QED  BY <1>8

LEMMA SentExists ==
  ASSUME CodecConstants, NEW b, AllSendableTo(b)
  PROVE  \E e : e = SentStep(b, e)
<1> DEFINE T == {l \in Nat : l <= Len(Levels) + 1 => \E e : Agree(Reach(l), e, SentStep(b, e))}
<1>a. Len(Levels) \in Nat
  BY ReachAll
<1>1. 0 \in T
  BY DEF Reach, Agree
<1>2. ASSUME NEW l \in Nat, l \in T PROVE l + 1 \in T
  <2>1. SUFFICES ASSUME l + 1 <= Len(Levels) + 1
                 PROVE  \E e : Agree(Reach(l + 1), e, SentStep(b, e))
    OBVIOUS
  <2>2. PICK e : Agree(Reach(l), e, SentStep(b, e))
    BY <1>a, <1>2, <2>1
  <2>3. l \in 0 .. Len(Levels)
    BY <1>a, <2>1
  <2>4. Agree(Reach(l + 1), SentStep(b, e), SentStep(b, SentStep(b, e)))
    BY <2>2, <2>3, SentNext
  <2> QED  BY <2>4
<1> HIDE DEF T
<1>3. \A l \in Nat : l \in T
  BY <1>1, <1>2, NaturalInduction
<1>4. Len(Levels) + 1 \in T
  BY <1>a, <1>3
<1>5. PICK e : Agree(Reach(Len(Levels) + 1), e, SentStep(b, e))
  BY <1>a, <1>4 DEF T
<1> DEFINE f == SentStep(b, e)
<1>6. Agree(Reach(Len(Levels)), e, f)
  <2>1. Reach(Len(Levels)) \subseteq Reach(Len(Levels) + 1)
    <3>1. Len(Levels) \in 0 .. Len(Levels) + 1
      BY <1>a
    <3> QED  BY <3>1, ReachAll
  <2> QED  BY <1>5, <2>1 DEF Agree
<1>7. Agree(Reach(Len(Levels) + 1), f, SentStep(b, f))
  <2>1. Len(Levels) \in 0 .. Len(Levels)
    BY <1>a
  <2> HIDE DEF f
  <2>2. Agree(Reach(Len(Levels) + 1), SentStep(b, e), SentStep(b, f))
    BY <1>6, <2>1, SentNext
  <2> QED  BY <2>2 DEF f
<1>8. f = SentStep(b, f)
  <2>1. \A q \in Pointers : f[q] = SentStep(b, f)[q]
    <3> HIDE DEF f
    <3> QED  BY <1>7, ReachAll DEF Agree
  <2>2. f = [q \in Pointers |-> f[q]]
    BY DEF SentStep
  <2> HIDE DEF f
  <2>3. SentStep(b, f) = [q \in Pointers |-> SentStep(b, f)[q]]
    BY DEF SentStep
  <2> QED  BY <2>1, <2>2, <2>3
<1> QED  BY <1>8

-----------------------------------------------------------------------------
(* The round trip *)

\* The recursive functions of encodeVariable and Sent.
Encoded(b)   == CHOOSE e : e = EncodeStep(b, e)
SentAs(b)    == CHOOSE t : t = SentStep(b, t)

LEMMA EncodedIsStep ==
  ASSUME CodecConstants, NEW b, AllSendableTo(b)
  PROVE  /\ Encoded(b) = EncodeStep(b, Encoded(b)) /\ SentAs(b) = SentStep(b, SentAs(b))
         /\ \A p : encodeVariable(p, b) = Encoded(b)[p] /\ Sent(p, b) = SentAs(b)[p]
<1>1. Encoded(b) = EncodeStep(b, Encoded(b))
  <2>1. \E e : e = EncodeStep(b, e)
    BY EncodeExists
  <2> HIDE DEF EncodeStep
  <2> QED  BY <2>1 DEF Encoded
<1>2. SentAs(b) = SentStep(b, SentAs(b))
  <2>1. \E t : t = SentStep(b, t)
    BY SentExists
  <2> HIDE DEF SentStep
  <2> QED  BY <2>1 DEF SentAs
<1>3. ASSUME NEW p PROVE encodeVariable(p, b) = Encoded(b)[p]
  BY DEF encodeVariable, Encoded, EncodeStep
<1>4. ASSUME NEW p PROVE Sent(p, b) = SentAs(b)[p]
  BY DEF Sent, SentAs, SentStep
<1> QED  BY <1>1, <1>2, <1>3, <1>4

\* The recursive function of decodedAt.
TableStep(packet, b, f) ==
  [depth \in 0 .. Len(packet) |->
     [p \in Nat |-> IF depth = 0 THEN At(Void, p) ELSE decodeVariable(packet, p, b, f[depth - 1])]]
Table(packet, b) == CHOOSE f : f = TableStep(packet, b, f)

LEMMA TableIsStep ==
  ASSUME NEW packet \in Seq(Nat), NEW b
  PROVE  /\ Table(packet, b) = TableStep(packet, b, Table(packet, b))
         /\ \A p : decodeParameter(packet, p, b) = Table(packet, b)[Len(packet)][p]
         /\ decodedAt(packet, b) = Table(packet, b)[Len(packet)]
<1> DEFINE Row(depth, r) ==
             [p \in Nat |-> IF depth = 0 THEN At(Void, p) ELSE decodeVariable(packet, p, b, r)]
           Up(f, n) == \A depth \in 0 .. n : f[depth] = Row(depth, f[depth - 1])
           T == {n \in Nat : \E f : Up(f, n)}
<1>1. 0 \in T
  <2> DEFINE f == [depth \in 0 .. 0 |-> [p \in Nat |-> At(Void, p)]]
  <2>1. \A r : Row(0, r) = [p \in Nat |-> At(Void, p)]
    OBVIOUS
  <2>2. \A depth \in 0 .. 0 : f[depth] = Row(depth, f[depth - 1])
    <3>1. \A depth \in 0 .. 0 : depth = 0
      OBVIOUS
    <3> HIDE DEF Row
    <3> QED  BY <2>1, <3>1
  <2> HIDE DEF f
  <2> QED  BY <2>2
<1> HIDE DEF Row
<1>2. ASSUME NEW n \in Nat, n \in T PROVE n + 1 \in T
  <2>1. PICK f : Up(f, n)
    BY <1>2
  <2> DEFINE g == [depth \in 0 .. n + 1 |-> IF depth = n + 1 THEN Row(n + 1, f[n]) ELSE f[depth]]
  <2>2. ASSUME NEW depth \in 0 .. n + 1 PROVE g[depth] = Row(depth, g[depth - 1])
    <3>1. CASE depth = n + 1
      <4>1. depth - 1 = n /\ depth - 1 \in 0 .. n + 1 /\ depth - 1 # n + 1
        BY <3>1
      <4>2. g[depth - 1] = f[n]
        BY <4>1
      <4>3. g[depth] = Row(n + 1, f[n])
        BY <3>1
      <4> QED  BY <3>1, <4>2, <4>3
    <3>2. CASE depth # n + 1 /\ depth # 0
      <4>1. depth \in 0 .. n /\ depth - 1 \in 0 .. n + 1 /\ depth - 1 # n + 1
        BY <3>2
      <4>2. g[depth - 1] = f[depth - 1] /\ g[depth] = f[depth]
        BY <3>2, <4>1
      <4> QED  BY <2>1, <4>1, <4>2
    <3>3. CASE depth = 0
      <4>1. g[0] = f[0] /\ 0 \in 0 .. n
        OBVIOUS
      <4>2. f[0] = Row(0, f[0 - 1])
        BY <2>1, <4>1
      <4>3. \A r, s : Row(0, r) = Row(0, s)
        BY DEF Row
      <4> HIDE DEF g
      <4> QED  BY <3>3, <4>1, <4>2, <4>3
    <3> QED  BY <3>1, <3>2, <3>3
  <2> HIDE DEF g
  <2>3. Up(g, n + 1)
    BY <2>2
  <2> QED  BY <2>3
<1> HIDE DEF T
<1>3. \A n \in Nat : n \in T
  BY <1>1, <1>2, NaturalInduction
<1>4. Len(packet) \in T
  BY <1>3, LenProperties
<1>5. PICK f : Up(f, Len(packet))
  BY <1>4 DEF T
<1> DEFINE h == [depth \in 0 .. Len(packet) |-> f[depth]]
<1>6. h = TableStep(packet, b, h)
  <2>1. ASSUME NEW depth \in 0 .. Len(packet) PROVE h[depth] = Row(depth, h[depth - 1])
    <3>1. h[depth] = f[depth] /\ f[depth] = Row(depth, f[depth - 1])
      BY <1>5
    <3>2. CASE depth = 0
      <4>1. \A r, s : Row(0, r) = Row(0, s)
        BY DEF Row
      <4> HIDE DEF h
      <4> QED  BY <3>1, <3>2, <4>1
    <3>3. CASE depth # 0
      <4>1. depth - 1 \in 0 .. Len(packet)
        BY <3>3, LenProperties
      <4>2. h[depth - 1] = f[depth - 1]
        BY <4>1
      <4> QED  BY <3>1, <4>2
    <3> QED  BY <3>2, <3>3
  <2>2. h = [depth \in 0 .. Len(packet) |-> h[depth]]
    OBVIOUS
  <2>3. TableStep(packet, b, h) = [depth \in 0 .. Len(packet) |-> Row(depth, h[depth - 1])]
    <3> HIDE DEF h
    <3> QED  BY DEF TableStep, Row
  <2> HIDE DEF h
  <2> QED  BY <2>1, <2>2, <2>3
<1>7. Table(packet, b) = TableStep(packet, b, Table(packet, b))
  <2> HIDE DEF h
  <2>1. \E g : g = TableStep(packet, b, g)
    BY <1>6
  <2> HIDE DEF TableStep
  <2> QED  BY <2>1 DEF Table
<1>8. decodedAt(packet, b) = Table(packet, b)[Len(packet)]
  BY DEF decodedAt, Table, TableStep
<1>9. \A p : decodeParameter(packet, p, b) = Table(packet, b)[Len(packet)][p]
  BY <1>8 DEF decodeParameter
<1> QED  BY <1>7, <1>8, <1>9

\* What the encoder writes are bytes, at least four.
LEMMA EncodedBytes ==
  ASSUME CodecConstants, NEW b, b.forceInteger64 \in BOOLEAN, AllSendableTo(b),
         NEW level \in 0 .. Len(Levels) + 1
  PROVE  Bytes(Encoded(b), Reach(level))
<1> DEFINE e == Encoded(b)
           T == {l \in Nat : l <= Len(Levels) + 1 => Bytes(e, Reach(l))}
<1>a. Len(Levels) \in Nat
  BY ReachAll
<1>b. e = EncodeStep(b, e)
  BY EncodedIsStep
<1> HIDE DEF e
<1>1. 0 \in T
  BY DEF Reach, Bytes
<1>2. ASSUME NEW l \in Nat, l \in T PROVE l + 1 \in T
  <2>1. SUFFICES ASSUME l + 1 <= Len(Levels) + 1, NEW p \in Reach(l + 1) PROVE e[p] \in Seq(Nat)
    BY DEF Bytes
  <2>2. Bytes(e, Reach(l)) /\ l \in 0 .. Len(Levels) /\ l + 1 \in 0 .. Len(Levels) + 1
    BY <1>a, <1>2, <2>1
  <2>3. PICK elements \in SUBSET Reach(l) : SendableVariable(pointedTo(p), b, elements)
    BY <2>2, ElementsBelow
  <2>4. Bytes(e, elements)
    BY <2>2 DEF Bytes
  <2>5. encodeValue(pointedTo(p), b, e) \in Seq(Nat)
    BY <2>3, <2>4, EncodedSize
  <2>6. p \in Pointers
    BY <2>2, ReachAll
  <2>7. EncodeStep(b, e)[p] = encodeValue(pointedTo(p), b, e)
    BY <2>6 DEF EncodeStep
  <2> QED  BY <1>b, <2>5, <2>7
<1> HIDE DEF T
<1>3. \A l \in Nat : l \in T
  BY <1>1, <1>2, NaturalInduction
<1>4. level \in T
  BY <1>a, <1>3
<1> QED  BY <1>4 DEF T, e

\* At every depth that may be necessary, and by that at all.
LEMMA DecodeReach ==
  ASSUME CodecConstants, NEW b, b.forceInteger64 \in BOOLEAN, AllSendableTo(b),
         NEW packet \in Seq(Nat), NEW level \in 0 .. Len(Levels) + 1, NEW depth \in 0 .. Len(packet)
  PROVE  Reads(packet, Encoded(b), SentAs(b), Table(packet, b)[depth], Reach(level), depth)
<1> DEFINE e == Encoded(b)
           t == SentAs(b)
           table == Table(packet, b)
           All(l) == \A d \in 0 .. Len(packet) : Reads(packet, e, t, table[d], Reach(l), d)
           T == {l \in Nat : l <= Len(Levels) + 1 => All(l)}
<1>a. Len(Levels) \in Nat /\ Len(packet) \in Nat
  BY ReachAll, LenProperties
<1>b. e = EncodeStep(b, e) /\ t = SentStep(b, t)
  BY EncodedIsStep
<1>c. table = TableStep(packet, b, table)
  BY TableIsStep
<1>d. \A l \in 0 .. Len(Levels) + 1 : Bytes(e, Reach(l))
  BY EncodedBytes
<1> HIDE DEF e, t, table
<1>1. 0 \in T
  BY DEF Reach, Reads
<1>2. ASSUME NEW l \in Nat, l \in T PROVE l + 1 \in T
  <2>1. SUFFICES ASSUME l + 1 <= Len(Levels) + 1, NEW d \in 0 .. Len(packet),
                        NEW q \in Reach(l + 1), NEW p \in Nat,
                        Len(e[q]) <= d, Has(packet, p, e[q])
                 PROVE  table[d][p] = At(t[q], p + Len(e[q]))
    BY DEF Reads
  <2> DEFINE v == pointedTo(q)
  <2>2. All(l) /\ l \in 0 .. Len(Levels) /\ l + 1 \in 0 .. Len(Levels) + 1
        /\ l \in 0 .. Len(Levels) + 1
    BY <1>a, <1>2, <2>1
  <2>3. PICK elements \in SUBSET Reach(l) : SendableVariable(v, b, elements)
    BY <2>2, ElementsBelow
  <2>4. q \in Pointers /\ Bytes(e, elements)
    BY <1>d, <2>2, ReachAll DEF Bytes
  <2>5. e[q] = encodeValue(v, b, e) /\ t[q] = SentValue(v, b, t)
    <3>1. EncodeStep(b, e)[q] = encodeValue(v, b, e) /\ SentStep(b, t)[q] = SentValue(v, b, t)
      BY <2>4 DEF EncodeStep, SentStep
    <3> HIDE DEF v
    <3> QED  BY <1>b, <3>1
  <2> HIDE DEF v
  <2>6. Len(encodeValue(v, b, e)) \in Nat /\ Len(encodeValue(v, b, e)) >= 4
    BY <2>3, <2>4, EncodedSize
  <2>7. d # 0 /\ d - 1 \in Nat /\ d - 1 \in 0 .. Len(packet) /\ Len(encodeValue(v, b, e)) <= (d - 1) + 1
    BY <1>a, <2>1, <2>5, <2>6, SMTT(30)
  <2>8. Reads(packet, e, t, table[d - 1], elements, d - 1)
    <3>1. Reads(packet, e, t, table[d - 1], Reach(l), d - 1)
      BY <2>2, <2>7
    <3> QED  BY <3>1 DEF Reads
  <2>9. decodeVariable(packet, p, b, table[d - 1]) =
          At(SentValue(v, b, t), p + Len(encodeValue(v, b, e)))
    <3>1. Has(packet, p, encodeValue(v, b, e))
      BY <2>1, <2>5
    <3> QED  BY <2>3, <2>4, <2>7, <2>8, <3>1, DecodeVariable
  <2>10. table[d][p] = decodeVariable(packet, p, b, table[d - 1])
    <3>1. TableStep(packet, b, table)[d][p] = decodeVariable(packet, p, b, table[d - 1])
      BY <2>7 DEF TableStep
    <3> QED  BY <1>c, <3>1
  <2> QED  BY <2>5, <2>9, <2>10
<1> HIDE DEF T
<1>3. \A l \in Nat : l \in T
  BY <1>1, <1>2, NaturalInduction
<1>4. level \in T
  BY <1>a, <1>3
<1>5. All(level)
  BY <1>a, <1>4 DEF T
<1> QED  BY <1>5 DEF e, t, table

\* Wherever a packet has the bytes of a variable, decodeParameter reads what Sent
\* says, and is behind the last of the bytes then.
THEOREM DecodeParameter ==
  ASSUME CodecConstants, NEW b, b.forceInteger64 \in BOOLEAN, AllSendableTo(b),
         NEW packet \in Seq(Nat), NEW position \in Nat, NEW pointer \in Pointers,
         Has(packet, position, encodeVariable(pointer, b))
  PROVE  decodeParameter(packet, position, b) =
           At(Sent(pointer, b), position + Len(encodeVariable(pointer, b)))
<1> DEFINE e == Encoded(b)
           t == SentAs(b)
           n == Len(packet)
           d == Table(packet, b)[n]
<1>1. encodeVariable(pointer, b) = e[pointer] /\ Sent(pointer, b) = t[pointer]
  BY EncodedIsStep
<1>2. decodeParameter(packet, position, b) = d[position]
  BY TableIsStep
<1>3. n \in Nat /\ n \in 0 .. n
  BY LenProperties
<1>4. Len(Levels) + 1 \in 0 .. Len(Levels) + 1 /\ Reach(Len(Levels) + 1) = Pointers
  BY ReachAll
<1>5. Reads(packet, e, t, d, Pointers, n)
  <2>1. Reads(packet, e, t, d, Reach(Len(Levels) + 1), n)
    BY <1>3, <1>4, DecodeReach
  <2> QED  BY <1>4, <2>1
<1>6. e[pointer] \in Seq(Nat) /\ Len(e[pointer]) \in Nat
  <2>1. Bytes(e, Reach(Len(Levels) + 1))
    BY <1>4, EncodedBytes
  <2> HIDE DEF e
  <2> QED  BY <1>4, <2>1, LenProperties DEF Bytes
<1> HIDE DEF e, t, d
<1>7. Has(packet, position, e[pointer])
  BY <1>1
<1>8. Len(e[pointer]) <= n
  BY <1>3, <1>6, <1>7 DEF Has
<1>9. d[position] = At(t[pointer], position + Len(e[pointer]))
  BY <1>5, <1>7, <1>8 DEF Reads
<1> QED  BY <1>1, <1>2, <1>9

-----------------------------------------------------------------------------
(* Requests *)

LEMMA VariableBytes ==
  ASSUME CodecConstants, NEW b, b.forceInteger64 \in BOOLEAN, AllSendableTo(b),
         NEW pointer \in Pointers
  PROVE  encodeVariable(pointer, b) \in Seq(Nat)
<1>1. encodeVariable(pointer, b) = Encoded(b)[pointer]
  BY EncodedIsStep
<1>2. Len(Levels) + 1 \in 0 .. Len(Levels) + 1 /\ Reach(Len(Levels) + 1) = Pointers
  BY ReachAll
<1>3. Bytes(Encoded(b), Reach(Len(Levels) + 1))
  BY <1>2, EncodedBytes
<1> QED  BY <1>1, <1>2, <1>3 DEF Bytes

\* The parameters of a request, and their bytes.
Values(parameters)     == IF parameters = Null THEN <<>> ELSE parameters
ValueParts(values, b)  == [i \in DOMAIN values |-> encodeVariable(values[i], b)]
SentValues(values, b)  == [i \in DOMAIN values |-> Sent(values[i], b)]
SendableParameters(p)  == p = Null \/ (p \in Seq(Pointers) /\ Len(p) < Range32)

LEMMA ParameterParts ==
  ASSUME CodecConstants, NEW b, b.forceInteger64 \in BOOLEAN, AllSendableTo(b),
         NEW p, SendableParameters(p)
  PROVE  /\ Values(p) \in Seq(Pointers) /\ Len(Values(p)) \in 0 .. Range32 - 1
         /\ DOMAIN Values(p) = 1 .. Len(Values(p))
         /\ \A i \in 1 .. Len(Values(p)) : Values(p)[i] \in Pointers
         /\ ValueParts(Values(p), b) \in Seq(Seq(Nat))
         /\ Len(ValueParts(Values(p), b)) = Len(Values(p))
<1> DEFINE v == Values(p)
           n == Len(v)
           s == ValueParts(v, b)
<1>1. v \in Seq(Pointers) /\ n \in Nat /\ DOMAIN v = 1 .. n
  BY EmptySeq, LenProperties DEF SendableParameters, Values
<1>2. n \in 0 .. Range32 - 1
  <2>1. n < Range32
    <3>1. CASE p = Null
      <4>1. n = 0
        BY <3>1, EmptySeq DEF Values
      <4> QED  BY <4>1, CodecRadix
    <3> QED  BY <3>1 DEF SendableParameters, Values
  <2> HIDE DEF n
  <2> QED  BY <1>1, <2>1, CodecRadix
<1>3. \A i \in 1 .. n : v[i] \in Pointers
  BY <1>1, ElementOfSeq
<1>4. s = [i \in 1 .. n |-> encodeVariable(v[i], b)]
  BY <1>1 DEF ValueParts
<1>5. \A i \in 1 .. n : encodeVariable(v[i], b) \in Seq(Nat)
  BY <1>3, VariableBytes
<1> HIDE DEF v, n
<1>6. s \in Seq(Seq(Nat)) /\ Len(s) = n
  BY <1>1, <1>4, <1>5
<1> QED  BY <1>1, <1>2, <1>3, <1>6 DEF n, v

LEMMA RequestBodyBytes ==
  ASSUME CodecConstants, NEW b, b.forceInteger64 \in BOOLEAN, AllSendableTo(b),
         NEW m, SendableString(m), NEW p, SendableParameters(p)
  PROVE  /\ encodeString(m) \in Seq(Nat) /\ Len(encodeString(m)) = 4 + Len(m)
         /\ encodeInteger(Len(Values(p))) \in Seq(Nat) /\ Len(encodeInteger(Len(Values(p)))) = 4
         /\ encodeString(m) \o encodeInteger(Len(Values(p))) \in Seq(Nat)
         /\ Len(encodeString(m) \o encodeInteger(Len(Values(p)))) = 8 + Len(m)
         /\ FlattenSeq(ValueParts(Values(p), b)) \in Seq(Nat)
         /\ requestBody(m, p, b) \in Seq(Nat) /\ Len(m) \in Nat
<1> DEFINE n == Len(Values(p))
           x == encodeString(m)
           y == encodeInteger(n)
           z == FlattenSeq(ValueParts(Values(p), b))
<1>1. n \in Nat /\ ValueParts(Values(p), b) \in Seq(Seq(Nat))
  BY ParameterParts
<1>2. x \in Seq(Nat) /\ Len(x) = 4 + Len(m) /\ Len(m) \in Nat
  BY StringBytes DEF SendableString
<1>3. y \in Seq(Nat) /\ Len(y) = 4
  BY <1>1, IntegerDigits
<1>4. z \in Seq(Nat)
  BY <1>1, FlattenType
<1>5. requestBody(m, p, b) = (x \o y) \o z
  BY DEF requestBody, Values, ValueParts
<1> HIDE DEF x, y, z, n
<1>6. x \o y \in Seq(Nat) /\ Len(x \o y) = Len(x) + Len(y)
  BY <1>2, <1>3, ConcatProperties
<1>7. Len(x \o y) = 8 + Len(m)
  BY <1>2, <1>3, <1>6
<1>8. (x \o y) \o z \in Seq(Nat)
  BY <1>4, <1>6, ConcatProperties
<1> QED  BY <1>2, <1>3, <1>4, <1>5, <1>6, <1>7, <1>8 DEF x, y, z, n

\* What decodeRequest finds behind the header of a packet is what was encoded.
LEMMA DecodeRequestBody ==
  ASSUME CodecConstants, NEW b, b.forceInteger64 \in BOOLEAN, AllSendableTo(b),
         NEW packet \in Seq(Nat), 8 + headerSize(packet) \in Nat,
         NEW m, SendableString(m), NEW p, SendableParameters(p),
         Has(packet, 8 + headerSize(packet), requestBody(m, p, b))
  PROVE  decodeRequest(packet, b) =
           [methodName |-> m,
            parameters |-> IF Len(Values(p)) > MaxParameters THEN <<>> ELSE SentValues(Values(p), b)]
<1> DEFINE offset == 8 + headerSize(packet)
           v == Values(p)
           n == Len(v)
           s == ValueParts(v, b)
           x == encodeString(m)
           y == encodeInteger(n)
           z == FlattenSeq(s)
           d == decodedAt(packet, b)
           at == offset + (4 + Len(m))
           begin == offset + (8 + Len(m))
<1>1. /\ requestBody(m, p, b) = (x \o y) \o z /\ x \in Seq(Nat) /\ Len(x) = 4 + Len(m)
      /\ y \in Seq(Nat) /\ Len(y) = 4 /\ x \o y \in Seq(Nat) /\ Len(x \o y) = 8 + Len(m)
      /\ z \in Seq(Nat) /\ Len(m) \in Nat
  <2>1. requestBody(m, p, b) = (x \o y) \o z
    BY DEF requestBody, Values, ValueParts
  <2>2. x \in Seq(Nat) /\ Len(x) = 4 + Len(m) /\ Len(m) \in Nat
    BY RequestBodyBytes
  <2>3. y \in Seq(Nat) /\ Len(y) = 4
    BY RequestBodyBytes
  <2>4. x \o y \in Seq(Nat) /\ Len(x \o y) = 8 + Len(m)
    BY RequestBodyBytes
  <2>5. z \in Seq(Nat)
    BY RequestBodyBytes
  <2> QED  BY <2>1, <2>2, <2>3, <2>4, <2>5
<1>2. /\ v \in Seq(Pointers) /\ n \in 0 .. Range32 - 1 /\ DOMAIN v = 1 .. n
      /\ \A i \in 1 .. n : v[i] \in Pointers
      /\ s \in Seq(Seq(Nat)) /\ Len(s) = n
  BY ParameterParts
<1>3. s = [i \in 1 .. n |-> encodeVariable(v[i], b)]
  BY <1>2 DEF ValueParts
<1>4. offset \in Nat
  OBVIOUS
<1> HIDE DEF offset, x, y, z, v, n, s
<1>5. Has(packet, offset, (x \o y) \o z)
  BY <1>1 DEF offset
<1>6. Has(packet, offset, x \o y) /\ Has(packet, offset + Len(x \o y), z)
  <2> DEFINE xy == x \o y
  <2>1. xy \in Seq(Nat) /\ Has(packet, offset, xy \o z)
    BY <1>1, <1>5
  <2> HIDE DEF xy
  <2>2. Has(packet, offset, xy) /\ Has(packet, offset + Len(xy), z)
    BY <1>1, <1>4, <2>1, HasParts
  <2> QED  BY <2>2 DEF xy
<1>7. Has(packet, offset, x) /\ Has(packet, offset + Len(x), y)
  BY <1>1, <1>4, <1>6, HasParts
<1>8. Has(packet, begin, z) /\ Has(packet, at, y) /\ begin \in Nat /\ at \in Nat /\ at + 4 = begin
  BY <1>1, <1>4, <1>6, <1>7, SMTT(30)
<1>9. decodeString(packet, offset) = At(m, at)
  BY <1>4, <1>7, DecodeString DEF x
<1> HIDE DEF at, begin
<1>10. decodeUnsigned(packet, at) = At(n, begin)
  <2>1. decodeUnsigned(packet, at) = At(n, at + 4)
    BY <1>2, <1>8, DecodeUnsigned DEF y
  <2> QED  BY <1>8, <2>1
<1>11. ReadsAll(packet, s, SentValues(v, b), d)
  <2>1. ASSUME NEW i \in 1 .. Len(s), NEW q \in Nat, Has(packet, q, s[i])
        PROVE  d[q] = At(SentValues(v, b)[i], q + Len(s[i]))
    <3>1. i \in 1 .. n /\ s[i] = encodeVariable(v[i], b) /\ v[i] \in Pointers
      BY <1>2, <1>3
    <3>2. SentValues(v, b)[i] = Sent(v[i], b)
      BY <1>2, <3>1 DEF SentValues
    <3>3. decodeParameter(packet, q, b) = At(Sent(v[i], b), q + Len(encodeVariable(v[i], b)))
      BY <2>1, <3>1, DecodeParameter
    <3> QED  BY <3>1, <3>2, <3>3 DEF decodeParameter
  <2> QED  BY <2>1 DEF ReadsAll
<1> HIDE DEF d
<1>12. decodeElements(begin, n, d).value = SentValues(v, b)
  <2>1. n \in Nat
    BY <1>2
  <2>2. decodeElements(begin, n, d) = At([i \in 1 .. n |-> SentValues(v, b)[i]], begin + Len(FlattenSeq(s)))
    BY <1>2, <1>8, <1>11, <2>1, DecodeElements DEF z
  <2>3. SentValues(v, b) = [i \in 1 .. n |-> SentValues(v, b)[i]]
    BY <1>2 DEF SentValues
  <2> QED  BY <2>2, <2>3 DEF At
<1>13. parameterLimit(n) <=> n > MaxParameters
  BY DEF parameterLimit
<1> QED  BY <1>9, <1>10, <1>12, <1>13 DEF decodeRequest, At, offset, d, n, v

-----------------------------------------------------------------------------
(* Headers *)

\* What is shorter than something that fits a signed integer fits one as well.
LEMMA SmallerSigned ==
  ASSUME NEW w \in Nat \ {0}, NEW n \in Nat, NEW m \in Nat, n <= m, IsSigned(m, w)
  PROVE  IsSigned(n, w)
<1> DEFINE half == w \div 2
<1>1. m % w = m /\ m \in 0 .. w - 1
  BY SignedSize
<1>2. half \in Nat
  OBVIOUS
<1>3. m = IF m < half THEN m ELSE m - w
  BY <1>1 DEF IsSigned, Signed
<1> HIDE DEF half
<1>4. m < half
  BY <1>1, <1>2, <1>3
<1>5. n \in 0 .. w - 1 /\ n < half
  BY <1>1, <1>2, <1>4
<1>6. n % w = n
  BY <1>5, SmallRemainder
<1> QED  BY <1>5, <1>6 DEF IsSigned, Signed, half

\* A packet without header: behind the type are the size and the body.
PlainPacket(packet, body) ==
  /\ packet \in Seq(Nat) /\ packet[4] \notin Flagged
  /\ body \in Seq(Nat) /\ Len(body) \in 0 .. Range32 - 1 /\ Len(packet) = 8 + Len(body)
  /\ Has(packet, 4, encodeInteger(Len(body)) \o body)

\* A packet with header: the header is between the type and the size.
FullPacket(packet, a, body) ==
  /\ packet \in Seq(Nat) /\ packet[4] \in Flagged
  /\ a \in Seq(Nat) /\ SendableString(fields(a)) /\ body \in Seq(Nat)
  /\ Has(packet, 4, (encodeInteger(Len(fields(a))) \o fields(a)) \o (encodeInteger(Len(body)) \o body))

\* The decoder finds no header, and the body behind the size.
LEMMA DecodePlain ==
  ASSUME CodecConstants, NEW packet, NEW body, PlainPacket(packet, body)
  PROVE  /\ headerSize(packet) = 0 /\ decodeHeader(packet) = <<>>
         /\ Has(packet, 8 + headerSize(packet), body)
<1> DEFINE n == Len(body)
           t == encodeInteger(n)
<1>1. /\ packet \in Seq(Nat) /\ body \in Seq(Nat) /\ n \in 0 .. Range32 - 1 /\ n \in Nat
      /\ Len(packet) = 8 + n /\ packet[4] \notin Flagged /\ Has(packet, 4, t \o body)
  BY CodecRadix DEF PlainPacket
<1>2. t \in Seq(Nat) /\ Len(t) = 4
  BY <1>1, IntegerDigits
<1>3. Has(packet, 4, t) /\ Has(packet, 4 + Len(t), body)
  <2> HIDE DEF t, n
  <2>1. 4 \in Nat
    OBVIOUS
  <2> QED  BY <1>1, <1>2, <2>1, HasParts
<1>4. decodeUnsigned(packet, 4).value = n
  <2>1. decodeUnsigned(packet, 4) = At(n, 4 + 4)
    <3> HIDE DEF n
    <3>1. 4 \in Nat
      OBVIOUS
    <3> QED  BY <1>1, <1>3, <3>1, DecodeUnsigned
  <2> QED  BY <2>1 DEF At
<1> HIDE DEF n, t
<1>5. headerSize(packet) = 0
  BY <1>1 DEF headerSize
<1>6. ~(Len(packet) < 12 \/ packet[4] \in Flagged) \/ decodeUnsigned(packet, 4).value < 4
  BY <1>1, <1>4
<1>7. decodeHeader(packet) = <<>>
  BY <1>6 DEF decodeHeader
<1>8. 4 + Len(t) = 8 + headerSize(packet)
  BY <1>2, <1>5
<1> QED  BY <1>3, <1>5, <1>7, <1>8

LEMMA FieldBytes ==
  ASSUME CodecConstants, NEW a \in Seq(Nat), SendableString(fields(a))
  PROVE  /\ fields(a) = (encodeInteger(1) \o encodeString(AuthorizationName)) \o encodeString(a)
         /\ Len(fields(a)) = 13 + Len(a) /\ fields(a) \in Seq(Nat)
         /\ encodeInteger(1) \o encodeString(AuthorizationName) \in Seq(Nat)
         /\ Len(encodeInteger(1) \o encodeString(AuthorizationName)) = 9
         /\ encodeInteger(1) \in Seq(Nat) /\ Len(encodeInteger(1)) = 4
         /\ encodeString(AuthorizationName) \in Seq(Nat) /\ Len(encodeString(AuthorizationName)) = 5
         /\ encodeString(a) \in Seq(Nat) /\ SendableString(a) /\ SendableString(AuthorizationName)
         /\ Len(AuthorizationName) = 1 /\ Len(a) \in Nat
<1> DEFINE x == encodeInteger(1)
           y == encodeString(AuthorizationName)
           z == encodeString(a)
<1>1. AuthorizationName \in Seq(Nat) /\ Len(AuthorizationName) = 1 /\ 1 \in Int
  BY DEF AuthorizationName
<1>2. x \in Seq(Nat) /\ Len(x) = 4
  BY <1>1, IntegerDigits
<1>3. y \in Seq(Nat) /\ Len(y) = 5
  <2>1. y \in Seq(Nat) /\ Len(y) = 4 + Len(AuthorizationName)
    BY <1>1, StringBytes
  <2> HIDE DEF y
  <2> QED  BY <1>1, <2>1
<1>4. z \in Seq(Nat) /\ Len(z) = 4 + Len(a) /\ Len(a) \in Nat
  BY StringBytes
<1>5. fields(a) = (x \o y) \o z
  BY DEF fields
<1> HIDE DEF x, y, z
<1>6. x \o y \in Seq(Nat) /\ Len(x \o y) = 9
  <2>1. x \o y \in Seq(Nat) /\ Len(x \o y) = Len(x) + Len(y)
    BY <1>2, <1>3, ConcatProperties
  <2> QED  BY <1>2, <1>3, <2>1
<1>7. (x \o y) \o z \in Seq(Nat) /\ Len((x \o y) \o z) = 13 + Len(a)
  <2> DEFINE xy == x \o y
  <2>1. xy \in Seq(Nat) /\ Len(xy) = 9
    BY <1>6
  <2> HIDE DEF xy
  <2>2. xy \o z \in Seq(Nat) /\ Len(xy \o z) = Len(xy) + Len(z)
    BY <1>4, <2>1, ConcatProperties
  <2>3. Len(xy \o z) = 13 + Len(a)
    BY <1>4, <2>1, <2>2
  <2> QED  BY <2>2, <2>3 DEF xy
<1>8. Range32 \in Nat \ {0}
  BY CodecRadix
<1> DEFINE m == Len(fields(a))
<1>9. IsSigned(m, Range32) /\ m = 13 + Len(a)
  BY <1>5, <1>7 DEF SendableString
<1> HIDE DEF m
<1>10. m \in Nat /\ Len(a) <= m /\ 1 <= m
  BY <1>4, <1>9
<1>11. IsSigned(Len(a), Range32)
  BY <1>4, <1>8, <1>9, <1>10, SmallerSigned
<1>12. IsSigned(1, Range32)
  <2>1. 1 \in Nat
    OBVIOUS
  <2> QED  BY <1>8, <1>9, <1>10, <2>1, SmallerSigned
<1> QED  BY <1>1, <1>2, <1>3, <1>4, <1>5, <1>6, <1>7, <1>11, <1>12 DEF SendableString, x, y, z

\* Of the only field, the value is the authorization.
LEMMA DecodeField ==
  ASSUME NEW packet, NEW position, NEW p, NEW q, NEW a,
         decodeString(packet, position) = At(AuthorizationName, p), decodeString(packet, p) = At(a, q)
  PROVE  decodeFields(packet, position, 1) = a
<1> DEFINE Def(f) == [i \in 0 .. 1 |->
             IF i = 0 THEN At(<<>>, position)
             ELSE LET header == f[i - 1]
                      field  == decodeString(packet, header.position)
                      value  == decodeString(packet, field.position)
                      known  == toLower(field.value) = authorizationName
                  IN At(IF known THEN value.value ELSE header.value, value.position)]
           read == CHOOSE f : f = Def(f)
           h == [i \in 0 .. 1 |-> IF i = 0 THEN At(<<>>, position) ELSE At(a, q)]
<1>1. decodeFields(packet, position, 1) = read[1].value
  BY DEF decodeFields
<1>2. toLower(AuthorizationName) = authorizationName
  BY DEF toLower
<1>3. ASSUME NEW f, f[0] = At(<<>>, position) PROVE Def(f)[1] = At(a, q)
  <2>1. 1 \in 0 .. 1 /\ 1 - 1 = 0
    OBVIOUS
  <2>2. f[0].position = position
    BY <1>3 DEF At
  <2>3. /\ decodeString(packet, f[0].position).position = p
        /\ decodeString(packet, f[0].position).value = AuthorizationName
    BY <2>2 DEF At
  <2>4. decodeString(packet, p).value = a /\ decodeString(packet, p).position = q
    BY DEF At
  <2>5. Def(f)[1] =
          LET header == f[0]
              field  == decodeString(packet, header.position)
              value  == decodeString(packet, field.position)
              known  == toLower(field.value) = authorizationName
          IN At(IF known THEN value.value ELSE header.value, value.position)
    BY <2>1
  <2> HIDE DEF Def
  <2> QED  BY <1>2, <2>3, <2>4, <2>5
<1>4. ASSUME NEW f PROVE Def(f)[0] = At(<<>>, position)
  OBVIOUS
<1>5. h = Def(h)
  <2>1. h[0] = At(<<>>, position) /\ h[1] = At(a, q)
    OBVIOUS
  <2>2. Def(h)[0] = h[0] /\ Def(h)[1] = h[1]
    <3> HIDE DEF h, Def
    <3> QED  BY <1>3, <1>4, <2>1
  <2>3. \A i \in 0 .. 1 : i = 0 \/ i = 1
    OBVIOUS
  <2>4. h = [i \in 0 .. 1 |-> h[i]] /\ Def(h) = [i \in 0 .. 1 |-> Def(h)[i]]
    OBVIOUS
  <2> HIDE DEF h, Def
  <2> QED  BY <2>2, <2>3, <2>4
<1>6. read = Def(read)
  <2> HIDE DEF h, Def
  <2> QED  BY <1>5
<1>7. read[1] = At(a, q)
  <2> HIDE DEF read, Def
  <2>1. read[0] = At(<<>>, position)
    BY <1>4, <1>6
  <2> QED  BY <1>3, <1>6, <2>1
<1> HIDE DEF read
<1> QED  BY <1>1, <1>7 DEF At

\* The decoder finds the authorization, and the body behind header and size.
LEMMA DecodeFull ==
  ASSUME CodecConstants, NEW packet, NEW a, NEW body, FullPacket(packet, a, body)
  PROVE  /\ headerSize(packet) = Len(fields(a)) + 4 /\ decodeHeader(packet) = a
         /\ 8 + headerSize(packet) \in Nat /\ Has(packet, 8 + headerSize(packet), body)
<1> DEFINE f == fields(a)
           n == Len(f)
           m == Len(body)
           s == encodeInteger(n)
           t == encodeInteger(m)
           x == encodeInteger(1)
           y == encodeString(AuthorizationName)
           z == encodeString(a)
           sf == s \o f
           tb == t \o body
           xy == x \o y
<1>1. /\ packet \in Seq(Nat) /\ packet[4] \in Flagged /\ body \in Seq(Nat) /\ a \in Seq(Nat)
      /\ SendableString(f) /\ m \in Nat /\ Has(packet, 4, sf \o tb)
  BY LenProperties DEF FullPacket
<1>2. /\ f = xy \o z /\ n = 13 + Len(a) /\ f \in Seq(Nat) /\ xy \in Seq(Nat) /\ Len(xy) = 9
      /\ x \in Seq(Nat) /\ Len(x) = 4 /\ y \in Seq(Nat) /\ Len(y) = 5 /\ z \in Seq(Nat)
      /\ SendableString(a) /\ SendableString(AuthorizationName) /\ Len(AuthorizationName) = 1
      /\ Len(a) \in Nat
  BY <1>1, FieldBytes
<1>3. n \in Nat /\ IsSigned(n, Range32)
  BY <1>2, <1>1 DEF SendableString
<1>4. n \in 0 .. Range32 - 1 /\ Signed(n, Range32) = n
  <2> HIDE DEF n
  <2> QED  BY <1>3, CodecRadix, SignedSize DEF IsSigned
<1>5. s \in Seq(Nat) /\ Len(s) = 4 /\ t \in Seq(Nat) /\ Len(t) = 4
  BY <1>1, <1>3, IntegerDigits
<1> HIDE DEF f, n, m, s, t, x, y, z
<1>6. sf \in Seq(Nat) /\ Len(sf) = 4 + n /\ tb \in Seq(Nat)
  <2>1. s \o f \in Seq(Nat) /\ Len(s \o f) = Len(s) + Len(f)
    BY <1>2, <1>5, ConcatProperties
  <2>2. t \o body \in Seq(Nat)
    BY <1>1, <1>5, ConcatProperties
  <2> QED  BY <1>5, <2>1, <2>2 DEF n
<1>7. Has(packet, 4, sf) /\ Has(packet, 4 + (4 + n), tb)
  <2> HIDE DEF sf, tb
  <2>1. 4 \in Nat
    OBVIOUS
  <2>2. Has(packet, 4, sf) /\ Has(packet, 4 + Len(sf), tb)
    BY <1>1, <1>6, <2>1, HasParts
  <2> QED  BY <1>6, <2>2
<1>8. Has(packet, 4, s) /\ Has(packet, 8, f)
  <2>1. 4 \in Nat /\ 4 + Len(s) = 8
    BY <1>5
  <2>2. Has(packet, 4, s) /\ Has(packet, 4 + Len(s), f)
    BY <1>1, <1>2, <1>5, <1>7, <2>1, HasParts
  <2> QED  BY <2>1, <2>2
<1>9. Has(packet, 12 + n, body)
  <2>1. 4 + (4 + n) \in Nat /\ (4 + (4 + n)) + Len(t) = 12 + n
    BY <1>3, <1>5
  <2>2. Has(packet, (4 + (4 + n)) + Len(t), body)
    BY <1>1, <1>5, <1>7, <2>1, HasParts
  <2> QED  BY <2>1, <2>2
<1>10. Has(packet, 8, xy) /\ Has(packet, 17, z)
  <2> HIDE DEF xy
  <2>1. 8 \in Nat /\ 8 + Len(xy) = 17
    BY <1>2
  <2>2. Has(packet, 8, xy) /\ Has(packet, 8 + Len(xy), z)
    BY <1>1, <1>2, <1>8, <2>1, HasParts
  <2> QED  BY <2>1, <2>2
<1>11. Has(packet, 8, x) /\ Has(packet, 12, y)
  <2>1. 8 \in Nat /\ 8 + Len(x) = 12
    BY <1>2
  <2>2. Has(packet, 8, x) /\ Has(packet, 8 + Len(x), y)
    BY <1>1, <1>2, <1>10, <2>1, HasParts
  <2> QED  BY <2>1, <2>2
<1>12. decodeInteger(packet, 4).value = n /\ decodeUnsigned(packet, 4) = At(n, 8)
  <2>1. 4 \in Nat /\ 4 + 4 = 8 /\ n \in Int
    BY <1>3
  <2>2. decodeInteger(packet, 4) = At(Signed(n, Range32), 4 + 4)
    BY <1>1, <1>8, <2>1, DecodeInteger DEF s
  <2>3. decodeUnsigned(packet, 4) = At(n, 4 + 4)
    BY <1>1, <1>4, <1>8, <2>1, DecodeUnsigned DEF s
  <2> QED  BY <1>4, <2>1, <2>2, <2>3 DEF At
<1>13. decodeUnsigned(packet, 8) = At(1, 12)
  <2>1. 8 \in Nat /\ 8 + 4 = 12 /\ 1 \in 0 .. Range32 - 1
    BY CodecRadix
  <2>2. decodeUnsigned(packet, 8) = At(1, 8 + 4)
    BY <1>1, <1>11, <2>1, DecodeUnsigned DEF x
  <2> QED  BY <2>1, <2>2
<1>14. decodeString(packet, 12) = At(AuthorizationName, 17)
  <2>1. 12 \in Nat /\ 12 + (4 + Len(AuthorizationName)) = 17
    BY <1>2
  <2>2. decodeString(packet, 12) = At(AuthorizationName, 12 + (4 + Len(AuthorizationName)))
    BY <1>1, <1>2, <1>11, <2>1, DecodeString DEF y
  <2> QED  BY <2>1, <2>2
<1>15. decodeString(packet, 17) = At(a, 17 + (4 + Len(a)))
  <2>1. 17 \in Nat
    OBVIOUS
  <2> QED  BY <1>1, <1>2, <1>10, <2>1, DecodeString DEF z
<1>16. decodeFields(packet, 12, 1) = a
  BY <1>14, <1>15, DecodeField
<1>17. decodeHeader(packet) = a
  <2>1. ~(~(Len(packet) < 12 \/ packet[4] \in Flagged) \/ decodeUnsigned(packet, 4).value < 4)
    BY <1>1, <1>2, <1>12 DEF At
  <2>2. decodeUnsigned(packet, 4).position = 8
    BY <1>12 DEF At
  <2>3. decodeUnsigned(packet, 8).position = 12 /\ decodeUnsigned(packet, 8).value = 1
    BY <1>13 DEF At
  <2> QED  BY <1>16, <2>1, <2>2, <2>3 DEF decodeHeader
<1>18. headerSize(packet) = n + 4
  BY <1>1, <1>12 DEF headerSize
<1>19. 8 + headerSize(packet) = 12 + n /\ 12 + n \in Nat
  BY <1>3, <1>18
<1> QED  BY <1>9, <1>17, <1>18, <1>19 DEF n, f

-----------------------------------------------------------------------------
(* What a variable that was sent looks like *)

Members == {"type", "errorStruct", "stringValue", "integerValue", "integerValue64", "floatValue",
            "booleanValue", "arrayValue", "structValue", "binaryValue"}

IsVariable(v) == v = [m \in Members |-> v[m]]

LEMMA ExceptMember ==
  ASSUME NEW v, IsVariable(v), NEW m \in Members, NEW x
  PROVE  /\ IsVariable([v EXCEPT ![m] = x]) /\ [v EXCEPT ![m] = x][m] = x
         /\ \A k \in Members : k # m => [v EXCEPT ![m] = x][k] = v[k]
<1>1. DOMAIN v = Members
  BY DEF IsVariable
<1>2. DOMAIN [v EXCEPT ![m] = x] = Members
  BY <1>1
<1>3. [v EXCEPT ![m] = x] = [k \in Members |-> IF k = m THEN x ELSE v[k]]
  BY <1>1
<1> QED  BY <1>1, <1>3 DEF IsVariable

\* Neither an error nor a struct nor binary data.
Simple(v, t) ==
  /\ IsVariable(v) /\ v.type = t /\ v.errorStruct = FALSE
  /\ v.structValue = NoStruct /\ v.binaryValue = <<>>

LEMMA SimpleType ==
  ASSUME NEW t, t # "tVariant"
  PROVE  Simple(OfType(t), t)
<1> DEFINE V == Void
<1>1. IsVariable(V)
  BY DEF IsVariable, Void, Members
<1>2. V.errorStruct = FALSE /\ V.structValue = NoStruct /\ V.binaryValue = <<>>
  BY DEF Void
<1>3. OfType(t) = [V EXCEPT !["type"] = t]
  BY DEF OfType
<1> HIDE DEF V
<1>4. /\ "type" \in Members /\ "errorStruct" \in Members /\ "structValue" \in Members
      /\ "binaryValue" \in Members
  BY DEF Members
<1> DEFINE w == [V EXCEPT !["type"] = t]
<1>5. IsVariable(w) /\ w["type"] = t /\ \A k \in Members : k # "type" => w[k] = V[k]
  BY <1>1, <1>4, ExceptMember
<1> HIDE DEF w
<1>6. w.errorStruct = V.errorStruct /\ w.structValue = V.structValue /\ w.binaryValue = V.binaryValue
  BY <1>4, <1>5
<1> QED  BY <1>2, <1>3, <1>5, <1>6 DEF Simple, w

LEMMA SimpleExcept ==
  ASSUME NEW v, NEW t, Simple(v, t), NEW x,
         NEW m \in Members \ {"type", "errorStruct", "structValue", "binaryValue"}
  PROVE  Simple([v EXCEPT ![m] = x], t)
<1>1. m \in Members
  OBVIOUS
<1>2. IsVariable([v EXCEPT ![m] = x]) /\ \A k \in Members : k # m => [v EXCEPT ![m] = x][k] = v[k]
  BY <1>1, ExceptMember, SMTT(30) DEF Simple
<1>3. /\ "type" \in Members /\ "errorStruct" \in Members /\ "structValue" \in Members
      /\ "binaryValue" \in Members
  BY DEF Members
<1> QED  BY <1>2, <1>3 DEF Simple

LEMMA SimpleString ==
  ASSUME NEW v, NEW t, Simple(v, t), NEW s
  PROVE  Simple(WithString(v, s), t)
<1> DEFINE i == getNumber64(s)
           w1 == [v EXCEPT !.stringValue = s]
           w2 == [w1 EXCEPT !.integerValue64 = i]
           w3 == [w2 EXCEPT !.integerValue = Signed(i, Range32)]
           w4 == [w3 EXCEPT !.booleanValue = s \notin {<<>>, Zero, False, F}]
<1>1. WithString(v, s) = w4
  BY DEF WithString
<1>2. Simple(w1, t)
  BY SimpleExcept DEF Members
<1> HIDE DEF w1
<1>3. Simple(w2, t)
  BY <1>2, SimpleExcept DEF Members
<1> HIDE DEF w2
<1>4. Simple(w3, t)
  BY <1>3, SimpleExcept DEF Members
<1> HIDE DEF w3
<1>5. Simple(w4, t)
  BY <1>4, SimpleExcept DEF Members
<1> QED  BY <1>1, <1>5

LEMMA SimpleNumber ==
  ASSUME NEW t, t # "tVariant", NEW i
  PROVE  Simple(Number(t, i), t)
<1> DEFINE v  == Void
           w1 == [v EXCEPT !.type = t]
           w2 == [w1 EXCEPT !.integerValue = Signed(i, Range32)]
           w3 == [w2 EXCEPT !.integerValue64 = Signed(i, Range64)]
           w4 == [w3 EXCEPT !.floatValue = FloatOf(i, 0)]
           w5 == [w4 EXCEPT !.booleanValue = i # 0]
<1>1. Number(t, i) = w5
  <2> HIDE DEF v
  <2> QED  BY DEF Number, v
<1>2. Simple(w1, t)
  <2>1. OfType(t) = w1
    BY DEF OfType
  <2> QED  BY <2>1, SimpleType
<1> HIDE DEF w1, v
<1>3. Simple(w2, t)
  BY <1>2, SimpleExcept DEF Members
<1> HIDE DEF w2
<1>4. Simple(w3, t)
  BY <1>3, SimpleExcept DEF Members
<1> HIDE DEF w3
<1>5. Simple(w4, t)
  BY <1>4, SimpleExcept DEF Members
<1> HIDE DEF w4
<1>6. Simple(w5, t)
  BY <1>5, SimpleExcept DEF Members
<1> QED  BY <1>1, <1>6

LEMMA SimpleBoolean ==
  ASSUME NEW b
  PROVE  Simple(Boolean(b), "tBoolean")
<1> DEFINE v == OfType("tBoolean")
           i == IF b THEN 1 ELSE 0
           w1 == [v EXCEPT !.booleanValue = b]
           w2 == [w1 EXCEPT !.integerValue = i]
           w3 == [w2 EXCEPT !.integerValue64 = i]
<1>1. Simple(v, "tBoolean")
  BY SimpleType
<1> HIDE DEF v
<1>2. Boolean(b) = w3
  BY DEF Boolean, v
<1>3. Simple(w1, "tBoolean")
  BY <1>1, SimpleExcept DEF Members
<1> HIDE DEF w1, i
<1>4. Simple(w2, "tBoolean")
  BY <1>3, SimpleExcept DEF Members
<1> HIDE DEF w2
<1>5. Simple(w3, "tBoolean")
  BY <1>4, SimpleExcept DEF Members
<1> QED  BY <1>2, <1>5

LEMMA SimpleFloat ==
  ASSUME NEW f
  PROVE  Simple(Float(f), "tFloat")
<1> DEFINE v == OfType("tFloat")
           i == Round(f)
           w1 == [v EXCEPT !.floatValue = f]
           w2 == [w1 EXCEPT !.integerValue = Signed(i, Range32)]
           w3 == [w2 EXCEPT !.integerValue64 = i]
           w4 == [w3 EXCEPT !.booleanValue = f # <<0, 0>>]
<1>1. Simple(v, "tFloat")
  BY SimpleType
<1> HIDE DEF v
<1>2. Float(f) = w4
  BY DEF Float, v
<1> HIDE DEF i
<1>3. Simple(w1, "tFloat")
  BY <1>1, SimpleExcept DEF Members
<1> HIDE DEF w1
<1>4. Simple(w2, "tFloat")
  BY <1>3, SimpleExcept DEF Members
<1> HIDE DEF w2
<1>5. Simple(w3, "tFloat")
  BY <1>4, SimpleExcept DEF Members
<1> HIDE DEF w3
<1>6. Simple(w4, "tFloat")
  BY <1>5, SimpleExcept DEF Members
<1> QED  BY <1>2, <1>6

LEMMA SimpleArray ==
  ASSUME NEW a
  PROVE  Simple(Array(a), "tArray")
<1> DEFINE v == OfType("tArray")
<1>1. Simple(v, "tArray")
  BY SimpleType
<1> DEFINE w1 == [v EXCEPT !.arrayValue = a]
<1>2. Array(a) = w1
  BY DEF Array
<1> HIDE DEF v
<1>3. Simple(w1, "tArray")
  BY <1>1, SimpleExcept DEF Members
<1> QED  BY <1>2, <1>3

\* An error is a struct with exactly a code and a text, and only binary values
\* have binary data.
Shape(s, v) ==
  /\ IsVariable(s) /\ s.structValue = [n \in DOMAIN s.structValue |-> s.structValue[n]]
  /\ s.errorStruct \in BOOLEAN
  /\ s.errorStruct <=> v.type = "tStruct" /\ DOMAIN v.structValue = {FaultCode, FaultString}
  /\ s.errorStruct => DOMAIN s.structValue = {FaultCode, FaultString}
  /\ s.type = "tBinary" <=> v.type = "tBinary"
  /\ s.type # "tBinary" => s.binaryValue = <<>>

LEMMA SimpleShape ==
  ASSUME NEW s, NEW t, Simple(s, t), t # "tBinary", NEW v, v.type \notin {"tBinary", "tStruct"}
  PROVE  Shape(s, v)
<1>1. NoStruct = [n \in DOMAIN NoStruct |-> NoStruct[n]]
  BY DEF NoStruct
<1> QED  BY <1>1 DEF Simple, Shape

LEMMA BinaryShape ==
  ASSUME NEW v, v.type = "tBinary", NEW d
  PROVE  Shape(Binary(d), v) /\ Binary(d).binaryValue = d
<1> DEFINE o == OfType("tBinary")
           w == [o EXCEPT !["binaryValue"] = d]
<1>1. Simple(o, "tBinary")
  BY SimpleType
<1> HIDE DEF o
<1>2. Binary(d) = w
  BY DEF Binary, o
<1>3. /\ "type" \in Members /\ "errorStruct" \in Members /\ "structValue" \in Members
      /\ "binaryValue" \in Members
  BY DEF Members
<1>4. IsVariable(w) /\ w["binaryValue"] = d /\ \A k \in Members : k # "binaryValue" => w[k] = o[k]
  <2>1. IsVariable(o)
    BY <1>1 DEF Simple
  <2> QED  BY <1>3, <2>1, ExceptMember
<1> HIDE DEF w
<1>5. w.type = "tBinary" /\ w.errorStruct = FALSE /\ w.structValue = NoStruct
  BY <1>1, <1>3, <1>4 DEF Simple
<1>6. NoStruct = [n \in DOMAIN NoStruct |-> NoStruct[n]]
  BY DEF NoStruct
<1> QED  BY <1>2, <1>4, <1>5, <1>6 DEF Shape

LEMMA StructShape ==
  ASSUME NEW v, v.type = "tStruct", NEW s, s = [n \in DOMAIN s |-> s[n]], NEW e \in BOOLEAN,
         e <=> DOMAIN v.structValue = {FaultCode, FaultString},
         e => DOMAIN s = {FaultCode, FaultString}
  PROVE  Shape([Struct(s) EXCEPT !.errorStruct = e], v)
<1> DEFINE o == OfType("tStruct")
           w == [o EXCEPT !["structValue"] = s]
           x == [w EXCEPT !["errorStruct"] = e]
<1>1. Simple(o, "tStruct")
  BY SimpleType
<1> HIDE DEF o
<1>2. [Struct(s) EXCEPT !.errorStruct = e] = x
  BY DEF Struct, o
<1>3. /\ "type" \in Members /\ "errorStruct" \in Members /\ "structValue" \in Members
      /\ "binaryValue" \in Members
  BY DEF Members
<1>4. IsVariable(w) /\ w["structValue"] = s /\ \A k \in Members : k # "structValue" => w[k] = o[k]
  <2>1. IsVariable(o)
    BY <1>1 DEF Simple
  <2> QED  BY <1>3, <2>1, ExceptMember
<1> HIDE DEF w
<1>5. IsVariable(x) /\ x["errorStruct"] = e /\ \A k \in Members : k # "errorStruct" => x[k] = w[k]
  BY <1>3, <1>4, ExceptMember
<1> HIDE DEF x
<1>6. x.type = "tStruct" /\ x.structValue = s /\ x.binaryValue = <<>> /\ x.errorStruct = e
  BY <1>1, <1>3, <1>4, <1>5 DEF Simple
<1> QED  BY <1>2, <1>5, <1>6 DEF Shape

LEMMA SentElements ==
  ASSUME NEW s, DOMAIN s = {FaultCode, FaultString}
  PROVE  {IF n = <<>> THEN Undefined ELSE n : n \in DOMAIN s} = {FaultCode, FaultString}
<1>1. FaultCode # <<>> /\ FaultString # <<>>
  BY DEF FaultCode, FaultString
<1> QED  BY <1>1

LEMMA SentValueShape ==
  ASSUME NEW b, b.forceInteger64 \in BOOLEAN, NEW v, v.type \in TypeNames, NEW t
  PROVE  /\ Shape(SentValue(v, b, t), v)
         /\ v.type = "tBinary" => SentValue(v, b, t).binaryValue = v.binaryValue
<1> DEFINE S == SentValue(v, b, t)
<1>1. CASE v.type \in {"tString", "tBase64"}
  <2>1. S = WithString(OfType(v.type), v.stringValue)
    BY <1>1 DEF SentValue
  <2> HIDE DEF S
  <2>2. Simple(S, v.type)
    BY <1>1, <2>1, SimpleType, SimpleString
  <2> QED  BY <1>1, <2>2, SimpleShape DEF S
<1>2. CASE v.type = "tInteger" \/ v.type = "tInteger64"
  <2>1. PICK n : S = Integer64(n) \/ S = Integer(n)
    BY <1>2 DEF SentValue
  <2> HIDE DEF S
  <2>2. Simple(S, "tInteger") \/ Simple(S, "tInteger64")
    BY <2>1, SimpleNumber DEF Integer, Integer64
  <2> QED  BY <1>2, <2>2, SimpleShape DEF S
<1>3. CASE v.type = "tFloat"
  <2>1. S = Float(v.floatValue)
    BY <1>3 DEF SentValue
  <2> HIDE DEF S
  <2>2. Simple(S, "tFloat")
    BY <2>1, SimpleFloat
  <2> QED  BY <1>3, <2>2, SimpleShape DEF S
<1>4. CASE v.type = "tBoolean"
  <2>1. S = Boolean(v.booleanValue)
    BY <1>4 DEF SentValue
  <2> HIDE DEF S
  <2>2. Simple(S, "tBoolean")
    BY <2>1, SimpleBoolean
  <2> QED  BY <1>4, <2>2, SimpleShape DEF S
<1>5. CASE v.type = "tArray"
  <2>1. S = Array([i \in DOMAIN v.arrayValue |-> t[v.arrayValue[i]]])
    BY <1>5 DEF SentValue
  <2> HIDE DEF S
  <2>2. Simple(S, "tArray")
    BY <2>1, SimpleArray
  <2> QED  BY <1>5, <2>2, SimpleShape DEF S
<1>6. CASE v.type = "tVoid"
  <2>1. S = OfType("tVoid")
    BY <1>6, VoidType DEF SentValue
  <2> HIDE DEF S
  <2>2. Simple(S, "tVoid")
    BY <2>1, SimpleType
  <2> QED  BY <1>6, <2>2, SimpleShape DEF S
<1>7. CASE v.type = "tBinary"
  <2>1. S = Binary(v.binaryValue)
    BY <1>7 DEF SentValue
  <2> HIDE DEF S
  <2>2. Shape(S, v) /\ S.binaryValue = v.binaryValue
    BY <1>7, <2>1, BinaryShape
  <2> QED  BY <2>2 DEF S
<1>8. CASE v.type = "tStruct"
  <2> DEFINE s == v.structValue
             names == {IF n = <<>> THEN Undefined ELSE n : n \in DOMAIN s}
             From(n) == IF n = Undefined /\ <<>> \in DOMAIN s THEN <<>> ELSE n
             elements == [n \in names |-> t[s[From(n)]]]
             e == DOMAIN s = {FaultCode, FaultString}
  <2>1. S = [Struct(elements) EXCEPT !.errorStruct = e]
    BY <1>8 DEF SentValue
  <2>2. e => names = {FaultCode, FaultString}
    BY SentElements
  <2>3. DOMAIN elements = names
    OBVIOUS
  <2>4. elements = [n \in DOMAIN elements |-> elements[n]]
    OBVIOUS
  <2> HIDE DEF names, elements, S
  <2>5. Shape(S, v)
    BY <1>8, <2>1, <2>2, <2>3, <2>4, StructShape
  <2> QED  BY <1>8, <2>5 DEF S
<1> QED  BY <1>1, <1>2, <1>3, <1>4, <1>5, <1>6, <1>7, <1>8 DEF TypeNames

LEMMA SentShape ==
  ASSUME CodecConstants, NEW b, b.forceInteger64 \in BOOLEAN, AllSendableTo(b),
         NEW pointer \in Pointers
  PROVE  /\ Shape(Sent(pointer, b), pointedTo(pointer))
         /\ pointedTo(pointer).type = "tBinary" =>
              Sent(pointer, b).binaryValue = pointedTo(pointer).binaryValue
<1> DEFINE v == pointedTo(pointer)
           t == SentAs(b)
           l == Len(Levels)
<1>1. Sent(pointer, b) = t[pointer] /\ t = SentStep(b, t)
  BY EncodedIsStep
<1> HIDE DEF t
<1>2. Sent(pointer, b) = SentValue(v, b, t)
  <2>1. SentStep(b, t)[pointer] = SentValue(v, b, t)
    BY DEF SentStep
  <2> QED  BY <1>1, <2>1
<1>3. v.type \in TypeNames
  <2>1. l \in 0 .. Len(Levels) /\ pointer \in Reach(l + 1)
    BY ReachAll
  <2>2. \E elements \in SUBSET Reach(l) : SendableVariable(v, b, elements)
    BY <2>1, ElementsBelow
  <2> QED  BY <2>2, TypesAreNames DEF SendableVariable
<1> HIDE DEF v
<1> QED  BY <1>2, <1>3, SentValueShape DEF v

-----------------------------------------------------------------------------
(* Responses *)

\* What is the same in two variables but for an error mark.
Unmarked(v, s) ==
  /\ IsVariable(v) /\ \A k \in Members \ {"errorStruct", "structValue"} : v[k] = s[k]
  /\ DOMAIN s.structValue \subseteq DOMAIN v.structValue
  /\ \A n \in DOMAIN s.structValue : v.structValue[n] = s.structValue[n]

LEMMA FaultsAdded ==
  ASSUME NEW v, IsVariable(v)
  PROVE  /\ WithFaults(v).errorStruct = TRUE
         /\ {FaultCode, FaultString} \subseteq DOMAIN WithFaults(v).structValue
         /\ Unmarked(WithFaults(v), v)
<1> DEFINE s  == v.structValue
           s1 == mapInsert(s, FaultCode, Integer(-1))
           s2 == mapInsert(s1, FaultString, String(undefined))
           w  == [v EXCEPT !["errorStruct"] = TRUE]
           x  == [w EXCEPT !["structValue"] = s2]
<1>1. "errorStruct" \in Members /\ "structValue" \in Members
  BY DEF Members
<1>2. DOMAIN s1 = DOMAIN s \cup {FaultCode} /\ \A n \in DOMAIN s : s1[n] = s[n]
  BY DEF mapInsert
<1> HIDE DEF s1
<1>3. DOMAIN s2 = DOMAIN s1 \cup {FaultString} /\ \A n \in DOMAIN s1 : s2[n] = s1[n]
  BY DEF mapInsert
<1>4. IsVariable(w) /\ w["errorStruct"] = TRUE /\ \A k \in Members : k # "errorStruct" => w[k] = v[k]
  BY <1>1, ExceptMember
<1>5. WithFaults(v) = x
  <2>1. w.structValue = s
    BY <1>1, <1>4
  <2> QED  BY DEF WithFaults, s1
<1> HIDE DEF w, s2
<1>6. IsVariable(x) /\ x["structValue"] = s2 /\ \A k \in Members : k # "structValue" => x[k] = w[k]
  BY <1>1, <1>4, ExceptMember
<1> HIDE DEF x
<1>7. x.errorStruct = TRUE /\ x.structValue = s2
  BY <1>1, <1>4, <1>6
<1>8. \A k \in Members \ {"errorStruct", "structValue"} : x[k] = v[k]
  BY <1>4, <1>6
<1> QED  BY <1>2, <1>3, <1>5, <1>6, <1>7, <1>8 DEF Unmarked

\* What decodeResponse or decodeInPlace returns, and what is compared of it.
Received(packet, offset, b) ==
  IF b.inPlace THEN decodeInPlace(packet, offset, b) ELSE decodeResponse(packet, offset, b)
ValueOf(v, b) == IF b.inPlace /\ v.type # "tBinary" THEN [v EXCEPT !.binaryValue = <<>>] ELSE v

SameValue(v, s) ==
  /\ [v EXCEPT !.errorStruct = s.errorStruct, !.structValue = s.structValue] = s
  /\ DOMAIN s.structValue \subseteq DOMAIN v.structValue
  /\ Restrict(v.structValue, DOMAIN s.structValue) = s.structValue

LEMMA UnmarkedIsSame ==
  ASSUME NEW u, NEW s, Shape(s, u), NEW v, Unmarked(v, s)
  PROVE  SameValue(v, s)
<1> DEFINE w == [v EXCEPT !["errorStruct"] = s.errorStruct]
           x == [w EXCEPT !["structValue"] = s.structValue]
<1>1. "errorStruct" \in Members /\ "structValue" \in Members
  BY DEF Members
<1>2. IsVariable(v) /\ IsVariable(s)
  BY DEF Unmarked, Shape
<1>3. IsVariable(w) /\ w["errorStruct"] = s.errorStruct
      /\ \A k \in Members : k # "errorStruct" => w[k] = v[k]
  BY <1>1, <1>2, ExceptMember
<1>4. [v EXCEPT !.errorStruct = s.errorStruct, !.structValue = s.structValue] = x
  OBVIOUS
<1> HIDE DEF w
<1>5. IsVariable(x) /\ x["structValue"] = s.structValue
      /\ \A k \in Members : k # "structValue" => x[k] = w[k]
  BY <1>1, <1>3, ExceptMember
<1> HIDE DEF x
<1>6. \A k \in Members : x[k] = s[k]
  BY <1>1, <1>3, <1>5 DEF Unmarked
<1>7. x = s
  BY <1>2, <1>5, <1>6 DEF IsVariable
<1>8. Restrict(v.structValue, DOMAIN s.structValue) = s.structValue
  BY DEF Restrict, Unmarked, Shape
<1> QED  BY <1>4, <1>7, <1>8 DEF SameValue, Unmarked

LEMMA UnmarkedSelf ==
  ASSUME NEW u, NEW s, Shape(s, u)
  PROVE  Unmarked(s, s)
BY DEF Shape, Unmarked

\* Decoding in place leaves the packet in the variable.
LEMMA WithPacket ==
  ASSUME NEW u, NEW s, Shape(s, u), NEW p
  PROVE  /\ IsVariable([s EXCEPT !.binaryValue = p]) /\ [s EXCEPT !.binaryValue = p].binaryValue = p
         /\ \A k \in Members \ {"binaryValue"} : [s EXCEPT !.binaryValue = p][k] = s[k]
<1> DEFINE w == [s EXCEPT !["binaryValue"] = p]
<1>1. "binaryValue" \in Members /\ IsVariable(s)
  BY DEF Members, Shape
<1>2. IsVariable(w) /\ w["binaryValue"] = p /\ \A k \in Members : k # "binaryValue" => w[k] = s[k]
  BY <1>1, ExceptMember
<1> QED  BY <1>2

LEMMA WithoutPacket ==
  ASSUME NEW u, NEW s, Shape(s, u), s.type # "tBinary", NEW p, NEW v,
         Unmarked(v, [s EXCEPT !.binaryValue = p])
  PROVE  Unmarked([v EXCEPT !.binaryValue = <<>>], s)
<1> DEFINE w == [s EXCEPT !.binaryValue = p]
           none == <<>>
           x == [v EXCEPT !["binaryValue"] = none]
<1>1. IsVariable(w) /\ \A k \in Members \ {"binaryValue"} : w[k] = s[k]
  BY WithPacket
<1> HIDE DEF w
<1>2. IsVariable(v) /\ Unmarked(v, w) /\ IsVariable(s) /\ s["binaryValue"] = <<>>
  BY DEF Unmarked, Shape, w
<1>3. /\ "binaryValue" \in Members /\ "errorStruct" \in Members /\ "structValue" \in Members
  BY DEF Members
<1> HIDE DEF none
<1>4. IsVariable(x) /\ x["binaryValue"] = none /\ \A k \in Members : k # "binaryValue" => x[k] = v[k]
  <2>1. IsVariable(v)
    BY <1>2
  <2> QED  BY <1>3, <2>1, ExceptMember
<1> HIDE DEF x
<1>5. \A k \in Members \ {"errorStruct", "structValue"} : x[k] = s[k]
  <2> TAKE k \in Members \ {"errorStruct", "structValue"}
  <2>1. CASE k = "binaryValue"
    BY <1>2, <1>4, <2>1 DEF none
  <2>2. CASE k # "binaryValue"
    <3>1. x[k] = v[k] /\ w[k] = s[k]
      BY <1>1, <1>4, <2>2
    <3>2. v[k] = w[k]
      BY <1>2 DEF Unmarked
    <3> QED  BY <3>1, <3>2
  <2> QED  BY <2>1, <2>2
<1>6. x.structValue = v.structValue /\ w.structValue = s.structValue
  BY <1>1, <1>3, <1>4
<1>7. Unmarked(x, s)
  BY <1>2, <1>4, <1>5, <1>6 DEF Unmarked
<1> QED  BY <1>7 DEF x, none

\* An error as whoever handles it expects it.
Marked(v) == {FaultCode, FaultString} \subseteq DOMAIN v.structValue

\* The variable of a response arrives as Sent says, and as an error exactly if it
\* was sent as one, looks like one, or has the type byte of an error in it.
LEMMA ResponseArrives ==
  ASSUME CodecConstants, NEW b, {b.forceInteger64, b.inPlace} \subseteq BOOLEAN,
         AllSendableTo(b), NEW packet \in Seq(Nat), Len(packet) >= 4, NEW offset \in Nat,
         NEW pointer \in Pointers, Has(packet, 8 + offset, encodeVariable(pointer, b)),
         packet[4] = Error => Sent(pointer, b).errorStruct
  PROVE  LET r == Received(packet, offset, b)
             s == Sent(pointer, b)
         IN /\ SameValue(ValueOf(r, b), s)
            /\ r.errorStruct <=> s.errorStruct \/ (/\ b.inPlace /\ r.type = "tBinary"
                                                  /\ Len(r.binaryValue) > 3 /\ r.binaryValue[4] = 255)
            /\ r.errorStruct => Marked(r)
<1> DEFINE r == Received(packet, offset, b)
           s == Sent(pointer, b)
           u == pointedTo(pointer)
<1>1. Shape(s, u)
  BY SentShape
<1>2. decodeParameter(packet, offset + 8, b).value = s
  <2>1. offset + 8 = 8 + offset /\ 8 + offset \in Nat
    OBVIOUS
  <2>2. decodeParameter(packet, 8 + offset, b) = At(s, 8 + offset + Len(encodeVariable(pointer, b)))
    BY <2>1, DecodeParameter
  <2> HIDE DEF s
  <2> QED  BY <2>1, <2>2 DEF At
<1> HIDE DEF s, u
<1>3. packet[4] = Error => s.errorStruct
  BY DEF s
<1>4. s.errorStruct \in BOOLEAN /\ (s.errorStruct => Marked(s)) /\ Unmarked(s, s) /\ IsVariable(s)
  BY <1>1, UnmarkedSelf DEF Shape, Marked
<1>5. "type" \in Members \ {"errorStruct", "structValue"}
      /\ "binaryValue" \in Members \ {"errorStruct", "structValue"}
      /\ "type" \in Members \ {"binaryValue"} /\ "errorStruct" \in Members \ {"binaryValue"}
      /\ "structValue" \in Members \ {"binaryValue"}
  BY DEF Members
<1>6. CASE ~b.inPlace
  <2>1. r = IF isErrorByte(packet[4], b) THEN WithFaults(s) ELSE s
    BY <1>2, <1>6 DEF decodeResponse, Received
  <2> HIDE DEF r
  <2>2. CASE isErrorByte(packet[4], b)
    <3>1. Unmarked(r, s) /\ r.errorStruct = TRUE /\ Marked(r)
      BY <1>4, <2>1, <2>2, FaultsAdded DEF Marked
    <3>2. s.errorStruct
      BY <1>3, <2>2 DEF isErrorByte
    <3>3. SameValue(r, s)
      BY <1>1, <3>1, UnmarkedIsSame
    <3> QED  BY <1>6, <3>1, <3>2, <3>3 DEF ValueOf, r, s
  <2>3. CASE ~isErrorByte(packet[4], b)
    <3>1. r = s
      BY <2>1, <2>3
    <3>2. SameValue(r, s)
      BY <1>1, <1>4, <3>1, UnmarkedIsSame
    <3> QED  BY <1>4, <1>6, <3>1, <3>2 DEF ValueOf, r, s
  <2> QED  BY <2>2, <2>3
<1>7. CASE b.inPlace /\ s.type = "tBinary"
  <2>1. r = IF typeByteOf(packet, s) = Error THEN WithFaults(s) ELSE s
    BY <1>2, <1>7 DEF decodeInPlace, Received
  <2> HIDE DEF r
  <2>2. CASE typeByteOf(packet, s) = Error
    <3>1. Unmarked(r, s) /\ r.errorStruct = TRUE /\ Marked(r)
      BY <1>4, <2>1, <2>2, FaultsAdded DEF Marked
    <3>2. r.type = "tBinary" /\ r.binaryValue = s.binaryValue
      BY <1>5, <1>7, <3>1 DEF Unmarked
    <3>3. ~(Len(s.binaryValue) < 4) /\ s.binaryValue[4] = 255
      BY <2>2 DEF typeByteOf, Error, Response
    <3>4. SameValue(r, s)
      BY <1>1, <3>1, UnmarkedIsSame
    <3> QED  BY <1>7, <3>1, <3>2, <3>3, <3>4 DEF ValueOf, r, s
  <2>3. CASE typeByteOf(packet, s) # Error
    <3>1. r = s
      BY <2>1, <2>3
    <3>2. Len(s.binaryValue) < 4 \/ s.binaryValue[4] # 255
      BY <2>3 DEF typeByteOf, Error
    <3>3. SameValue(r, s)
      BY <1>1, <1>4, <3>1, UnmarkedIsSame
    <3> QED  BY <1>4, <1>7, <3>1, <3>2, <3>3 DEF ValueOf, r, s
  <2> QED  BY <2>2, <2>3
<1>8. CASE b.inPlace /\ s.type # "tBinary"
  <2> DEFINE w == [s EXCEPT !.binaryValue = packet]
  <2>1. /\ IsVariable(w) /\ w.binaryValue = packet
        /\ \A k \in Members \ {"binaryValue"} : w[k] = s[k]
    BY <1>1, WithPacket
  <2>2. r = IF typeByteOf(packet, w) = Error THEN WithFaults(w) ELSE w
    BY <1>2, <1>8 DEF decodeInPlace, Received
  <2>3. ASSUME Unmarked(r, w) PROVE SameValue(ValueOf(r, b), s) /\ r.type # "tBinary"
    <3> HIDE DEF r
    <3>1. r.type = w.type
      BY <1>5, <2>3 DEF Unmarked
    <3>2. r.type # "tBinary"
      BY <1>5, <1>8, <2>1, <3>1
    <3>3. Unmarked([r EXCEPT !.binaryValue = <<>>], s)
      BY <1>1, <1>8, <2>3, WithoutPacket
    <3>4. SameValue([r EXCEPT !.binaryValue = <<>>], s)
      BY <1>1, <3>3, UnmarkedIsSame
    <3> QED  BY <1>8, <3>2, <3>4 DEF ValueOf
  <2> HIDE DEF w, r
  <2>4. typeByteOf(packet, w) = packet[4]
    BY <2>1 DEF typeByteOf
  <2>5. CASE packet[4] = Error
    <3>1. Unmarked(r, w) /\ r.errorStruct = TRUE /\ Marked(r)
      BY <2>1, <2>2, <2>4, <2>5, FaultsAdded DEF Marked
    <3> QED  BY <1>3, <2>3, <2>5, <3>1 DEF r, s
  <2>6. CASE packet[4] # Error
    <3>1. r = w
      BY <2>2, <2>4, <2>6
    <3>2. w.errorStruct = s.errorStruct /\ w.structValue = s.structValue
      BY <1>5, <2>1
    <3>3. Unmarked(r, w)
      BY <2>1, <3>1 DEF Unmarked
    <3>4. r.errorStruct => Marked(r)
      BY <1>4, <3>1, <3>2 DEF Marked
    <3> QED  BY <2>3, <3>1, <3>2, <3>3, <3>4 DEF r, s
  <2> QED  BY <2>5, <2>6
<1> QED  BY <1>6, <1>7, <1>8

\* What is behind the type of a packet.
LEMMA HasBehind ==
  ASSUME NEW s \in Seq(Nat), NEW t \in Seq(Nat)
  PROVE  s \o t \in Seq(Nat) /\ Len(s \o t) = Len(s) + Len(t) /\ Has(s \o t, Len(s), t)
<1> DEFINE p == s \o t
           m == Len(s)
           n == Len(t)
<1>1. /\ p \in Seq(Nat) /\ Len(p) = m + n /\ m \in Nat /\ n \in Nat
      /\ \A i \in 1 .. m + n : p[i] = IF i <= m THEN s[i] ELSE t[i - m]
  BY ConcatProperties, LenProperties
<1> HIDE DEF p, m, n
<1>2. \A i \in 1 .. n : p[m + i] = t[i]
  <2> TAKE i \in 1 .. n
  <2> DEFINE k == m + i
  <2>1. k \in 1 .. m + n /\ ~(k <= m) /\ k - m = i
    BY <1>1
  <2> HIDE DEF k
  <2>2. p[k] = t[k - m]
    BY <1>1, <2>1
  <2> QED  BY <2>1, <2>2 DEF k
<1>3. Has(p, m, t)
  BY <1>1, <1>2 DEF Has, n
<1> QED  BY <1>1, <1>3 DEF p, m, n

LEMMA PlainForm ==
  ASSUME CodecConstants, NEW o \in Seq(Nat), Len(o) = 4, NEW body \in Seq(Nat),
         Len(body) < Range32, NEW p, p = o \o encodeInteger(Len(body)) \o body, p[4] \notin Flagged
  PROVE  PlainPacket(p, body)
<1> DEFINE n == Len(body)
           t == encodeInteger(n)
           tb == t \o body
<1>1. n \in Nat /\ n \in 0 .. Range32 - 1
  <2>1. n \in Nat /\ n < Range32
    BY LenProperties
  <2> HIDE DEF n
  <2> QED  BY <2>1, CodecRadix
<1>2. t \in Seq(Nat) /\ Len(t) = 4
  BY <1>1, IntegerDigits
<1> HIDE DEF t
<1>3. tb \in Seq(Nat) /\ Len(tb) = 4 + n
  BY <1>2, HasBehind
<1>4. p = o \o tb
  BY <1>2, ThreeParts, ZenonT(60) DEF t
<1> HIDE DEF tb
<1>5. p \in Seq(Nat) /\ Len(p) = Len(o) + Len(tb) /\ Has(p, Len(o), tb)
  BY <1>3, <1>4, HasBehind, ZenonT(60)
<1> HIDE DEF n
<1>6. Len(p) = 8 + n /\ Has(p, 4, tb)
  BY <1>1, <1>3, <1>5
<1> QED  BY <1>1, <1>5, <1>6 DEF PlainPacket, n, t, tb

LEMMA FullForm ==
  ASSUME CodecConstants, NEW o \in Seq(Nat), Len(o) = 4, NEW a \in Seq(Nat),
         SendableString(fields(a)), NEW body \in Seq(Nat), NEW p,
         p = o \o (encodeInteger(Len(fields(a))) \o fields(a)) \o (encodeInteger(Len(body)) \o body),
         p[4] \in Flagged
  PROVE  FullPacket(p, a, body)
<1> DEFINE f == fields(a)
           s == encodeInteger(Len(f))
           t == encodeInteger(Len(body))
           sf == s \o f
           tb == t \o body
           all == sf \o tb
<1>1. f \in Seq(Nat) /\ Len(f) \in Nat /\ Len(body) \in Nat
  BY LenProperties DEF SendableString
<1>2. s \in Seq(Nat) /\ t \in Seq(Nat)
  BY <1>1, IntegerDigits
<1> HIDE DEF f, s, t
<1>3. sf \in Seq(Nat) /\ tb \in Seq(Nat)
  BY <1>1, <1>2, ConcatProperties
<1>4. p = o \o sf \o tb
  BY DEF f, s, t
<1> HIDE DEF sf, tb
<1>5. p = o \o all /\ all \in Seq(Nat)
  <2>1. o \o (sf \o tb) = (o \o sf) \o tb /\ sf \o tb \in Seq(Nat)
    BY <1>3, ThreeParts, ZenonT(60)
  <2> QED  BY <1>4, <2>1
<1>6. p \in Seq(Nat) /\ Has(p, 4, all)
  <2> HIDE DEF all
  <2>1. p \in Seq(Nat) /\ Has(p, Len(o), all)
    <3>1. o \o all \in Seq(Nat) /\ Has(o \o all, Len(o), all)
      BY <1>5, HasBehind
    <3> QED  BY <1>5, <3>1
  <2> QED  BY <2>1
<1> QED  BY <1>6 DEF FullPacket, all, sf, tb, s, t, f
=============================================================================
