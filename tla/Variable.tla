------------------------------ MODULE Variable ------------------------------
(***************************************************************************)
(* Values of Flows::Variable (src/src/Variable.cpp).  Every variable has   *)
(* all the members; those that do not belong to its type are set from the  *)
(* value where the constructors do so, and keep their defaults otherwise.  *)
(*                                                                         *)
(* A string is a short sequence of bytes; a name that the code knows is    *)
(* one byte.  A double is <<n, k>> for n * 2^k with n odd, or <<0, 0>>.    *)
(* A pointer to a variable is the variable, or Null.                       *)
(***************************************************************************)
EXTENDS Integers, Sequences

CONSTANTS
  Null,   \* the null shared_ptr
  Radix   \* values of one digit of a number, 256 in the code

\* Names and strings with a meaning.
FaultCode   == <<201>>
FaultString == <<202>>
Undefined   == <<203>>     \* "UNDEFINED"
undefined   == <<204>>     \* "undefined"
False       == <<205>>     \* "false"
Zero        == <<48>>      \* "0"
F           == <<102>>     \* "f"
Digits      == 48 .. 57

Range32 == Radix * Radix * Radix * Radix    \* values of int32_t
Range64 == Range32 * Range32                \* values of int64_t

\* What a cast to a signed type of so many values makes of i.
Signed(i, range) == LET u == i % range IN IF u < range \div 2 THEN u ELSE u - range

NoStruct == [name \in {} |-> Null]

PowerOf2[n \in Nat] == IF n = 0 THEN 1 ELSE 2 * PowerOf2[n - 1]

\* The double of n * 2^k: of n, only what is odd remains.
FloatOf(n, k) ==
  LET j == CHOOSE j \in 0 .. IF n < 0 THEN -n ELSE n :
             n % PowerOf2[j] = 0 /\ (n \div PowerOf2[j]) % 2 = 1
  IN IF n = 0 THEN <<0, 0>> ELSE <<n \div PowerOf2[j], k + j>>

\* The rounding of std::lround and llround.
Round(f) ==
  LET n == f[1]  k == f[2]
      Half(m) == (m + PowerOf2[-k - 1]) \div PowerOf2[-k]
  IN IF k >= 0 THEN n * PowerOf2[k] ELSE IF n < 0 THEN -Half(-n) ELSE Half(n)

-----------------------------------------------------------------------------
(* Constructors *)

Void ==
  [type |-> "tVoid", errorStruct |-> FALSE, stringValue |-> <<>>,
   integerValue |-> 0, integerValue64 |-> 0, floatValue |-> <<0, 0>>,
   booleanValue |-> FALSE, arrayValue |-> <<>>, structValue |-> NoStruct,
   binaryValue |-> <<>>]

\* Line 67.
OfType(t) == [Void EXCEPT !.type = IF t = "tVariant" THEN "tVoid" ELSE t]

\* Lines 72-110, of any integer type.
Number(t, i) ==
  [Void EXCEPT !.type = t, !.integerValue = Signed(i, Range32),
               !.integerValue64 = Signed(i, Range64),
               !.floatValue = FloatOf(i, 0), !.booleanValue = i # 0]

Integer(i)   == Number("tInteger", i)
Integer64(i) == Number("tInteger64", i)

\* Math::getNumber64, of strings of at most one digit.
getNumber64(s) == IF Len(s) = 1 /\ s[1] \in Digits THEN s[1] - 48 ELSE 0

\* Lines 112-118; a decoder does the same for Base64.
WithString(v, s) ==
  [v EXCEPT !.stringValue = s, !.integerValue64 = getNumber64(s),
            !.integerValue = Signed(getNumber64(s), Range32),
            !.booleanValue = s \notin {<<>>, Zero, False, F}]

String(s)  == WithString(OfType("tString"), s)
Base64(s)  == [OfType("tBase64") EXCEPT !.stringValue = s]
Boolean(b) == LET i == IF b THEN 1 ELSE 0 IN
  [OfType("tBoolean") EXCEPT !.booleanValue = b, !.integerValue = i, !.integerValue64 = i]

\* Lines 130-136.
Float(f) ==
  [OfType("tFloat") EXCEPT !.floatValue = f, !.integerValue = Signed(Round(f), Range32),
                           !.integerValue64 = Round(f), !.booleanValue = f # <<0, 0>>]

Array(a)  == [OfType("tArray") EXCEPT !.arrayValue = a]
Struct(s) == [OfType("tStruct") EXCEPT !.structValue = s]
Binary(b) == [OfType("tBinary") EXCEPT !.binaryValue = b]

\* Lines 200-206.
createError(code, text) ==
  [Struct([n \in {FaultCode, FaultString} |->
             IF n = FaultCode THEN Integer(code) ELSE String(text)])
   EXCEPT !.errorStruct = TRUE]
=============================================================================
