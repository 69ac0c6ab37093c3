---------------------------- MODULE FlattenProofs ----------------------------
(***************************************************************************)
(* What recursive functions on numbers compute, what FlattenSeq, one of    *)
(* them, makes of a sequence of sequences, and division: a lemma library   *)
(* for the proofs about Messages, BinaryRpc and RpcCodec.  The induction   *)
(* of NaturalInduction is over a set instead of a predicate, which         *)
(* first-order provers can instantiate.                                    *)
(***************************************************************************)
EXTENDS Integers, SequencesExt, SequenceTheorems, FiniteSetTheorems, WellFoundedInduction, TLAPS

\* A set that holds 0 and with each number the next one holds all numbers.
LEMMA NaturalInduction ==
  ASSUME NEW T, 0 \in T, \A n \in Nat : n \in T => n + 1 \in T
  PROVE  \A n \in Nat : n \in T
<1>1. SUFFICES ASSUME NEW m \in Nat, m \notin T PROVE FALSE
  OBVIOUS
<1> DEFINE Missing == {k \in Nat : k \notin T}
           Below == {0 .. k : k \in Missing}
<1>2. IsWellFoundedOn(StrictSubsetOrdering(Nat), FiniteSubsetsOf(Nat))
  BY FS_StrictSubsetOrderingWellFounded
<1>3. Below \subseteq FiniteSubsetsOf(Nat)
  <2>1. \A k \in Nat : IsFiniteSet(0 .. k) /\ 0 .. k \in SUBSET Nat
    BY FS_Interval
  <2> QED  BY <2>1 DEF FiniteSubsetsOf
<1>4. Below # {}
  BY <1>1
<1> HIDE DEF Below
<1>5. PICK x \in Below : \A y \in Below : ~(<<y, x>> \in StrictSubsetOrdering(Nat))
  BY <1>2, <1>3, <1>4, WFMin
<1> USE DEF Below
<1>6. PICK k \in Missing : x = 0 .. k
  BY <1>5
<1>7. k # 0 /\ k - 1 \in Missing
  BY <1>1, <1>6
<1>8. 0 .. k - 1 \in Below
  BY <1>7
<1>9. <<0 .. k - 1, x>> \in StrictSubsetOrdering(Nat)
  <2>1. 0 .. k - 1 \in SUBSET Nat /\ x \in SUBSET Nat /\ 0 .. k - 1 \subseteq x
    BY <1>6, <1>7
  <2>2. k \in x /\ k \notin 0 .. k - 1
    BY <1>6, <1>7
  <2> QED  BY <2>1, <2>2 DEF StrictSubsetOrdering
<1> QED  BY <1>5, <1>8, <1>9

-----------------------------------------------------------------------------
(* Division *)

LEMMA DivisionStep ==
  ASSUME NEW w \in Nat \ {0}, NEW k \in Int, NEW r \in 0 .. w - 1
  PROVE  (k * w + r) \div w = k /\ (k * w + r) % w = r
  OBVIOUS

\* The provers know this of numbers, but not of a divisor that is a parameter.
LEMMA Division ==
  ASSUME NEW w \in Nat \ {0}, NEW n \in Nat
  PROVE  n = (n \div w) * w + (n % w) /\ n \div w \in Nat /\ n % w \in 0 .. w - 1
<1> DEFINE T == {i \in Nat : \E k \in Nat : \E r \in 0 .. w - 1 : i = k * w + r}
<1>1. 0 \in T
  <2>1. 0 = 0 * w + 0 /\ 0 \in 0 .. w - 1
    OBVIOUS
  <2> QED  BY <2>1
<1>2. ASSUME NEW i \in Nat, i \in T PROVE i + 1 \in T
  <2>1. PICK k \in Nat, r \in 0 .. w - 1 : i = k * w + r
    BY <1>2
  <2>2. CASE r + 1 < w
    <3>1. r + 1 \in 0 .. w - 1 /\ i + 1 = k * w + (r + 1)
      BY <2>1, <2>2
    <3> QED  BY <3>1
  <2>3. CASE ~(r + 1 < w)
    <3>1. r + 1 = w /\ 0 \in 0 .. w - 1 /\ k + 1 \in Nat
      BY <2>3
    <3>2. (k + 1) * w = k * w + w
      OBVIOUS
    <3>3. i + 1 = (k + 1) * w + 0
      <4> DEFINE v == k * w
      <4>1. v \in Nat /\ i = v + r /\ (k + 1) * w = v + w
        BY <2>1, <3>2
      <4> HIDE DEF v
      <4> QED  BY <3>1, <4>1
    <3>4. \E c \in Nat : \E d \in 0 .. w - 1 : i + 1 = c * w + d
      <4> WITNESS k + 1 \in Nat
      <4> WITNESS 0 \in 0 .. w - 1
      <4> QED  BY <3>3
    <3> QED  BY <3>4
  <2> QED  BY <2>2, <2>3
<1> HIDE DEF T
<1>3. n \in T
  BY <1>1, <1>2, NaturalInduction
<1>4. PICK k \in Nat, r \in 0 .. w - 1 : n = k * w + r
  BY <1>3 DEF T
<1>5. n \div w = k /\ n % w = r
  BY <1>4, DivisionStep
<1> QED  BY <1>4, <1>5

LEMMA Quotient ==
  ASSUME NEW w \in Nat \ {0}, NEW b \in Nat, NEW n \in Nat, n < b * w
  PROVE  n \div w < b
<1> DEFINE k == n \div w
           r == n % w
<1>1. n = k * w + r /\ k \in Nat /\ r \in Nat
  BY Division
<1> HIDE DEF k, r
<1>2. SUFFICES ASSUME k >= b PROVE FALSE
  BY <1>1 DEF k
<1>3. PICK d \in Nat : k = b + d
  BY <1>1, <1>2
<1>4. k * w = b * w + d * w /\ d * w \in Nat /\ b * w \in Nat
  BY <1>3
<1> QED  BY <1>1, <1>4

LEMMA QuotientType ==
  ASSUME NEW w \in Nat \ {0}, NEW n \in Nat
  PROVE  n \div w \in Nat /\ n % w \in Nat
  OBVIOUS

LEMMA DigitBounds ==
  ASSUME NEW w \in Nat \ {0}, NEW b \in Nat, NEW n \in Nat, n < b * w
  PROVE  /\ n = (n \div w) * w + (n % w) /\ n \div w \in Nat /\ n \div w < b
         /\ n % w \in Nat
BY Division, Quotient

\* The same of negative numbers.
LEMMA IntegerDivision ==
  ASSUME NEW w \in Nat \ {0}, NEW n \in Int
  PROVE  n = (n \div w) * w + (n % w) /\ n \div w \in Int /\ n % w \in 0 .. w - 1
<1>1. CASE n \in Nat
  BY <1>1, Division
<1>2. CASE n \notin Nat
  <2> DEFINE m == -n
             k == m \div w
             r == m % w
  <2>1. m \in Nat /\ n = -m
    BY <1>2
  <2>2. m = k * w + r /\ k \in Nat /\ r \in 0 .. w - 1
    <3> HIDE DEF m
    <3> QED  BY <2>1, Division
  <2> HIDE DEF m, k, r
  <2>3. \E c \in Int : \E d \in 0 .. w - 1 : n = c * w + d
    <3>1. CASE r = 0
      <4>1. n = (-k) * w + 0 /\ -k \in Int /\ 0 \in 0 .. w - 1
        <5>1. (-k) * w = -(k * w)
          BY <2>2
        <5>2. k * w \in Int
          BY <2>2
        <5> DEFINE p == k * w
                   q == (-k) * w
        <5>3. p \in Int /\ q = -p /\ m = p + r
          BY <2>2, <5>1, <5>2
        <5> HIDE DEF p, q
        <5>4. n = q + 0
          BY <2>1, <3>1, <5>3
        <5> QED  BY <2>2, <5>4 DEF q
      <4> QED  BY <4>1
    <3>2. CASE r # 0
      <4>1. (-k - 1) * w = -(k * w) - w /\ k * w \in Int
        BY <2>2
      <4> DEFINE p == k * w
                 q == (-k - 1) * w
      <4>2. p \in Int /\ q = -p - w /\ m = p + r
        BY <2>2, <4>1
      <4> HIDE DEF p, q
      <4>3. n = q + (w - r) /\ w - r \in 0 .. w - 1 /\ -k - 1 \in Int
        BY <2>1, <2>2, <3>2, <4>2
      <4> QED  BY <4>3 DEF q
    <3> QED  BY <3>1, <3>2
  <2>4. PICK c \in Int, d \in 0 .. w - 1 : n = c * w + d
    BY <2>3
  <2>5. n \div w = c /\ n % w = d
    BY <2>4, DivisionStep
  <2> QED  BY <2>4, <2>5
<1> QED  BY <1>1, <1>2

\* One digit more.
LEMMA Horner ==
  ASSUME NEW w \in Nat \ {0}, NEW m \in Nat \ {0}, NEW a \in 0 .. m - 1, NEW d \in 0 .. w - 1
  PROVE  a * w + d \in 0 .. m * w - 1
<1>1. PICK c \in Nat : m = a + 1 + c
  <2>1. m - a - 1 \in Nat /\ m = a + 1 + (m - a - 1)
    OBVIOUS
  <2> QED  BY <2>1
<1>2. m * w = a * w + w + c * w /\ a * w \in Nat /\ c * w \in Nat
  BY <1>1
<1> DEFINE p == a * w
           q == c * w
           s == m * w
<1>3. p \in Nat /\ q \in Nat /\ s \in Nat /\ s = p + w + q
  BY <1>2
<1> HIDE DEF p, q, s
<1>4. p + d \in 0 .. s - 1
  BY <1>3
<1> QED  BY <1>4 DEF p, s

-----------------------------------------------------------------------------

\* f comes from first by n steps.
Iterates(f, n, first, step) == f[0] = first /\ \A i \in 1 .. n : f[i] = step[<<i, f[i - 1]>>]

\* A recursive function over 0 .. n that starts in S and stays there exists.
LEMMA Iteration ==
  ASSUME NEW S, NEW n \in Nat, NEW first \in S, NEW step \in [(1 .. n) \X S -> S]
  PROVE  \E f \in [0 .. n -> S] : Iterates(f, n, first, step)
<1> USE DEF Iterates
<1> DEFINE Up(f, m) == f[0] = first /\ \A i \in 1 .. m : f[i] = step[<<i, f[i - 1]>>]
           T == {m \in Nat : m <= n => \E f \in [0 .. m -> S] : Up(f, m)}
<1>1. 0 \in T
  <2>1. [i \in 0 .. 0 |-> first] \in [0 .. 0 -> S]
    OBVIOUS
  <2>2. Up([i \in 0 .. 0 |-> first], 0)
    OBVIOUS
  <2> QED  BY <2>1, <2>2
<1>2. ASSUME NEW m \in Nat, m \in T PROVE m + 1 \in T
  <2>1. SUFFICES ASSUME m + 1 <= n PROVE \E f \in [0 .. m + 1 -> S] : Up(f, m + 1)
    OBVIOUS
  <2>2. PICK f \in [0 .. m -> S] : Up(f, m)
    BY <1>2, <2>1
  <2> DEFINE end == step[<<m + 1, f[m]>>]
             g == [i \in 0 .. m + 1 |-> IF i = m + 1 THEN end ELSE f[i]]
  <2>3. end \in S
    <3>1. <<m + 1, f[m]>> \in (1 .. n) \X S
      BY <2>1, <2>2
    <3> QED  BY <3>1
  <2>4. g \in [0 .. m + 1 -> S]
    <3> HIDE DEF end
    <3> QED  BY <2>2, <2>3
  <2>5. ASSUME NEW i \in 1 .. m + 1 PROVE g[i] = step[<<i, g[i - 1]>>]
    <3>1. i - 1 \in 0 .. m + 1 /\ i - 1 # m + 1 /\ i \in 0 .. m + 1
      OBVIOUS
    <3>2. g[i - 1] = f[i - 1]
      <4> HIDE DEF end
      <4> QED  BY <3>1
    <3>3. CASE i = m + 1
      <4>1. i - 1 = m
        BY <3>3
      <4>2. g[i] = end
        <5> HIDE DEF end
        <5> QED  BY <3>1, <3>3
      <4> QED  BY <3>2, <3>3, <4>1, <4>2
    <3>4. CASE i # m + 1
      <4>1. i \in 1 .. m
        BY <3>4
      <4>2. g[i] = f[i]
        <5> HIDE DEF end
        <5> QED  BY <3>1, <3>4
      <4> QED  BY <2>2, <3>2, <4>1, <4>2
    <3> QED  BY <3>3, <3>4
  <2>6. g[0] = first
    <3> HIDE DEF end
    <3> QED  BY <2>2
  <2> HIDE DEF g
  <2> QED  BY <2>4, <2>5, <2>6
<1> HIDE DEF T
<1>3. \A m \in Nat : m \in T
  BY <1>1, <1>2, NaturalInduction
<1> QED  BY <1>3 DEF T

\* Its definition leaves no choice.
SameSteps(f, g, n) == f[0] = g[0] /\ \A i \in 1 .. n : f[i - 1] = g[i - 1] => f[i] = g[i]

LEMMA IterationsAgree ==
  ASSUME NEW n \in Nat, NEW f, NEW g, SameSteps(f, g, n)
  PROVE  \A i \in 0 .. n : f[i] = g[i]
<1> USE DEF SameSteps
<1> DEFINE T == {i \in Nat : i <= n => f[i] = g[i]}
<1>1. 0 \in T
  OBVIOUS
<1>2. ASSUME NEW i \in Nat, i \in T PROVE i + 1 \in T
  <2>1. CASE i + 1 <= n
    <3>1. i + 1 \in 1 .. n /\ (i + 1) - 1 = i /\ i <= n
      BY <2>1
    <3> QED  BY <1>2, <3>1
  <2> QED  BY <2>1
<1> HIDE DEF T
<1>3. \A i \in Nat : i \in T
  BY <1>1, <1>2, NaturalInduction
<1> QED  BY <1>3 DEF T

-----------------------------------------------------------------------------

\* f are the concatenations of the first 1, 2, ..., n elements of s.
Concatenations(s, n, f) ==
  \A i \in 1 .. n : f[i] = IF i = 1 THEN s[i] ELSE f[i - 1] \o s[i]

LEMMA ConcatenationsAgree ==
  ASSUME NEW s, NEW n \in Nat, NEW f, NEW g, Concatenations(s, n, f), Concatenations(s, n, g)
  PROVE  \A i \in 1 .. n : f[i] = g[i]
<1> DEFINE T == {i \in Nat : i \in 1 .. n => f[i] = g[i]}
<1>1. 0 \in T
  OBVIOUS
<1>2. ASSUME NEW i \in Nat, i \in T PROVE i + 1 \in T
  <2>1. SUFFICES ASSUME i + 1 \in 1 .. n PROVE f[i + 1] = g[i + 1]
    OBVIOUS
  <2>2. CASE i = 0
    BY <2>1, <2>2 DEF Concatenations
  <2>3. CASE i # 0
    <3>1. f[i] = g[i] /\ (i + 1) - 1 = i /\ i + 1 # 1
      BY <1>2, <2>1, <2>3
    <3>2. f[i + 1] = f[(i + 1) - 1] \o s[i + 1] /\ g[i + 1] = g[(i + 1) - 1] \o s[i + 1]
      BY <2>1, <3>1 DEF Concatenations
    <3> QED  BY <2>1, <3>1, <3>2
  <2> QED  BY <2>2, <2>3
<1> HIDE DEF T
<1>3. \A i \in Nat : i \in T
  BY <1>1, <1>2, NaturalInduction
<1> QED  BY <1>3 DEF T

LEMMA ConcatenationsExist ==
  ASSUME NEW s \in Seq(Seq(Nat))
  PROVE  \E f \in [1 .. Len(s) -> Seq(Nat)] : Concatenations(s, Len(s), f)
<1> DEFINE T == {n \in Nat : n <= Len(s) => \E f \in [1 .. n -> Seq(Nat)] : Concatenations(s, n, f)}
<1>a. Len(s) \in Nat /\ \A i \in 1 .. Len(s) : s[i] \in Seq(Nat)
  BY LenProperties, ElementOfSeq
<1>1. 0 \in T
  <2>1. [i \in 1 .. 0 |-> <<>>] \in [1 .. 0 -> Seq(Nat)]
    OBVIOUS
  <2>2. \A f : Concatenations(s, 0, f)
    BY DEF Concatenations
  <2> QED  BY <2>1, <2>2
<1>2. ASSUME NEW n \in Nat, n \in T PROVE n + 1 \in T
  <2>1. SUFFICES ASSUME n + 1 <= Len(s)
                 PROVE  \E f \in [1 .. n + 1 -> Seq(Nat)] : Concatenations(s, n + 1, f)
    OBVIOUS
  <2>2. PICK f \in [1 .. n -> Seq(Nat)] : Concatenations(s, n, f)
    BY <1>a, <1>2, <2>1
  <2> DEFINE last == IF n = 0 THEN s[1] ELSE f[n] \o s[n + 1]
             g == [i \in 1 .. n + 1 |-> IF i = n + 1 THEN last ELSE f[i]]
  <2>3. last \in Seq(Nat)
    <3>1. CASE n = 0
      BY <1>a, <2>1, <3>1
    <3>2. CASE n # 0
      <4>1. f[n] \in Seq(Nat) /\ s[n + 1] \in Seq(Nat)
        BY <1>a, <2>1, <2>2, <3>2
      <4> QED  BY <3>2, <4>1, ConcatProperties
    <3> QED  BY <3>1, <3>2
  <2>4. g \in [1 .. n + 1 -> Seq(Nat)]
    <3> HIDE DEF last
    <3> QED  BY <2>2, <2>3
  <2>5. ASSUME NEW i \in 1 .. n + 1
        PROVE  g[i] = IF i = 1 THEN s[i] ELSE g[i - 1] \o s[i]
    <3>1. CASE i = n + 1
      BY <3>1
    <3>2. CASE i # n + 1
      <4>1. i \in 1 .. n /\ i - 1 # n + 1 /\ (i # 1 => i - 1 \in 1 .. n + 1)
        BY <3>2
      <4>2. g[i] = f[i] /\ (i # 1 => g[i - 1] = f[i - 1])
        <5> HIDE DEF last
        <5> QED  BY <3>2, <4>1
      <4> QED  BY <2>2, <4>1, <4>2 DEF Concatenations
    <3> QED  BY <3>1, <3>2
  <2> HIDE DEF g
  <2> QED  BY <2>4, <2>5 DEF Concatenations
<1> HIDE DEF T
<1>3. \A n \in Nat : n \in T
  BY <1>1, <1>2, NaturalInduction
<1> QED  BY <1>a, <1>3 DEF T

\* FlattenSeq is the last of the concatenations.
LEMMA FlattenIsConcatenation ==
  ASSUME NEW s \in Seq(Seq(Nat)), Len(s) # 0
  PROVE  \E f \in [1 .. Len(s) -> Seq(Nat)] : /\ Concatenations(s, Len(s), f)
                                              /\ FlattenSeq(s) = f[Len(s)]
<1>a. Len(s) \in Nat
  BY LenProperties
<1> DEFINE Def(f) == [i \in 1 .. Len(s) |-> IF i = 1 THEN s[i] ELSE f[i - 1] \o s[i]]
           chosen == CHOOSE f : f = Def(f)
<1>1. PICK f \in [1 .. Len(s) -> Seq(Nat)] : Concatenations(s, Len(s), f)
  BY ConcatenationsExist
<1>2. f = Def(f)
  BY <1>1 DEF Concatenations
<1>3. chosen = Def(chosen)
  BY <1>2
<1>4. FlattenSeq(s) = chosen[Len(s)]
  BY DEF FlattenSeq
<1>5. Concatenations(s, Len(s), chosen)
  <2> HIDE DEF chosen
  <2> QED  BY <1>3 DEF Concatenations
<1>6. chosen[Len(s)] = f[Len(s)]
  <2> HIDE DEF chosen
  <2> QED  BY <1>a, <1>1, <1>5, ConcatenationsAgree
<1> QED  BY <1>1, <1>4, <1>6

LEMMA FlattenEmpty == FlattenSeq(<<>>) = <<>>
BY EmptySeq DEF FlattenSeq

LEMMA FlattenType ==
  ASSUME NEW s \in Seq(Seq(Nat))
  PROVE  FlattenSeq(s) \in Seq(Nat)
<1>1. CASE Len(s) = 0
  <2>1. s = <<>>
    BY <1>1, EmptySeq
  <2> QED  BY <2>1, FlattenEmpty, EmptySeq
<1>2. CASE Len(s) # 0
  <2>1. PICK f \in [1 .. Len(s) -> Seq(Nat)] : FlattenSeq(s) = f[Len(s)]
    BY <1>2, FlattenIsConcatenation
  <2>2. Len(s) \in 1 .. Len(s)
    BY <1>2, LenProperties
  <2> QED  BY <2>1, <2>2
<1> QED  BY <1>1, <1>2

\* One more packet comes behind all others.
LEMMA FlattenAppend ==
  ASSUME NEW s \in Seq(Seq(Nat)), NEW p \in Seq(Nat)
  PROVE  FlattenSeq(Append(s, p)) = FlattenSeq(s) \o p
<1> DEFINE t == Append(s, p)
<1>1. /\ t \in Seq(Seq(Nat)) /\ Len(t) = Len(s) + 1 /\ Len(s) \in Nat
      /\ \A i \in 1 .. Len(s) : t[i] = s[i]
      /\ t[Len(s) + 1] = p
  BY AppendProperties, LenProperties
<1> HIDE DEF t
<1>2. PICK g \in [1 .. Len(t) -> Seq(Nat)] : Concatenations(t, Len(t), g) /\ FlattenSeq(t) = g[Len(t)]
  BY <1>1, FlattenIsConcatenation
<1>3. CASE Len(s) = 0
  <2>1. s = <<>> /\ FlattenSeq(s) = <<>>
    BY <1>3, EmptySeq, FlattenEmpty
  <2>2. FlattenSeq(t) = p
    BY <1>1, <1>2, <1>3 DEF Concatenations
  <2> QED  BY <2>1, <2>2, ConcatEmptySeq DEF t
<1>4. CASE Len(s) # 0
  <2>1. PICK f \in [1 .. Len(s) -> Seq(Nat)] : Concatenations(s, Len(s), f) /\ FlattenSeq(s) = f[Len(s)]
    BY <1>4, FlattenIsConcatenation
  <2>2. Concatenations(s, Len(s), g)
    <3>1. \A i \in 1 .. Len(s) : i \in 1 .. Len(t) /\ s[i] = t[i]
      BY <1>1
    <3> QED  BY <1>2, <3>1 DEF Concatenations
  <2>3. f[Len(s)] = g[Len(s)]
    <3>1. Concatenations(s, Len(s), f) /\ Len(s) \in Nat
      BY <1>1, <2>1
    <3> QED  BY <1>4, <2>2, <3>1, ConcatenationsAgree
  <2>4. g[Len(s) + 1] = g[(Len(s) + 1) - 1] \o p
    <3>1. Len(s) + 1 \in 1 .. Len(t) /\ Len(s) + 1 # 1
      BY <1>1, <1>4
    <3>2. g[Len(s) + 1] = g[(Len(s) + 1) - 1] \o t[Len(s) + 1]
      BY <1>2, <3>1 DEF Concatenations
    <3> QED  BY <1>1, <3>2
  <2>5. g[Len(s)] = f[Len(s)] /\ (Len(s) + 1) - 1 = Len(s)
    BY <1>1, <1>4, <2>3
  <2> QED  BY <1>1, <1>2, <2>1, <2>4, <2>5 DEF t
<1> QED  BY <1>1, <1>3, <1>4

-----------------------------------------------------------------------------

\* All of s comes first in t.
Starts(s, t) == Len(s) <= Len(t) /\ \A i \in 1 .. Len(s) : s[i] = t[i]

LEMMA StartsConcat ==
  ASSUME NEW s \in Seq(Nat), NEW t \in Seq(Nat), NEW u \in Seq(Nat), Starts(s, t)
  PROVE  Starts(s, t \o u)
<1>1. Len(s) \in Nat /\ Len(t) \in Nat /\ Len(u) \in Nat
  BY LenProperties
<1>2. Len(t \o u) = Len(t) + Len(u) /\ \A i \in 1 .. Len(t) : (t \o u)[i] = t[i]
  BY <1>1, ConcatProperties
<1> QED  BY <1>1, <1>2 DEF Starts

\* Packets that come first make bytes that come first.
LEMMA FlattenStarts ==
  ASSUME NEW s \in Seq(Seq(Nat)), NEW t \in Seq(Seq(Nat)), Starts(s, t)
  PROVE  Starts(FlattenSeq(s), FlattenSeq(t))
<1>1. Len(s) \in Nat /\ Len(t) \in Nat /\ Len(s) <= Len(t) /\ \A i \in 1 .. Len(s) : s[i] = t[i]
  BY LenProperties DEF Starts
<1>2. CASE Len(s) = 0
  <2>1. s = <<>> /\ FlattenSeq(s) = <<>> /\ FlattenSeq(t) \in Seq(Nat)
    BY <1>2, EmptySeq, FlattenEmpty, FlattenType
  <2>2. Len(FlattenSeq(t)) \in Nat
    BY <2>1, LenProperties
  <2>3. Len(FlattenSeq(s)) = 0
    BY <2>1, EmptySeq
  <2> QED  BY <2>2, <2>3 DEF Starts
<1>3. CASE Len(s) # 0
  <2>1. PICK f \in [1 .. Len(s) -> Seq(Nat)] : Concatenations(s, Len(s), f) /\ FlattenSeq(s) = f[Len(s)]
    BY <1>3, FlattenIsConcatenation
  <2>2. Len(t) # 0
    BY <1>1, <1>3
  <2>3. PICK g \in [1 .. Len(t) -> Seq(Nat)] : Concatenations(t, Len(t), g) /\ FlattenSeq(t) = g[Len(t)]
    BY <2>2, FlattenIsConcatenation
  <2>4. Concatenations(s, Len(s), g)
    <3>1. \A i \in 1 .. Len(s) : i \in 1 .. Len(t) /\ s[i] = t[i]
      BY <1>1
    <3> QED  BY <2>3, <3>1 DEF Concatenations
  <2>5. f[Len(s)] = g[Len(s)]
    <3>1. Concatenations(s, Len(s), f) /\ Len(s) \in Nat
      BY <1>1, <2>1
    <3> QED  BY <1>3, <2>4, <3>1, ConcatenationsAgree
  <2> DEFINE T == {d \in Nat : Len(s) + d <= Len(t) => Starts(g[Len(s)], g[Len(s) + d])}
  <2>6. 0 \in T
    <3>1. g[Len(s)] \in Seq(Nat) /\ Len(s) + 0 = Len(s)
      BY <1>1, <1>3, <2>3
    <3>2. Len(g[Len(s)]) \in Nat
      BY <3>1, LenProperties
    <3> QED  BY <3>1, <3>2 DEF Starts
  <2>7. ASSUME NEW d \in Nat, d \in T PROVE d + 1 \in T
    <3>1. SUFFICES ASSUME Len(s) + (d + 1) <= Len(t)
                   PROVE  Starts(g[Len(s)], g[Len(s) + (d + 1)])
      OBVIOUS
    <3> DEFINE n == Len(s) + d
    <3>2. /\ n \in 1 .. Len(t) /\ n + 1 \in 1 .. Len(t) /\ n + 1 # 1 /\ (n + 1) - 1 = n
          /\ Len(s) \in 1 .. Len(t) /\ Len(s) + (d + 1) = n + 1
      BY <1>1, <1>3, <3>1
    <3>3. Starts(g[Len(s)], g[n])
      BY <1>1, <2>7, <3>1
    <3> HIDE DEF n
    <3>4. g[n + 1] = g[n] \o t[n + 1]
      BY <2>3, <3>2 DEF Concatenations
    <3>5. g[Len(s)] \in Seq(Nat) /\ g[n] \in Seq(Nat) /\ t[n + 1] \in Seq(Nat)
      BY <2>3, <3>2, ElementOfSeq
    <3>6. Starts(g[Len(s)], g[n] \o t[n + 1])
      BY <3>3, <3>5, StartsConcat
    <3> QED  BY <3>2, <3>4, <3>6
  <2> HIDE DEF T
  <2>8. \A d \in Nat : d \in T
    BY <2>6, <2>7, NaturalInduction
  <2>9. Len(t) - Len(s) \in T
    BY <1>1, <2>8
  <2>10. Starts(g[Len(s)], g[Len(t)])
    <3>1. Len(s) + (Len(t) - Len(s)) = Len(t)
      BY <1>1
    <3> QED  BY <1>1, <2>9, <3>1 DEF T
  <2> QED  BY <2>1, <2>3, <2>5, <2>10
<1> QED  BY <1>1, <1>2, <1>3

\* What comes first behind the same beginning.
LEMMA StartsBehind ==
  ASSUME NEW s \in Seq(Nat), NEW t \in Seq(Nat), NEW u \in Seq(Nat), Starts(s \o t, s \o u)
  PROVE  Starts(t, u)
<1>1. Len(s) \in Nat /\ Len(t) \in Nat /\ Len(u) \in Nat
  BY LenProperties
<1>2. /\ Len(s \o t) = Len(s) + Len(t)
      /\ \A i \in 1 .. Len(s) + Len(t) : (s \o t)[i] = IF i <= Len(s) THEN s[i] ELSE t[i - Len(s)]
  BY ConcatProperties
<1>3. /\ Len(s \o u) = Len(s) + Len(u)
      /\ \A i \in 1 .. Len(s) + Len(u) : (s \o u)[i] = IF i <= Len(s) THEN s[i] ELSE u[i - Len(s)]
  BY ConcatProperties
<1>4. Len(t) <= Len(u)
  BY <1>1, <1>2, <1>3 DEF Starts
<1>5. ASSUME NEW i \in 1 .. Len(t) PROVE t[i] = u[i]
  <2> DEFINE j == Len(s) + i
  <2>1. /\ j \in 1 .. Len(s) + Len(t) /\ j \in 1 .. Len(s) + Len(u)
        /\ ~(j <= Len(s)) /\ j - Len(s) = i
    BY <1>1, <1>4
  <2> HIDE DEF j
  <2>2. (s \o t)[j] = t[i]
    BY <1>2, <2>1
  <2>3. (s \o u)[j] = u[i]
    BY <1>3, <2>1
  <2>4. (s \o t)[j] = (s \o u)[j]
    BY <1>2, <2>1 DEF Starts
  <2> QED  BY <2>2, <2>3, <2>4
<1> QED  BY <1>4, <1>5 DEF Starts
=============================================================================
