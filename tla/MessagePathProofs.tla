-------------------------- MODULE MessagePathProofs --------------------------
(***************************************************************************)
(* Proofs about what set, erase and match of Messages do to the elements   *)
(* that paths name, for any message and any paths, and that no call makes  *)
(* a variable a part of itself.                                            *)
(***************************************************************************)
EXTENDS MessagesProofs

-----------------------------------------------------------------------------
(* What can be reached *)

\* Reach leaves nothing out: with as many steps as there are variables nothing new is
\* left to be found.
LEMMA ReachRegion ==
  ASSUME NEW h \in Seq(Variables), Linked(h), NEW x \in DOMAIN h
  PROVE  x \in Reach(h, x) /\ Region(h, Reach(h, x))
<1> DEFINE n == Len(h)
           D == DOMAIN h
           near(S) == S \cup UNION {Children(h[y]) : y \in S}
<1>1. n \in Nat /\ D = 1 .. n /\ Region(h, D)
  BY HeapType DEF Region, Linked
<1>2. PICK f \in [0 .. n -> SUBSET D] : Spreads(f, h, x)
  BY <1>1, ReachSpreads
<1>3. f[0] = {x} /\ f[n] = Reach(h, x) /\ \A i \in 1 .. n : f[i] = near(f[i - 1])
  BY <1>2 DEF Spreads
<1>4. IsFiniteSet(D) /\ Cardinality(D) = n
  <2> HIDE DEF n, D
  <2>1. 1 \in Int /\ n \in Int
    BY <1>1
  <2>2. IsFiniteSet(1 .. n) /\ Cardinality(1 .. n) = IF 1 > n THEN 0 ELSE n - 1 + 1
    BY <2>1, FS_Interval
  <2>3. (IF 1 > n THEN 0 ELSE n - 1 + 1) = n
    BY <1>1
  <2> QED  BY <1>1, <2>2, <2>3
<1>5. \A i \in 0 .. n : f[i] \in SUBSET D /\ IsFiniteSet(f[i])
  BY <1>2, <1>4, FS_Subset
<1> DEFINE Full(i) == Region(h, f[i]) \/ Cardinality(f[i]) >= i + 1
           T == {i \in Nat : i <= n => x \in f[i] /\ Full(i)}
<1> HIDE DEF n, D
<1>6. 0 \in T
  <2>1. Cardinality(f[0]) = 1
    BY <1>3, FS_Singleton
  <2>2. x \in f[0]
    BY <1>3
  <2>3. Full(0)
    BY <2>1
  <2> HIDE DEF Full
  <2> QED  BY <2>2, <2>3
<1>7. ASSUME NEW i \in Nat, i \in T PROVE i + 1 \in T
  <2> SUFFICES ASSUME i + 1 <= n PROVE x \in f[i + 1] /\ Full(i + 1)
    OBVIOUS
  <2>1. i + 1 \in 1 .. n /\ i \in 0 .. n /\ i + 1 \in 0 .. n /\ (i + 1) - 1 = i /\ i <= n
    BY <1>1
  <2>2. f[i + 1] = near(f[i]) /\ x \in f[i] /\ Full(i)
    BY <1>3, <1>7, <2>1
  <2>3. CASE Region(h, f[i])
    <3>1. f[i + 1] = f[i]
      BY <2>2, <2>3 DEF Region
    <3> QED  BY <2>2, <2>3, <3>1
  <2>4. CASE ~Region(h, f[i])
    <3>1. Cardinality(f[i]) >= i + 1 /\ Cardinality(f[i]) \in Nat
      BY <1>5, <2>1, <2>2, <2>4, FS_CardinalityType
    <3>2. PICK y \in f[i] : \E z \in Children(h[y]) : z \notin f[i]
      BY <1>5, <2>1, <2>4 DEF Region, D
    <3>a. PICK z \in Children(h[y]) : z \notin f[i]
      BY <3>2
    <3> DEFINE more == f[i] \cup {z}
    <3>3. Cardinality(more) = Cardinality(f[i]) + 1
      <4> DEFINE S == f[i]
      <4>1. IsFiniteSet(S) /\ z \notin S
        BY <1>5, <2>1, <3>a
      <4> HIDE DEF S
      <4>2. Cardinality(S \cup {z}) = IF z \in S THEN Cardinality(S) ELSE Cardinality(S) + 1
        BY <4>1, FS_AddElement
      <4> QED  BY <4>1, <4>2 DEF S
    <3>4. more \in SUBSET f[i + 1]
      BY <2>2, <3>a
    <3> HIDE DEF more
    <3>5. Cardinality(more) <= Cardinality(f[i + 1])
      BY <1>5, <2>1, <3>4, FS_Subset
    <3>6. Cardinality(f[i + 1]) \in Nat
      BY <1>5, <2>1, FS_CardinalityType
    <3>7. Cardinality(f[i + 1]) >= (i + 1) + 1
      BY <3>1, <3>3, <3>5, <3>6
    <3> QED  BY <2>2, <3>7
  <2> QED  BY <2>3, <2>4
<1> HIDE DEF T
<1>8. \A i \in Nat : i \in T
  BY <1>6, <1>7, NaturalInduction
<1>9. x \in f[n] /\ Full(n)
  BY <1>1, <1>8 DEF T
<1>10. ~(Cardinality(f[n]) >= n + 1)
  <2>1. n \in 0 .. n
    BY <1>1
  <2>2. Cardinality(f[n]) <= n /\ Cardinality(f[n]) \in Nat
    BY <1>4, <1>5, <2>1, FS_Subset, FS_CardinalityType
  <2> QED  BY <1>1, <2>2
<1> QED  BY <1>3, <1>9, <1>10

-----------------------------------------------------------------------------
(* No variable is part of itself *)

\* Whatever variables are looked at, one of them has none of the others below it.
WellFounded(h) ==
  \A S \in SUBSET DOMAIN h : S # {} => \E x \in S : Children(h[x]) \cap S = {}

LEMMA NoneInItself ==
  ASSUME NEW h \in Seq(Variables), Linked(h),
         \A x \in DOMAIN h : \A y \in Children(h[x]) : x \notin Reach(h, y)
  PROVE  WellFounded(h)
<1> SUFFICES ASSUME NEW S \in SUBSET DOMAIN h, S # {}
             PROVE  \E x \in S : Children(h[x]) \cap S = {}
  BY DEF WellFounded
<1> DEFINE D == DOMAIN h
           Below == {Reach(h, x) : x \in S}
<1>1. D \in SUBSET Nat /\ IsFiniteSet(D) /\ Region(h, D)
  <2>1. D = 1 .. Len(h) /\ Len(h) \in Nat
    BY HeapType
  <2>2. IsFiniteSet(1 .. Len(h))
    BY <2>1, FS_Interval
  <2>3. Region(h, D)
    BY DEF Region, Linked
  <2> HIDE DEF D
  <2> QED  BY <2>1, <2>2, <2>3
<1>2. \A x \in D : x \in Reach(h, x) /\ Region(h, Reach(h, x)) /\ Reach(h, x) \in SUBSET D
  BY ReachRegion DEF Region
<1>3. IsWellFoundedOn(StrictSubsetOrdering(D), FiniteSubsetsOf(D))
  BY FS_StrictSubsetOrderingWellFounded
<1>4. Below \subseteq FiniteSubsetsOf(D)
  <2>1. \A T \in SUBSET D : IsFiniteSet(T)
    BY <1>1, FS_Subset
  <2> QED  BY <1>2, <2>1 DEF FiniteSubsetsOf
<1>5. Below # {}
  OBVIOUS
<1> HIDE DEF Below
<1>6. PICK T \in Below : \A U \in Below : ~(<<U, T>> \in StrictSubsetOrdering(D))
  BY <1>3, <1>4, <1>5, WFMin
<1>7. PICK x \in S : T = Reach(h, x)
  BY DEF Below
<1>8. SUFFICES ASSUME NEW y \in Children(h[x]), y \in S PROVE FALSE
  BY <1>7
<1>9. Reach(h, y) \in Below /\ y \in D
  BY <1>8 DEF Below
<1>10. Reach(h, y) \subseteq Reach(h, x) /\ x \in Reach(h, x) /\ x \notin Reach(h, y)
  <2>1. y \in Reach(h, x)
    BY <1>2 DEF Region
  <2> QED  BY <1>2, <2>1, ReachStays
<1>11. <<Reach(h, y), Reach(h, x)>> \in StrictSubsetOrdering(D)
  BY <1>2, <1>9, <1>10 DEF StrictSubsetOrdering
<1> QED  BY <1>6, <1>7, <1>9, <1>11

\* It stays so if variable x gets elements that lead into a region without x, other
\* variables lose elements, and new variables have none.
LEMMA StaysWellFounded ==
  ASSUME NEW h, NEW g, NEW x, NEW V, WellFounded(h), Region(g, V), x \notin V,
         \A y \in DOMAIN g \ DOMAIN h : Children(g[y]) = {},
         \A y \in DOMAIN g \cap DOMAIN h : y # x => Children(g[y]) \subseteq Children(h[y]),
         x \in DOMAIN g \cap DOMAIN h => Children(g[x]) \subseteq Children(h[x]) \cup V
  PROVE  WellFounded(g)
<1> SUFFICES ASSUME NEW S \in SUBSET DOMAIN g, S # {}
             PROVE  \E y \in S : Children(g[y]) \cap S = {}
  BY DEF WellFounded
<1>1. CASE ~(S \subseteq DOMAIN h)
  BY <1>1
<1>2. CASE S \subseteq DOMAIN h /\ S \cap V # {}
  <2>1. PICK y \in S \cap V : Children(h[y]) \cap (S \cap V) = {}
    <3>1. S \cap V \in SUBSET DOMAIN h
      BY <1>2
    <3> QED  BY <1>2, <3>1 DEF WellFounded
  <2>2. Children(g[y]) \subseteq V /\ Children(g[y]) \subseteq Children(h[y])
    BY <1>2, <2>1 DEF Region
  <2> QED  BY <2>1, <2>2
<1>3. CASE S \subseteq DOMAIN h /\ S \cap V = {}
  <2>1. PICK y \in S : Children(h[y]) \cap S = {}
    BY <1>3 DEF WellFounded
  <2>2. Children(g[y]) \subseteq Children(h[y]) \cup V
    BY <1>3
  <2> QED  BY <1>3, <2>1, <2>2
<1> QED  BY <1>1, <1>2, <1>3

-----------------------------------------------------------------------------
(* Paths are read as they were written *)

Reading == [property : Seq(Parts), current : Seq(Nat), inBrackets : BOOLEAN]

\* In state s the constructor reads the characters of a and is in state t.
Reads(s, a, t) ==
  \E f \in [0 .. Len(a) -> Reading] :
    f[0] = s /\ f[Len(a)] = t /\ \A i \in 1 .. Len(a) : f[i] = read(f[i - 1], a[i])

LEMMA ReadsNothing == ASSUME NEW s \in Reading PROVE Reads(s, <<>>, s)
<1> DEFINE f == [i \in 0 .. 0 |-> s]
           a == <<>>
<1>1. Len(a) = 0 /\ f \in [0 .. 0 -> Reading] /\ f[0] = s /\ \A i \in 1 .. 0 : f[i] = read(f[i - 1], a[i])
  OBVIOUS
<1> HIDE DEF a, f
<1>2. Reads(s, a, s)
  BY <1>1 DEF Reads
<1> QED  BY <1>2 DEF a

LEMMA ReadsOne ==
  ASSUME NEW s \in Reading, NEW c \in Nat, read(s, c) \in Reading
  PROVE  Reads(s, <<c>>, read(s, c))
<1> DEFINE t == read(s, c)
           f == [i \in 0 .. 1 |-> IF i = 0 THEN s ELSE t]
           a == <<c>>
<1> HIDE DEF t
<1>1. Len(a) = 1 /\ f \in [0 .. 1 -> Reading] /\ f[0] = s /\ f[1] = t /\ a[1] = c
  BY DEF t
<1> HIDE DEF a, f
<1>2. \A i \in 1 .. 1 : f[i] = read(f[i - 1], a[i])
  BY <1>1 DEF t
<1>3. Reads(s, a, t)
  BY <1>1, <1>2 DEF Reads
<1> QED  BY <1>3 DEF a, t

LEMMA ReadsBoth ==
  ASSUME NEW s, NEW t, NEW u, NEW a \in Seq(Nat), NEW b \in Seq(Nat), Reads(s, a, t), Reads(t, b, u)
  PROVE  Reads(s, a \o b, u)
<1> DEFINE l == Len(a)
           k == Len(b)
           c == a \o b
<1>1. l \in Nat /\ k \in Nat /\ Len(c) = l + k
      /\ \A i \in 1 .. l + k : c[i] = IF i <= l THEN a[i] ELSE b[i - l]
  BY LenProperties, ConcatProperties
<1>2. PICK f \in [0 .. l -> Reading] :
        f[0] = s /\ f[l] = t /\ \A i \in 1 .. l : f[i] = read(f[i - 1], a[i])
  BY DEF Reads
<1>3. PICK g \in [0 .. k -> Reading] :
        g[0] = t /\ g[k] = u /\ \A i \in 1 .. k : g[i] = read(g[i - 1], b[i])
  BY DEF Reads
<1> DEFINE h == [i \in 0 .. l + k |-> IF i <= l THEN f[i] ELSE g[i - l]]
<1> HIDE DEF l, k, c
<1>4. h \in [0 .. l + k -> Reading]
  <2>1. \A i \in 0 .. l + k : IF i <= l THEN i \in 0 .. l ELSE i - l \in 0 .. k
    BY <1>1
  <2>2. \A i \in 0 .. l + k : (IF i <= l THEN f[i] ELSE g[i - l]) \in Reading
    BY <2>1
  <2> QED  BY <2>2
<1>5. \A i \in 0 .. l + k : h[i] = IF i <= l THEN f[i] ELSE g[i - l]
  OBVIOUS
<1> HIDE DEF h
<1>6. h[0] = s
  BY <1>1, <1>2, <1>5
<1>7. h[l + k] = u
  <2>1. CASE k = 0
    <3>1. l + k = l /\ l \in 0 .. l + k
      BY <1>1, <2>1
    <3> QED  BY <1>1, <1>2, <1>3, <1>5, <2>1, <3>1
  <2>2. CASE k # 0
    <3>1. l + k \in 0 .. l + k /\ ~(l + k <= l) /\ (l + k) - l = k
      BY <1>1, <2>2
    <3> QED  BY <1>3, <1>5, <3>1
  <2> QED  BY <2>1, <2>2
<1>8. ASSUME NEW i \in 1 .. l + k PROVE h[i] = read(h[i - 1], c[i])
  <2>1. CASE i <= l
    <3>1. i \in 1 .. l /\ i - 1 <= l /\ i \in 0 .. l + k /\ i - 1 \in 0 .. l + k
      BY <1>1, <2>1
    <3> QED  BY <1>1, <1>2, <1>5, <2>1, <3>1
  <2>2. CASE i = l + 1
    <3>1. /\ ~(i <= l) /\ i - l = 1 /\ i - 1 = l /\ 1 \in 1 .. k /\ l <= l
          /\ i \in 0 .. l + k /\ l \in 0 .. l + k /\ 1 - 1 = 0
      BY <1>1, <2>2
    <3>2. h[i] = g[1] /\ h[i - 1] = f[l] /\ c[i] = b[1]
      BY <1>1, <1>5, <3>1
    <3>3. g[1] = read(g[0], b[1])
      BY <1>3, <3>1
    <3> QED  BY <1>2, <1>3, <3>2, <3>3
  <2>3. CASE i > l + 1
    <3>1. /\ ~(i <= l) /\ ~(i - 1 <= l) /\ i - l \in 1 .. k /\ (i - 1) - l = (i - l) - 1
          /\ i \in 0 .. l + k /\ i - 1 \in 0 .. l + k
      BY <1>1, <2>3
    <3>2. h[i] = g[i - l] /\ h[i - 1] = g[(i - l) - 1] /\ c[i] = b[i - l]
      BY <1>1, <1>5, <3>1
    <3> QED  BY <1>3, <3>1, <3>2
  <2> QED  BY <1>1, <2>1, <2>2, <2>3
<1> QED  BY <1>1, <1>4, <1>6, <1>7, <1>8 DEF Reads, c

\* The characters of a name or an index are collected.
LEMMA ReadsName ==
  ASSUME NEW q \in Seq(Parts), NEW b \in BOOLEAN, NEW name \in Seq(Nat),
         \A i \in 1 .. Len(name) : name[i] \notin {46, 91, 93}
  PROVE  Reads([property |-> q, current |-> <<>>, inBrackets |-> b], name,
               [property |-> q, current |-> name, inBrackets |-> b])
<1> DEFINE n == Len(name)
           pre(i) == SubSeq(name, 1, i)
           At(current) == [property |-> q, current |-> current, inBrackets |-> b]
           T == {i \in Nat : i <= n => Reads(At(<<>>), pre(i), At(pre(i)))}
<1>1. n \in Nat /\ \A i \in 1 .. n : name[i] \in Nat
  BY LenProperties, ElementOfSeq
<1>2. \A c \in Seq(Nat) : At(c) \in Reading
  BY DEF Reading
<1>3. ASSUME NEW i \in Nat, i <= n
      PROVE  pre(i) \in Seq(Nat) /\ Len(pre(i)) = i /\ \A j \in 1 .. i : pre(i)[j] = name[j]
  <2>1. 1 \in Int /\ i \in Int /\ \A j \in 1 .. i : j \in 1 .. n
    BY <1>1, <1>3
  <2>2. \A j \in 1 .. i : name[j] \in Nat
    BY <1>1, <2>1
  <2> HIDE DEF n
  <2>3. /\ pre(i) \in Seq(Nat) /\ Len(pre(i)) = IF 1 <= i THEN i - 1 + 1 ELSE 0
        /\ \A j \in 1 .. i - 1 + 1 : pre(i)[j] = name[1 + j - 1]
    BY <2>1, <2>2, SubSeqProperties
  <2> HIDE DEF pre
  <2> QED  BY <1>3, <2>3
<1> HIDE DEF pre, n
<1>4. pre(0) = <<>>
  BY <1>1, <1>3, EmptySeq
<1>5. 0 \in T
  <2>1. <<>> \in Seq(Nat)
    OBVIOUS
  <2> HIDE DEF At
  <2>2. Reads(At(<<>>), <<>>, At(<<>>))
    BY <1>2, <2>1, ReadsNothing
  <2> QED  BY <1>4, <2>2
<1>6. ASSUME NEW i \in Nat, i \in T PROVE i + 1 \in T
  <2> SUFFICES ASSUME i + 1 <= n PROVE Reads(At(<<>>), pre(i + 1), At(pre(i + 1)))
    OBVIOUS
  <2> DEFINE c == name[i + 1]
             p == pre(i)
             r == pre(i + 1)
             one == <<c>>
  <2>1. i <= n /\ i + 1 \in 1 .. n /\ i + 1 \in Nat /\ i + 1 \in 1 .. i + 1
    BY <1>1
  <2>2. c \in Nat /\ c \notin {46, 91, 93}
    BY <1>1, <2>1 DEF n
  <2>3. p \in Seq(Nat) /\ Len(p) = i /\ \A j \in 1 .. i : p[j] = name[j]
    BY <1>3, <2>1
  <2>4. r \in Seq(Nat) /\ Len(r) = i + 1 /\ \A j \in 1 .. i + 1 : r[j] = name[j]
    BY <1>3, <2>1
  <2>5. Reads(At(<<>>), p, At(p))
    BY <1>6, <2>1
  <2>a. one \in Seq(Nat) /\ Len(one) = 1 /\ one[1] = c
    BY <2>2
  <2> HIDE DEF p, r, c, one
  <2>6. Append(p, c) = p \o one
    BY <2>2, <2>3, AppendIsConcat DEF one
  <2>7. Append(p, c) \in Seq(Nat) /\ Len(Append(p, c)) = i + 1 /\ Append(p, c)[i + 1] = c
        /\ \A j \in 1 .. i : Append(p, c)[j] = p[j]
    BY <2>2, <2>3, AppendProperties
  <2>8. r = Append(p, c)
    <3>1. \A j \in 1 .. i + 1 : j \in 1 .. i \/ j = i + 1
      OBVIOUS
    <3>2. ASSUME NEW j \in 1 .. i + 1 PROVE r[j] = Append(p, c)[j]
      <4>1. CASE j \in 1 .. i
        <5>1. p[j] = name[j] /\ r[j] = name[j]
          BY <2>3, <2>4, <4>1
        <5> QED  BY <2>7, <4>1, <5>1
      <4>2. CASE j = i + 1
        <5>1. r[i + 1] = c
          BY <2>1, <2>4 DEF c
        <5> QED  BY <2>7, <4>2, <5>1
      <4> QED  BY <3>1, <4>1, <4>2
    <3> QED  BY <2>4, <2>7, <3>2, SeqEqual
  <2>9. read(At(p), c) = At(Append(p, c))
    BY <2>2 DEF read, Open, Close, Dot
  <2>10. At(p) \in Reading /\ At(Append(p, c)) \in Reading
    BY <1>2, <2>3, <2>7
  <2> HIDE DEF At
  <2>11. Reads(At(p), <<c>>, At(Append(p, c)))
    BY <2>2, <2>9, <2>10, ReadsOne
  <2>12. Reads(At(<<>>), p \o one, At(Append(p, c)))
    BY <2>3, <2>5, <2>11, <2>a, ReadsBoth DEF one
  <2> QED  BY <2>6, <2>8, <2>12 DEF r
<1> HIDE DEF T
<1>7. \A i \in Nat : i \in T
  BY <1>5, <1>6, NaturalInduction
<1>8. pre(n) = name
  <2>1. n \in Nat /\ n <= n
    BY <1>1
  <2>2. Len(pre(n)) = n /\ pre(n) \in Seq(Nat) /\ \A j \in 1 .. n : pre(n)[j] = name[j]
    BY <1>3, <2>1
  <2> QED  BY <2>2, SeqEqual DEF n
<1>9. n \in T /\ n <= n
  BY <1>1, <1>7
<1> QED  BY <1>8, <1>9 DEF T

First == [property |-> <<>>, current |-> <<>>, inBrackets |-> FALSE]

\* What the constructor has found in state s, if the string ends there.
Read(s) == AddName(s.property, s.current)

LEMMA ParseReads ==
  ASSUME NEW property \in Seq(Nat), NEW t, Reads(First, property, t)
  PROVE  Parse(property) = Read(t)
<1> DEFINE n == Len(property)
           Def(f) == [i \in 0 .. n |-> IF i = 0 THEN First ELSE read(f[i - 1], property[i])]
           before == CHOOSE f : f = Def(f)
<1>1. n \in Nat
  BY LenProperties
<1>2. PICK f \in [0 .. n -> Reading] :
        f[0] = First /\ f[n] = t /\ \A i \in 1 .. n : f[i] = read(f[i - 1], property[i])
  BY DEF Reads
<1> HIDE DEF n
<1>3. f = Def(f)
  <2>1. \A i \in 0 .. n : i = 0 \/ i \in 1 .. n
    BY <1>1
  <2>2. \A i \in 0 .. n : f[i] = IF i = 0 THEN First ELSE read(f[i - 1], property[i])
    BY <1>2, <2>1
  <2> QED  BY <2>2
<1>4. before = Def(before)
  BY <1>3
<1> HIDE DEF before
<1>5. before[0] = First /\ \A i \in 1 .. n : before[i] = read(before[i - 1], property[i])
  BY <1>1, <1>4
<1>6. SameSteps(f, before, n)
  BY <1>2, <1>5 DEF SameSteps
<1>7. before[n] = t
  <2>1. n \in 0 .. n
    BY <1>1
  <2> QED  BY <1>1, <1>2, <1>6, <2>1, IterationsAgree
<1>8. Parse(property) = Read(before[n])
  BY DEF Parse, before, Read, First, n
<1> QED  BY <1>7, <1>8

\* An element whose name is not empty has no character in it that has a meaning.
Harmless(e) ==
  /\ e.index \/ e.name # <<>>
  /\ \A i \in 1 .. Len(e.name) : e.name[i] \notin {46, 91, 93}

LEMMA ReadsElement ==
  ASSUME NEW s \in Seq(Nat), NEW t \in Reading, ~t.inBrackets, Reads(First, s, t),
         NEW e \in Parts, Harmless(e)
  PROVE  \E u \in Reading : /\ ~u.inBrackets /\ Reads(First, Written(s, e), u)
                            /\ Read(u) = Append(Read(t), e)
<1> DEFINE q == Read(t)
           name == e.name
           inside == [property |-> q, current |-> <<>>, inBrackets |-> TRUE]
           digit == [property |-> q, current |-> name, inBrackets |-> TRUE]
           index == [property |-> Append(q, e), current |-> <<>>, inBrackets |-> FALSE]
           empty == [property |-> q, current |-> <<>>, inBrackets |-> FALSE]
           named == [property |-> q, current |-> name, inBrackets |-> FALSE]
<1>1. /\ t.property \in Seq(Parts) /\ t.current \in Seq(Nat) /\ name \in Seq(Nat)
      /\ t.inBrackets = FALSE /\ e.index \in BOOLEAN
      /\ \A i \in 1 .. Len(name) : name[i] \notin {46, 91, 93}
  BY DEF Reading, Parts, Harmless
<1>2. q \in Seq(Parts) /\ Append(q, e) \in Seq(Parts)
  <2>1. Element(t.current, FALSE) \in Parts
    BY <1>1 DEF Element, Parts
  <2>2. q \in Seq(Parts)
    BY <1>1, <2>1, AppendProperties DEF Read, AddName
  <2> HIDE DEF q
  <2> QED  BY <2>2, AppendProperties
<1>3. e = Element(name, e.index)
  BY DEF Element, Parts
<1>4. First \in Reading /\ inside \in Reading /\ digit \in Reading /\ index \in Reading
      /\ empty \in Reading /\ named \in Reading
  <2>1. <<>> \in Seq(Nat) /\ <<>> \in Seq(Parts)
    OBVIOUS
  <2> HIDE DEF q, name
  <2> QED  BY <1>1, <1>2, <2>1 DEF Reading, First
<1>5. Open \in Nat /\ Close \in Nat /\ Dot \in Nat /\ <<Open>> \in Seq(Nat)
      /\ <<Close>> \in Seq(Nat) /\ <<Dot>> \in Seq(Nat)
  BY DEF Open, Close, Dot
<1>6. CASE e.index
  <2>1. read(t, Open) = inside
    BY DEF read, Read, Open, Close, Dot
  <2>2. read(digit, Close) = index
    <3>1. e = Element(name, TRUE)
      BY <1>1, <1>3, <1>6
    <3> HIDE DEF q, name
    <3>2. read(digit, Close)
            = [property |-> Append(q, Element(name, TRUE)), current |-> <<>>, inBrackets |-> FALSE]
      BY DEF read, Open, Close, Dot
    <3> QED  BY <3>1, <3>2
  <2>3. Reads(t, <<Open>>, inside)
    <3> HIDE DEF inside
    <3> QED  BY <1>4, <1>5, <2>1, ReadsOne
  <2>4. Reads(inside, name, digit)
    <3> HIDE DEF q, name
    <3>1. Reads([property |-> q, current |-> <<>>, inBrackets |-> TRUE], name,
                [property |-> q, current |-> name, inBrackets |-> TRUE])
      BY <1>1, <1>2, ReadsName
    <3> QED  BY <3>1
  <2>5. Reads(digit, <<Close>>, index)
    <3> HIDE DEF digit, index
    <3> QED  BY <1>4, <1>5, <2>2, ReadsOne
  <2> HIDE DEF inside, digit, index
  <2> DEFINE a == s \o <<Open>>
             b == a \o name
             c == b \o <<Close>>
  <2>6. a \in Seq(Nat) /\ Reads(First, a, inside)
    BY <1>5, <2>3, ReadsBoth, ConcatProperties
  <2> HIDE DEF a, name
  <2>7. b \in Seq(Nat) /\ Reads(First, b, digit)
    BY <1>1, <2>4, <2>6, ReadsBoth, ConcatProperties
  <2> HIDE DEF b
  <2>8. Reads(First, c, index)
    BY <1>5, <2>5, <2>7, ReadsBoth
  <2>9. c = Written(s, e)
    BY <1>6 DEF Written, c, b, a, name
  <2> HIDE DEF c
  <2>10. ~index.inBrackets /\ Read(index) = Append(q, e)
    BY DEF index, Read, AddName
  <2> QED  BY <1>4, <2>8, <2>9, <2>10
<1>7. CASE ~e.index
  <2>1. ~named.inBrackets /\ Read(named) = Append(q, e)
    <3>1. name # <<>> /\ e = Element(name, FALSE)
      BY <1>1, <1>3, <1>7 DEF Harmless
    <3> HIDE DEF q, name
    <3> QED  BY <3>1 DEF Read, AddName
  <2>2. Reads(empty, name, named)
    <3> HIDE DEF q, name
    <3>1. Reads([property |-> q, current |-> <<>>, inBrackets |-> FALSE], name,
                [property |-> q, current |-> name, inBrackets |-> FALSE])
      BY <1>1, <1>2, ReadsName
    <3> QED  BY <3>1
  <2>3. CASE s = <<>>
    <3>1. t = First
      <4>1. Len(s) = 0
        BY <2>3
      <4> QED  BY <4>1 DEF Reads
    <3>2. empty = First
      BY <3>1 DEF Read, AddName, First
    <3>3. Written(s, e) = name
      BY <1>7, <2>3 DEF Written
    <3> HIDE DEF empty, named, name
    <3> QED  BY <1>4, <2>1, <2>2, <3>2, <3>3
  <2>4. CASE s # <<>>
    <3>1. read(t, Dot) = empty
      <4>1. read(t, Dot) = [t EXCEPT !.property = q, !.current = <<>>]
        BY <1>1 DEF read, Read, Open, Close, Dot
      <4> HIDE DEF q, name, read, inside, digit, index, empty, named
      <4>2. [t EXCEPT !.property = q, !.current = <<>>]
              = [property |-> q, current |-> <<>>, inBrackets |-> t.inBrackets]
        <5> DEFINE u == [t EXCEPT !.property = q]
                   w == [u EXCEPT !.current = <<>>]
        <5>1. t = [property |-> t.property, current |-> t.current, inBrackets |-> t.inBrackets]
          BY DEF Reading
        <5>2. u = [property |-> q, current |-> t.current, inBrackets |-> t.inBrackets]
          BY <5>1
        <5> HIDE DEF u
        <5>3. w = [property |-> q, current |-> <<>>, inBrackets |-> t.inBrackets]
          BY <5>2
        <5> QED  BY <5>3 DEF u, w
      <4> QED  BY <1>1, <4>1, <4>2 DEF empty
    <3>2. Reads(t, <<Dot>>, empty)
      <4> HIDE DEF empty
      <4> QED  BY <1>4, <1>5, <3>1, ReadsOne
    <3> HIDE DEF empty, named
    <3> DEFINE a == s \o <<Dot>>
               b == a \o name
    <3>3. a \in Seq(Nat) /\ Reads(First, a, empty)
      BY <1>5, <3>2, ReadsBoth, ConcatProperties
    <3> HIDE DEF a, name
    <3>4. Reads(First, b, named)
      BY <1>1, <2>2, <3>3, ReadsBoth
    <3>5. b = Written(s, e)
      BY <1>7, <2>4 DEF Written, b, a, name
    <3> HIDE DEF b
    <3> QED  BY <1>4, <2>1, <3>4, <3>5
  <2> QED  BY <2>3, <2>4
<1> QED  BY <1>6, <1>7

\* The constructor finds in a string the path that it has been made of.
THEOREM PathsReadable == Readable
<1> SUFFICES ASSUME NEW path \in Paths PROVE Parse(Render(path)) = path
  BY DEF Readable
<1> DEFINE n == Len(path)
           pre(i) == SubSeq(path, 1, i)
<1>1. path \in Seq(Parts) /\ n \in Nat /\ DOMAIN path = 1 .. n
      /\ \A i \in 1 .. n : path[i] \in Parts
  <2>1. path \in Seq(Parts)
    BY MessagesAssumption DEF Parts
  <2> QED  BY <2>1, LenProperties, ElementOfSeq
<1>2. ASSUME NEW i \in 1 .. n PROVE Harmless(path[i])
  <2> DEFINE e == path[i]
             name == e.name
  <2>1. e \in Parts /\ name \in Seq(Nat) /\ Len(name) \in Nat /\ DOMAIN name = 1 .. Len(name)
    <3>1. e \in Parts
      BY <1>1
    <3>2. name \in Seq(Nat)
      BY <3>1 DEF Parts
    <3> QED  BY <3>1, <3>2, LenProperties
  <2>2. IF e.index THEN \A j \in DOMAIN name : name[j] \in Digits \/ (j = 1 /\ name[j] = 45)
        ELSE name # <<>> /\ ToSet(name) \cap {46, 91, 93} = {}
    BY <1>1, MessagesAssumption
  <2> HIDE DEF e, name
  <2>3. CASE e.index
    <3>1. ASSUME NEW j \in 1 .. Len(name) PROVE name[j] \notin {46, 91, 93}
      <4>1. name[j] \in Digits \/ name[j] = 45
        BY <2>1, <2>2, <2>3
      <4> QED  BY <4>1 DEF Digits
    <3> QED  BY <2>3, <3>1 DEF Harmless, name, e
  <2>4. CASE ~e.index
    <3>1. \A j \in 1 .. Len(name) : name[j] \in ToSet(name)
      BY <2>1 DEF ToSet
    <3> QED  BY <2>2, <2>4, <3>1 DEF Harmless, name, e
  <2> QED  BY <2>3, <2>4
<1>3. PICK f \in [0 .. n -> Seq(Nat)] : Writes(f, path)
  BY <1>1, RenderWrites
<1>4. f[0] = <<>> /\ f[n] = Render(path) /\ \A i \in 1 .. n : f[i] = Written(f[i - 1], path[i])
  BY <1>3 DEF Writes
<1>5. ASSUME NEW i \in 0 .. n
      PROVE  pre(i) \in Seq(Parts) /\ Len(pre(i)) = i /\ \A j \in 1 .. i : pre(i)[j] = path[j]
  <2>1. 1 \in Int /\ i \in Nat /\ \A j \in 1 .. i : j \in 1 .. n
    BY <1>1
  <2>2. \A j \in 1 .. i : path[j] \in Parts
    BY <1>1, <2>1
  <2> HIDE DEF n
  <2>3. /\ pre(i) \in Seq(Parts) /\ Len(pre(i)) = IF 1 <= i THEN i - 1 + 1 ELSE 0
        /\ \A j \in 1 .. i - 1 + 1 : pre(i)[j] = path[1 + j - 1]
    BY <2>1, <2>2, SubSeqProperties
  <2> HIDE DEF pre
  <2> QED  BY <2>1, <2>3
<1> DEFINE T == {i \in Nat : i <= n =>
                   \E t \in Reading : ~t.inBrackets /\ Reads(First, f[i], t) /\ Read(t) = pre(i)}
<1> HIDE DEF pre, n
<1>6. 0 \in T
  <2>1. pre(0) = <<>>
    <3>1. 0 \in 0 .. n
      BY <1>1
    <3> QED  BY <1>5, <3>1, EmptySeq
  <2>2. First \in Reading /\ ~First.inBrackets /\ Read(First) = <<>>
    <3>1. <<>> \in Seq(Nat) /\ <<>> \in Seq(Parts)
      OBVIOUS
    <3> QED  BY <3>1 DEF Reading, First, Read, AddName
  <2>3. Reads(First, f[0], First)
    BY <1>4, <2>2, ReadsNothing
  <2> QED  BY <2>1, <2>2, <2>3
<1>7. ASSUME NEW i \in Nat, i \in T PROVE i + 1 \in T
  <2> SUFFICES ASSUME i + 1 <= n
               PROVE  \E t \in Reading : ~t.inBrackets /\ Reads(First, f[i + 1], t) /\ Read(t) = pre(i + 1)
    OBVIOUS
  <2>1. i <= n /\ i + 1 \in 1 .. n /\ (i + 1) - 1 = i /\ i \in 0 .. n /\ i + 1 \in 0 .. n
    BY <1>1
  <2> DEFINE e == path[i + 1]
             p == pre(i)
             r == pre(i + 1)
             s == f[i]
  <2>2. PICK t \in Reading : ~t.inBrackets /\ Reads(First, s, t) /\ Read(t) = p
    BY <1>7, <2>1
  <2>3. e \in Parts /\ Harmless(e) /\ s \in Seq(Nat) /\ f[i + 1] = Written(s, e)
    BY <1>1, <1>2, <1>3, <1>4, <2>1
  <2>4. p \in Seq(Parts) /\ Len(p) = i /\ \A j \in 1 .. i : p[j] = path[j]
    BY <1>5, <2>1
  <2>5. r \in Seq(Parts) /\ Len(r) = i + 1 /\ \A j \in 1 .. i + 1 : r[j] = path[j]
    BY <1>5, <2>1
  <2>6. r[i + 1] = e
    BY <2>1, <2>5
  <2> HIDE DEF e, p, r, s
  <2>7. PICK u \in Reading : ~u.inBrackets /\ Reads(First, Written(s, e), u) /\ Read(u) = Append(p, e)
    BY <2>2, <2>3, ReadsElement
  <2> DEFINE a == Append(p, e)
  <2>8. a \in Seq(Parts) /\ Len(a) = i + 1 /\ a[i + 1] = e /\ \A j \in 1 .. i : a[j] = p[j]
    BY <2>3, <2>4, AppendProperties
  <2> HIDE DEF a
  <2>9. ASSUME NEW j \in 1 .. i + 1 PROVE r[j] = a[j]
    <3>1. CASE j \in 1 .. i
      BY <2>4, <2>5, <2>8, <3>1
    <3>2. CASE j = i + 1
      BY <2>6, <2>8, <3>2
    <3> QED  BY <3>1, <3>2
  <2>10. r = a
    BY <2>5, <2>8, <2>9, SeqEqual
  <2> QED  BY <2>3, <2>7, <2>10 DEF a, r
<1> HIDE DEF T
<1>8. \A i \in Nat : i \in T
  BY <1>6, <1>7, NaturalInduction
<1>9. PICK t \in Reading : Reads(First, Render(path), t) /\ Read(t) = pre(n)
  BY <1>1, <1>4, <1>8 DEF T
<1>10. Parse(Render(path)) = pre(n)
  BY <1>1, <1>9, RenderType, ParseReads
<1>11. pre(n) = path
  <2>1. n \in 0 .. n
    BY <1>1
  <2>2. pre(n) \in Seq(Parts) /\ Len(pre(n)) = n /\ \A j \in 1 .. n : pre(n)[j] = path[j]
    BY <1>5, <2>1
  <2> QED  BY <1>1, <2>2, SeqEqual DEF n
<1> QED  BY <1>10, <1>11

-----------------------------------------------------------------------------
(* What match finds *)

LEMMA Prefix ==
  ASSUME NEW elements \in Seq(Elements), NEW i \in 0 .. Len(elements)
  PROVE  LET sub == SubSeq(elements, 1, i)
         IN sub \in Seq(Elements) /\ Len(sub) = i /\ \A j \in 1 .. i : sub[j] = elements[j]
<1> DEFINE n == Len(elements)
           sub == SubSeq(elements, 1, i)
<1>1. n \in Nat
  BY LenProperties
<1>2. 1 \in Int /\ i \in Nat /\ \A j \in 1 .. i : j \in 1 .. n
  BY <1>1
<1>3. \A j \in 1 .. i : elements[j] \in Elements
  BY <1>2, ElementOfSeq
<1> HIDE DEF n
<1>4. /\ sub \in Seq(Elements) /\ Len(sub) = IF 1 <= i THEN i - 1 + 1 ELSE 0
      /\ \A j \in 1 .. i - 1 + 1 : sub[j] = elements[1 + j - 1]
  BY <1>2, <1>3, SubSeqProperties
<1> HIDE DEF sub
<1>5. sub \in Seq(Elements) /\ Len(sub) = i /\ \A j \in 1 .. i : sub[j] = elements[j]
  BY <1>2, <1>4
<1> QED  BY <1>5 DEF sub

\* The first k elements are there, and f are the variables on the way through them.
Leads(f, h, elements, k) ==
  \A i \in 1 .. k :
    /\ f[i - 1] \in DOMAIN h /\ Has(h[f[i - 1]], elements[i])
    /\ f[i] = Get(h[f[i - 1]], elements[i])

\* match comes to the end of that way.
Arrives(f, h, R, m, elements, k) ==
  match(h, m, SubSeq(elements, 1, k)) = f[k] /\ f[k] \in R /\ f[k] # Null

LEMMA LeadsMatch ==
  ASSUME NEW R, NEW sh, NEW h, NEW m \in R, NEW elements \in Seq(Elements), Sound(h, R, sh),
         NEW k \in 0 .. Len(elements), NEW f, f[0] = m, Leads(f, h, elements, k)
  PROVE  Arrives(f, h, R, m, elements, k)
<1> DEFINE sub == SubSeq(elements, 1, k)
<1>1. sub \in Seq(Elements) /\ Len(sub) = k /\ \A j \in 1 .. k : sub[j] = elements[j]
  BY Prefix
<1>2. k \in Nat /\ DOMAIN h \subseteq Nat /\ Null \notin Nat /\ R \subseteq DOMAIN h
  BY MessagesAssumption, LenProperties, HeapType DEF Sound, Region
<1> HIDE DEF sub
<1>3. PICK g : Matches(g, h, R, m, sub)
  BY <1>1, MatchesExist
<1>4. /\ g \in [0 .. k -> R \cup {Null}] /\ g[0] = m /\ match(h, m, sub) = g[k]
      /\ \A i \in 1 .. k :
           g[i] = IF g[i - 1] # Null /\ Has(h[g[i - 1]], elements[i]) THEN Get(h[g[i - 1]], elements[i])
                  ELSE Null
  BY <1>1, <1>3 DEF Matches
<1>5. ASSUME NEW i \in 1 .. k, f[i - 1] = g[i - 1]
      PROVE  f[i] = g[i]
  <2>1. f[i - 1] # Null /\ Has(h[f[i - 1]], elements[i]) /\ f[i] = Get(h[f[i - 1]], elements[i])
    BY <1>2 DEF Leads
  <2> QED  BY <1>4, <1>5, <2>1
<1>6. SameSteps(f, g, k)
  BY <1>4, <1>5 DEF SameSteps
<1>7. \A i \in 0 .. k : f[i] = g[i]
  BY <1>2, <1>6, IterationsAgree
<1>8. f[k] = g[k] /\ k \in 0 .. k
  BY <1>2, <1>7
<1>9. f[k] # Null
  <2>1. CASE k = 0
    BY <1>2, <2>1
  <2>2. CASE k # 0
    <3>1. k \in 1 .. k /\ k - 1 \in 0 .. k
      BY <1>2, <2>2
    <3>2. f[k - 1] \in DOMAIN h /\ Has(h[f[k - 1]], elements[k]) /\ f[k] = Get(h[f[k - 1]], elements[k])
      BY <3>1 DEF Leads
    <3>3. h[f[k - 1]] \in Variables /\ elements[k] \in Elements
      <4>1. k \in 1 .. Len(elements)
        BY <2>2
      <4> QED  BY <3>2, <4>1, HeapType, ElementOfSeq DEF Sound
    <3>4. f[k] \in Nat
      BY <3>2, <3>3, HasGet, ChildrenOf
    <3> QED  BY <1>2, <3>4
  <2> QED  BY <2>1, <2>2
<1> QED  BY <1>4, <1>8, <1>9 DEF Arrives, sub

\* They are the way from m to y.
WayTo(f, h, R, m, elements, k, y) ==
  f \in [0 .. k -> R] /\ f[0] = m /\ f[k] = y /\ Leads(f, h, elements, k)

LEMMA MatchLeads ==
  ASSUME NEW R, NEW sh, NEW h, NEW m \in R, NEW elements \in Seq(Elements), Sound(h, R, sh),
         match(h, m, elements) # Null
  PROVE  \E f : WayTo(f, h, R, m, elements, Len(elements), match(h, m, elements))
<1> DEFINE n == Len(elements)
<1>1. n \in Nat /\ R \subseteq DOMAIN h
  BY LenProperties DEF Sound, Region
<1>2. PICK f : Matches(f, h, R, m, elements)
  BY MatchesExist
<1>3. /\ f \in [0 .. n -> R \cup {Null}] /\ f[0] = m /\ match(h, m, elements) = f[n]
      /\ \A i \in 1 .. n :
           f[i] = IF f[i - 1] # Null /\ Has(h[f[i - 1]], elements[i]) THEN Get(h[f[i - 1]], elements[i])
                  ELSE Null
  BY <1>2 DEF Matches
<1> HIDE DEF n
<1> DEFINE T == {i \in Nat : i <= n => f[n - i] # Null}
<1>4. 0 \in T
  BY <1>1, <1>3
<1>5. ASSUME NEW i \in Nat, i \in T PROVE i + 1 \in T
  <2> SUFFICES ASSUME i + 1 <= n PROVE f[n - (i + 1)] # Null
    OBVIOUS
  <2>1. i <= n /\ n - i \in 1 .. n /\ (n - i) - 1 = n - (i + 1)
    BY <1>1
  <2>2. f[n - i] # Null
    BY <1>5, <2>1
  <2> QED  BY <1>3, <2>1, <2>2
<1> HIDE DEF T
<1>6. \A i \in Nat : i \in T
  BY <1>4, <1>5, NaturalInduction
<1>7. ASSUME NEW i \in 0 .. n PROVE f[i] \in R /\ f[i] # Null
  <2>1. n - i \in Nat /\ n - i <= n /\ n - (n - i) = i
    BY <1>1
  <2>2. f[i] # Null
    BY <1>6, <2>1 DEF T
  <2> QED  BY <1>3, <2>2
<1>8. f \in [0 .. n -> R]
  BY <1>3, <1>7
<1>9. Leads(f, h, elements, n)
  <2>1. \A i \in 1 .. n : i \in 0 .. n /\ i - 1 \in 0 .. n
    BY <1>1
  <2> QED  BY <1>1, <1>3, <1>7, <2>1 DEF Leads
<1> QED  BY <1>3, <1>8, <1>9 DEF WayTo, n

\* There is only one way.
LEMMA OneWay ==
  ASSUME NEW h, NEW elements, NEW k \in Nat, NEW f, NEW g, f[0] = g[0],
         Leads(f, h, elements, k), Leads(g, h, elements, k)
  PROVE  f[k] = g[k]
<1>1. SameSteps(f, g, k)
  BY DEF SameSteps, Leads
<1>2. k \in 0 .. k
  OBVIOUS
<1> QED  BY <1>1, <1>2, IterationsAgree

\* It ends where an element is missing.
LEMMA LeadsNowhere ==
  ASSUME NEW R, NEW sh, NEW h, NEW m \in R, NEW elements \in Seq(Elements), Sound(h, R, sh),
         NEW k \in 0 .. Len(elements) - 1, NEW f, f[0] = m, Leads(f, h, elements, k),
         ~Has(h[f[k]], elements[k + 1])
  PROVE  match(h, m, elements) = Null
<1> SUFFICES ASSUME match(h, m, elements) # Null PROVE FALSE
  OBVIOUS
<1> DEFINE n == Len(elements)
<1>1. n \in Nat /\ k \in Nat /\ k + 1 \in 1 .. n /\ (k + 1) - 1 = k
  BY LenProperties
<1>a. PICK g : WayTo(g, h, R, m, elements, n, match(h, m, elements))
  BY MatchLeads
<1> HIDE DEF n
<1>2. g[0] = m /\ Leads(g, h, elements, n)
  BY <1>a DEF WayTo
<1>3. Leads(g, h, elements, k)
  <2>1. \A i \in 1 .. k : i \in 1 .. n
    BY <1>1
  <2> QED  BY <1>2, <2>1 DEF Leads
<1>4. f[k] = g[k]
  BY <1>1, <1>2, <1>3, OneWay
<1>5. Has(h[g[k]], elements[k + 1])
  BY <1>1, <1>2 DEF Leads
<1> QED  BY <1>4, <1>5

\* A way does not come back to where it has been.
LEMMA NoCircle ==
  ASSUME NEW h \in Seq(Variables), NEW elements \in Seq(Elements), WellFounded(h),
         NEW k \in 0 .. Len(elements), NEW f, Leads(f, h, elements, k), NEW i \in 0 .. k - 1
  PROVE  f[i] # f[k]
<1> SUFFICES ASSUME f[i] = f[k] PROVE FALSE
  OBVIOUS
<1> DEFINE n == Len(elements)
           S == {f[j] : j \in i .. k - 1}
<1>1. n \in Nat /\ k \in Nat /\ i \in Nat /\ i \in i .. k - 1
      /\ \A j \in i .. k - 1 : j + 1 \in 1 .. k /\ j + 1 \in 1 .. n /\ (j + 1) - 1 = j
  BY LenProperties
<1>2. ASSUME NEW j \in i .. k - 1
      PROVE  f[j] \in DOMAIN h /\ f[j + 1] \in Children(h[f[j]])
  <2>1. f[j] \in DOMAIN h /\ Has(h[f[j]], elements[j + 1]) /\ f[j + 1] = Get(h[f[j]], elements[j + 1])
    BY <1>1 DEF Leads
  <2>2. h[f[j]] \in Variables /\ elements[j + 1] \in Elements
    BY <1>1, <2>1, HeapType, ElementOfSeq
  <2> QED  BY <2>1, <2>2, HasGet
<1>3. S \in SUBSET DOMAIN h /\ S # {}
  BY <1>1, <1>2
<1>4. PICK x \in S : Children(h[x]) \cap S = {}
  BY <1>3 DEF WellFounded
<1>5. PICK j \in i .. k - 1 : x = f[j]
  BY <1>4
<1>6. f[j + 1] \in S
  <2>1. CASE j + 1 = k
    BY <1>1, <2>1
  <2>2. CASE j + 1 # k
    <3>1. j + 1 \in i .. k - 1
      BY <1>1, <2>2
    <3> QED  BY <3>1
  <2> QED  BY <2>1, <2>2
<1> QED  BY <1>2, <1>4, <1>5, <1>6

-----------------------------------------------------------------------------
(* What a turn of the loop of set does *)

\* w has what v has.
Kept(v, w) ==
  /\ Children(v) \subseteq Children(w)
  /\ \A e \in Elements : Has(v, e) => Has(w, e) /\ Get(w, e) = Get(v, e)

\* g has what h has, and may have new variables in new elements.
Extends(h, g) ==
  /\ h \in Seq(Variables) /\ g \in Seq(Variables) /\ Len(h) <= Len(g)
  /\ \A y \in DOMAIN h : Kept(h[y], g[y]) /\ Children(g[y]) \subseteq Children(h[y]) \cup Added(h, g)

LEMMA AddedTwice ==
  ASSUME NEW h \in Seq(Variables), NEW g \in Seq(Variables), NEW k \in Seq(Variables),
         Len(h) <= Len(g), Len(g) <= Len(k)
  PROVE  /\ Len(h) <= Len(k) /\ DOMAIN h \subseteq DOMAIN g
         /\ Added(h, g) \subseteq Added(h, k) /\ Added(g, k) \subseteq Added(h, k)
         /\ \A y \in Added(h, k) : y \in Added(h, g) \/ y \in Added(g, k)
         /\ Added(h, g) \subseteq DOMAIN g /\ \A y \in DOMAIN h : y \notin Added(h, g)
         /\ \A y \in DOMAIN g : y \in DOMAIN h \/ y \in Added(h, g)
<1>1. /\ Len(h) \in Nat /\ Len(g) \in Nat /\ Len(k) \in Nat
      /\ DOMAIN h = 1 .. Len(h) /\ DOMAIN g = 1 .. Len(g)
  BY HeapType
<1> QED  BY <1>1 DEF Added

LEMMA ExtendsTwice ==
  ASSUME NEW h, NEW g, NEW k, Extends(h, g), Extends(g, k)
  PROVE  Extends(h, k)
<1>1. /\ h \in Seq(Variables) /\ g \in Seq(Variables) /\ k \in Seq(Variables)
      /\ Len(h) <= Len(g) /\ Len(g) <= Len(k)
  BY DEF Extends
<1>2. /\ Len(h) <= Len(k) /\ DOMAIN h \subseteq DOMAIN g
      /\ Added(h, g) \subseteq Added(h, k) /\ Added(g, k) \subseteq Added(h, k)
  BY <1>1, AddedTwice
<1>3. ASSUME NEW y \in DOMAIN h
      PROVE  Kept(h[y], k[y]) /\ Children(k[y]) \subseteq Children(h[y]) \cup Added(h, k)
  <2>1. Kept(h[y], g[y]) /\ Children(g[y]) \subseteq Children(h[y]) \cup Added(h, g)
    BY DEF Extends
  <2>2. Kept(g[y], k[y]) /\ Children(k[y]) \subseteq Children(g[y]) \cup Added(g, k)
    BY <1>2 DEF Extends
  <2>3. Kept(h[y], k[y])
    BY <2>1, <2>2 DEF Kept
  <2> QED  BY <1>2, <2>1, <2>2, <2>3
<1> QED  BY <1>1, <1>2, <1>3 DEF Extends

LEMMA ExtendsItself ==
  ASSUME NEW h \in Seq(Variables)
  PROVE  Extends(h, h) /\ Added(h, h) = {}
<1>1. Len(h) \in Nat
  BY LenProperties
<1> QED  BY <1>1 DEF Extends, Kept, Added

\* Variable x of g has the element e, if need be a new one.
Turned(h, g, x, e) ==
  /\ Extends(h, g) /\ Has(g[x], e)
  /\ \A y \in DOMAIN h : y # x => g[y] = h[y]
  /\ \A y \in Added(h, g) : g[y] \in Created
  /\ IF Has(h[x], e) THEN g = h ELSE Get(g[x], e) \in Added(h, g)

LEMMA ChangeExtends ==
  ASSUME NEW h \in Seq(Variables), NEW x \in DOMAIN h, NEW w \in Variables, NEW v \in Created,
         NEW ext \in Seq(Variables), ToSet(ext) \subseteq {v}, Kept(h[x], w),
         Children(w) \subseteq Children(h[x]) \cup (Len(h) + 1 .. Len(h) + Len(ext))
  PROVE  LET g == [h EXCEPT ![x] = w] \o ext
         IN /\ Extends(h, g) /\ g[x] = w /\ Added(h, g) = Len(h) + 1 .. Len(h) + Len(ext)
            /\ \A y \in DOMAIN h : y # x => g[y] = h[y]
            /\ \A y \in Added(h, g) : g[y] \in Created
<1> DEFINE g == [h EXCEPT ![x] = w] \o ext
           l == Len(h)
           k == Len(ext)
<1>1. /\ g \in Seq(Variables) /\ Len(g) = l + k /\ DOMAIN g = 1 .. l + k
      /\ Added(h, g) = l + 1 .. l + k /\ DOMAIN h \subseteq DOMAIN g
      /\ \A i \in 1 .. l : g[i] = IF i = x THEN w ELSE h[i]
      /\ \A i \in l + 1 .. l + k : i - l \in DOMAIN ext /\ g[i] = ext[i - l]
  BY Entries
<1> HIDE DEF g
<1>2. l \in Nat /\ k \in Nat /\ DOMAIN h = 1 .. l /\ \A i \in DOMAIN ext : ext[i] = v
  BY LenProperties DEF ToSet
<1> HIDE DEF l, k
<1>3. l <= l + k
  BY <1>2
<1>4. \A y \in DOMAIN h : Kept(h[y], h[y])
  BY DEF Kept
<1>5. Extends(h, g)
  BY <1>1, <1>2, <1>3, <1>4 DEF Extends, l, k
<1> QED  BY <1>1, <1>2, <1>5 DEF g, l, k

LEMMA KeptArray ==
  ASSUME NEW v \in Variables, NEW w \in Variables, NEW c \in Seq(Nat),
         w.arrayValue = v.arrayValue \o c, w.structValue = v.structValue
  PROVE  Kept(v, w)
<1> DEFINE b == v.arrayValue
           a == w.arrayValue
<1>1. b \in Seq(Nat) /\ Len(b) \in Nat /\ DOMAIN b = 1 .. Len(b) /\ Len(c) \in Nat
  BY LenProperties DEF Variables
<1>2. /\ Len(a) = Len(b) + Len(c) /\ a \in Seq(Nat)
      /\ \A i \in 1 .. Len(b) + Len(c) : a[i] = IF i <= Len(b) THEN b[i] ELSE c[i - Len(b)]
  BY <1>1, ConcatProperties
<1>3. DOMAIN a = 1 .. Len(a)
  BY <1>2, LenProperties
<1> HIDE DEF a, b
<1>4. \A i \in 1 .. Len(b) : i \in DOMAIN a /\ a[i] = b[i]
  BY <1>1, <1>2, <1>3
<1>5. Children(v) \subseteq Children(w)
  <2> SUFFICES ASSUME NEW z \in Children(v) PROVE z \in Children(w)
    OBVIOUS
  <2>1. CASE \E i \in DOMAIN b : b[i] = z
    <3>1. PICK i \in DOMAIN b : b[i] = z
      BY <2>1
    <3>2. i \in DOMAIN a /\ a[i] = z
      BY <1>1, <1>4, <3>1
    <3> QED  BY <3>2, ChildrenOf DEF a
  <2>2. CASE \E n \in DOMAIN v.structValue : v.structValue[n] = z
    BY <2>2, ChildrenOf
  <2> QED  BY <2>1, <2>2, ChildrenOf DEF b
<1>6. ASSUME NEW e \in Elements, Has(v, e) PROVE Has(w, e) /\ Get(w, e) = Get(v, e)
  <2>1. CASE e.index
    <3> DEFINE k == arrayIndex(e)
    <3>1. k \in Nat /\ k >= 1 /\ k <= Len(b)
      BY <1>6, <2>1, IndexType DEF Has, b
    <3> HIDE DEF k
    <3>2. k <= Len(a) /\ a[k] = b[k]
      BY <1>1, <1>2, <1>4, <3>1
    <3> QED  BY <2>1, <3>2 DEF Has, Get, a, b, k
  <2>2. CASE ~e.index
    BY <1>6, <2>2 DEF Has, Get
  <2> QED  BY <2>1, <2>2
<1> QED  BY <1>5, <1>6 DEF Kept

LEMMA KeptStruct ==
  ASSUME NEW v \in Variables, NEW e \in Elements, NEW y \in Nat, ~e.index
  PROVE  /\ ~Has(v, e) => Kept(v, put(v, e, y))
         /\ Children(v) \subseteq Children(put(v, e, y)) \cup (IF Has(v, e) THEN {Get(v, e)} ELSE {})
<1> DEFINE s == [n \in DOMAIN v.structValue \cup {e.name} |-> IF n = e.name THEN y ELSE v.structValue[n]]
           w == put(v, e, y)
<1>1. w \in Variables
  BY PutName
<1>2. w = [v EXCEPT !.structValue = s]
  BY DEF put
<1>3. w.arrayValue = v.arrayValue /\ w.structValue = s
  <2>1. v \in [Members -> Anything]
    BY DEF Variables
  <2> HIDE DEF s, w
  <2> QED  BY <1>2, <2>1, MemberNames
<1>4. /\ DOMAIN w.structValue = DOMAIN v.structValue \cup {e.name}
      /\ \A n \in DOMAIN v.structValue : n # e.name => w.structValue[n] = v.structValue[n]
  BY <1>3
<1> HIDE DEF w, s
<1>5. Has(v, e) <=> e.name \in DOMAIN v.structValue
  BY DEF Has
<1>6. Has(v, e) => Get(v, e) = v.structValue[e.name]
  BY DEF Get
<1>7. Children(v) \subseteq Children(w) \cup (IF Has(v, e) THEN {Get(v, e)} ELSE {})
  <2> SUFFICES ASSUME NEW z \in Children(v), z \notin Children(w) PROVE Has(v, e) /\ z = Get(v, e)
    OBVIOUS
  <2>1. PICK n \in DOMAIN v.structValue : v.structValue[n] = z
    BY <1>1, <1>3, ChildrenOf
  <2>2. n = e.name
    BY <1>1, <1>4, <2>1, ChildrenOf
  <2> QED  BY <1>5, <1>6, <2>1, <2>2
<1>8. ASSUME ~Has(v, e), NEW d \in Elements, Has(v, d) PROVE Has(w, d) /\ Get(w, d) = Get(v, d)
  <2>1. CASE d.index
    BY <1>3, <1>8, <2>1 DEF Has, Get
  <2>2. CASE ~d.index
    BY <1>4, <1>5, <1>8, <2>2 DEF Has, Get
  <2> QED  BY <2>1, <2>2
<1> QED  BY <1>7, <1>8 DEF Kept, w

LEMMA FilledTurned ==
  ASSUME NEW h \in Seq(Variables), NEW x \in DOMAIN h, NEW e \in Elements, NEW v \in Created,
         e.index, ~Has(h[x], e)
  PROVE  Turned(h, filled(h, x, e, v), x, e) /\ Len(filled(h, x, e, v)[x].arrayValue) = arrayIndex(e)
<1> DEFINE b == h[x].arrayValue
           n == Len(b)
           k == arrayIndex(e)
           m == k - n
           l == Len(h)
           c == [i \in 1 .. m |-> l + i]
           w == [h[x] EXCEPT !.arrayValue = @ \o c]
           ext == [i \in 1 .. m |-> v]
           g == [h EXCEPT ![x] = w] \o ext
<1>1. l \in Nat /\ DOMAIN h = 1 .. l /\ h[x] \in Variables /\ v \in Variables
  BY HeapType, CreatedDistinct
<1>2. b \in Seq(Nat) /\ n \in Nat /\ k \in Nat /\ k > n
  <2>1. b \in Seq(Nat) /\ n \in Nat
    BY <1>1, LenProperties DEF Variables
  <2>2. k \in Nat /\ ~(k <= n)
    BY IndexType DEF Has
  <2> HIDE DEF b, n, k
  <2> QED  BY <2>1, <2>2
<1>3. filled(h, x, e, v) = g
  BY DEF filled
<1> HIDE DEF b, k, l
<1>4. m \in Nat /\ m >= 1
  <2> HIDE DEF n
  <2> QED  BY <1>2
<1>5. c \in Seq(Nat) /\ Len(c) = m /\ DOMAIN c = 1 .. m /\ \A i \in 1 .. m : c[i] = l + i
  <2> HIDE DEF m
  <2>1. c \in [1 .. m -> Nat]
    BY <1>1, <1>4
  <2> QED  BY <1>4, <2>1, LenProperties, IsASeq
<1>6. ext \in Seq(Variables) /\ Len(ext) = m /\ DOMAIN ext = 1 .. m /\ \A i \in 1 .. m : ext[i] = v
  <2> HIDE DEF m
  <2>1. ext \in [1 .. m -> Variables]
    BY <1>1
  <2> QED  BY <1>4, <2>1, LenProperties, IsASeq
<1>7. ToSet(c) \subseteq l + 1 .. l + m
  <2> HIDE DEF m, c
  <2> QED  BY <1>1, <1>4, <1>5 DEF ToSet
<1> HIDE DEF c, m, ext
<1>8. /\ w \in Variables /\ w.arrayValue = b \o c /\ w.structValue = h[x].structValue
      /\ Children(w) \subseteq Children(h[x]) \cup ToSet(c)
  BY <1>1, <1>5, MoreElements DEF b
<1> HIDE DEF w
<1>9. Kept(h[x], w)
  BY <1>1, <1>5, <1>8, KeptArray DEF b
<1>10. /\ Extends(h, g) /\ g[x] = w /\ Added(h, g) = Len(h) + 1 .. Len(h) + Len(ext)
       /\ \A y \in DOMAIN h : y # x => g[y] = h[y]
       /\ \A y \in Added(h, g) : g[y] \in Created
  <2>1. ToSet(ext) \subseteq {v}
    BY <1>6 DEF ToSet
  <2>2. Children(w) \subseteq Children(h[x]) \cup (Len(h) + 1 .. Len(h) + Len(ext))
    BY <1>6, <1>7, <1>8 DEF l
  <2>3. w \in Variables /\ ext \in Seq(Variables)
    BY <1>6, <1>8
  <2> QED  BY ONLY h \in Seq(Variables), x \in DOMAIN h, v \in Created, <1>9, <2>1, <2>2, <2>3, ChangeExtends
<1> HIDE DEF g
<1>11. Len(b \o c) = k /\ (b \o c)[k] = l + m
  <2>1. Len(b \o c) = n + m /\ \A i \in 1 .. n + m : (b \o c)[i] = IF i <= n THEN b[i] ELSE c[i - n]
    BY <1>2, <1>5, ConcatProperties
  <2> HIDE DEF n
  <2>2. n + m = k /\ k \in 1 .. n + m /\ ~(k <= n) /\ k - n = m /\ m \in 1 .. m
    BY <1>2, <1>4 DEF m
  <2> QED  BY <1>5, <2>1, <2>2
<1>12. Has(w, e) /\ Get(w, e) = l + m /\ Len(w.arrayValue) = arrayIndex(e)
  BY <1>2, <1>8, <1>11 DEF Has, Get, k
<1>13. l + m \in Added(h, g)
  BY <1>1, <1>4, <1>6, <1>10 DEF l
<1> QED  BY <1>3, <1>10, <1>12, <1>13 DEF Turned

LEMMA NextTurned ==
  ASSUME NEW h \in Seq(Variables), NEW x \in DOMAIN h, NEW e \in Elements, NEW t \in {"tArray", "tStruct"}
  PROVE  Turned(h, next(h, x, e, t), x, e)
<1> DEFINE v == OfType(t)
           l == Len(h)
<1>1. v \in Created /\ v \in Variables /\ h[x] \in Variables /\ l \in Nat /\ DOMAIN h = 1 .. l
  <2>1. v \in Created
    BY DEF Created
  <2> HIDE DEF v
  <2> QED  BY <2>1, CreatedDistinct, HeapType
<1>2. CASE Has(h[x], e)
  <2>1. next(h, x, e, t) = h
    BY <1>2 DEF next
  <2> QED  BY <1>2, <2>1, ExtendsItself DEF Turned
<1>3. CASE ~Has(h[x], e) /\ e.index
  <2>1. next(h, x, e, t) = filled(h, x, e, v)
    BY <1>3 DEF next
  <2> HIDE DEF v
  <2> QED  BY <1>1, <1>3, <2>1, FilledTurned
<1>4. CASE ~Has(h[x], e) /\ ~e.index
  <2> DEFINE y == l + 1
             w == put(h[x], e, y)
             f == [h EXCEPT ![x] = w]
             ext == <<v>>
             g == f \o ext
  <2>1. next(h, x, e, t) = Append(f, v)
    BY <1>4 DEF next
  <2> HIDE DEF v, l
  <2>2. y \in Nat /\ ext \in Seq(Variables) /\ Len(ext) = 1 /\ \A i \in DOMAIN ext : ext[i] = v
    BY <1>1
  <2> HIDE DEF y
  <2>3. /\ w \in Variables /\ Has(w, e) /\ Get(w, e) = y
        /\ Children(w) \subseteq Children(h[x]) \cup {y}
    BY <1>1, <1>4, <2>2, PutElement
  <2>4. Kept(h[x], w)
    BY <1>1, <1>4, <2>2, KeptStruct
  <2> HIDE DEF w
  <2>5. Append(f, v) = g
    <3>1. f \in Seq(Variables)
      <4>1. h \in [1 .. l -> Variables]
        BY LenProperties DEF l
      <4>2. f \in [1 .. l -> Variables]
        BY <2>3, <4>1
      <4> HIDE DEF f
      <4> QED  BY <1>1, <4>2, IsASeq
    <3> HIDE DEF f
    <3> QED  BY <1>1, <3>1, AppendIsConcat
  <2> HIDE DEF ext
  <2>6. y \in Len(h) + 1 .. Len(h) + Len(ext)
    BY <1>1, <2>2 DEF y, l
  <2>7. /\ Extends(h, g) /\ g[x] = w /\ Added(h, g) = Len(h) + 1 .. Len(h) + Len(ext)
        /\ \A z \in DOMAIN h : z # x => g[z] = h[z]
        /\ \A z \in Added(h, g) : g[z] \in Created
    <3>1. Children(w) \subseteq Children(h[x]) \cup (Len(h) + 1 .. Len(h) + Len(ext))
      BY <2>3, <2>6
    <3>2. w \in Variables /\ ext \in Seq(Variables) /\ v \in Created /\ ToSet(ext) \subseteq {v}
      BY <1>1, <2>2, <2>3 DEF ToSet
    <3> QED  BY ONLY h \in Seq(Variables), x \in DOMAIN h, <2>4, <3>1, <3>2, ChangeExtends
  <2> HIDE DEF g
  <2> QED  BY <1>4, <2>1, <2>3, <2>5, <2>6, <2>7 DEF Turned
<1> QED  BY <1>2, <1>3, <1>4

-----------------------------------------------------------------------------
(* What the end of set and erase do *)

\* The elements of v, but e.
But(v, e) == Children(v) \ (IF Has(v, e) THEN {Get(v, e)} ELSE {})

\* In g, variable x of h has y at e, or behind it if e was missing in an array.
Placed(h, g, x, e, y) ==
  /\ h \in Seq(Variables) /\ g \in Seq(Variables) /\ Len(h) <= Len(g)
  /\ \A z \in DOMAIN h : z # x => g[z] = h[z]
  /\ \A z \in Added(h, g) : g[z] \in Created
  /\ But(h[x], e) \subseteq Children(g[x])
  /\ Children(g[x]) \subseteq Children(h[x]) \cup Added(h, g) \cup {y}
  /\ IF e.index /\ ~Has(h[x], e)
     THEN LET i == arrayIndex(e) + 1 IN i <= Len(g[x].arrayValue) /\ g[x].arrayValue[i] = y
     ELSE Has(g[x], e) /\ Get(g[x], e) = y

\* A variable gets the value w, and nothing else happens.
LEMMA OneEntry ==
  ASSUME NEW h \in Seq(Variables), NEW x \in DOMAIN h, NEW w \in Variables
  PROVE  LET g == [h EXCEPT ![x] = w]
         IN /\ g \in Seq(Variables) /\ Len(g) = Len(h) /\ DOMAIN g = DOMAIN h /\ g[x] = w
            /\ \A z \in DOMAIN h : z # x => g[z] = h[z]
            /\ Len(h) <= Len(g) /\ Added(h, g) = {}
<1> DEFINE g == [h EXCEPT ![x] = w]
           l == Len(h)
<1>1. h \in [1 .. l -> Variables] /\ l \in Nat
  BY LenProperties
<1> HIDE DEF l
<1>2. g \in [1 .. l -> Variables]
  BY <1>1
<1>3. g \in Seq(Variables) /\ Len(g) = l
  BY <1>1, <1>2, IsASeq, LenProperties
<1> QED  BY <1>1, <1>2, <1>3 DEF Added, l

LEMMA PutIndexBut ==
  ASSUME NEW v \in Variables, NEW e \in Elements, NEW y \in Nat, e.index, Has(v, e)
  PROVE  But(v, e) \subseteq Children(put(v, e, y))
<1> DEFINE k == arrayIndex(e)
           b == v.arrayValue
           w == put(v, e, y)
           a == w.arrayValue
<1>1. /\ b \in Seq(Nat) /\ DOMAIN b = 1 .. Len(b) /\ v \in [Members -> Anything]
      /\ w \in Variables /\ Get(v, e) = b[k]
  BY LenProperties, PutIndex DEF Variables, Get
<1>2. a = [b EXCEPT ![k] = y] /\ w.structValue = v.structValue
  <2>1. w = [v EXCEPT !.arrayValue = [@ EXCEPT ![k] = y]]
    BY DEF put
  <2> HIDE DEF w, k
  <2> QED  BY <1>1, <2>1, MemberNames
<1>3. DOMAIN a = DOMAIN b /\ \A i \in DOMAIN b : i # k => a[i] = b[i]
  BY <1>2
<1> HIDE DEF a, b, w, k
<1> SUFFICES ASSUME NEW z \in Children(v), z # Get(v, e) PROVE z \in Children(w)
  BY DEF But, w
<1>4. CASE \E i \in DOMAIN b : b[i] = z
  <2>1. PICK i \in DOMAIN b : b[i] = z
    BY <1>4
  <2>2. i \in DOMAIN a /\ a[i] = z
    BY <1>1, <1>3, <2>1
  <2> QED  BY <1>1, <2>2, ChildrenOf DEF a
<1>5. CASE \E n \in DOMAIN v.structValue : v.structValue[n] = z
  BY <1>1, <1>2, <1>5, ChildrenOf
<1> QED  BY <1>4, <1>5, ChildrenOf DEF b

LEMMA LastPlaced ==
  ASSUME NEW h \in Seq(Variables), NEW x \in DOMAIN h, NEW e \in Elements, NEW y \in Nat
  PROVE  Placed(h, last(h, x, e, y), x, e, y)
<1>1. h[x] \in Variables
  BY HeapType
<1>2. CASE e.index /\ ~Has(h[x], e)
  <2> DEFINE f == filled(h, x, e, Void)
             v == f[x]
             b == v.arrayValue
             k == arrayIndex(e)
             c == <<y>>
             w == [v EXCEPT !.arrayValue = @ \o c]
             g == [f EXCEPT ![x] = w]
  <2>1. Turned(h, f, x, e) /\ Len(b) = k
    <3>1. Void \in Created
      BY DEF Created
    <3> QED  BY <1>2, <3>1, FilledTurned
  <2>2. last(h, x, e, y) = [f EXCEPT ![x].arrayValue = Append(@, y)]
    BY <1>2 DEF last
  <2> HIDE DEF f
  <2>3. /\ f \in Seq(Variables) /\ Len(h) <= Len(f) /\ Kept(h[x], v)
        /\ Children(v) \subseteq Children(h[x]) \cup Added(h, f)
        /\ \A z \in DOMAIN h : z # x => f[z] = h[z]
        /\ \A z \in Added(h, f) : f[z] \in Created
    BY <2>1 DEF Turned, Extends
  <2>4. /\ DOMAIN h \subseteq DOMAIN f /\ Added(h, f) \subseteq DOMAIN f
        /\ \A z \in DOMAIN h : z \notin Added(h, f)
    BY <2>3, AddedTwice
  <2>5. v \in Variables /\ b \in Seq(Nat) /\ k \in Nat /\ k >= 1
    BY <1>2, <2>3, <2>4, HeapType, IndexType DEF Variables
  <2>6. last(h, x, e, y) = g
    <3>1. Append(b, y) = b \o c
      <4> HIDE DEF b
      <4> QED  BY <2>5, AppendIsConcat
    <3> QED  BY <2>2, <3>1
  <2>7. c \in Seq(Nat) /\ ToSet(c) = {y} /\ Len(c) = 1 /\ c[1] = y
    BY DEF ToSet
  <2> HIDE DEF c, k, v
  <2>8. /\ w \in Variables /\ w.arrayValue = b \o c /\ w.structValue = v.structValue
        /\ Children(w) \subseteq Children(v) \cup ToSet(c)
    BY <2>5, <2>7, MoreElements
  <2> HIDE DEF w
  <2>9. Children(v) \subseteq Children(w)
    BY <2>5, <2>7, <2>8, KeptArray DEF Kept
  <2>10. Len(w.arrayValue) = k + 1 /\ w.arrayValue[k + 1] = y
    <3> HIDE DEF b
    <3>1. Len(b) = k /\ k + 1 \in 1 .. k + 1 /\ ~(k + 1 <= k) /\ (k + 1) - k = 1
      BY <2>1, <2>5
    <3>2. Len(b \o c) = Len(b) + Len(c)
          /\ \A i \in 1 .. Len(b) + Len(c) : (b \o c)[i] = IF i <= Len(b) THEN b[i] ELSE c[i - Len(b)]
      BY <2>5, <2>7, ConcatProperties
    <3> QED  BY <2>7, <2>8, <3>1, <3>2 DEF b
  <2>11. /\ g \in Seq(Variables) /\ Len(g) = Len(f) /\ g[x] = w
         /\ \A z \in DOMAIN f : z # x => g[z] = f[z]
    BY <2>3, <2>4, <2>8, OneEntry
  <2> HIDE DEF g
  <2>12. Len(h) <= Len(g) /\ Added(h, g) = Added(h, f)
    BY <2>3, <2>11 DEF Added
  <2>13. Children(h[x]) \subseteq Children(g[x])
    BY <2>3, <2>9, <2>11 DEF Kept
  <2>14. Children(g[x]) \subseteq Children(h[x]) \cup Added(h, g) \cup {y}
    BY <2>3, <2>7, <2>8, <2>11, <2>12
  <2>15. \A z \in DOMAIN h : z # x => g[z] = h[z]
    BY <2>3, <2>4, <2>11
  <2>16. \A z \in Added(h, g) : g[z] \in Created
    BY <2>3, <2>4, <2>11, <2>12
  <2>17. k + 1 <= Len(g[x].arrayValue) /\ g[x].arrayValue[k + 1] = y
    BY <2>5, <2>10, <2>11
  <2> QED  BY <1>2, <2>6, <2>11, <2>12, <2>13, <2>14, <2>15, <2>16, <2>17 DEF Placed, But, k
<1>3. CASE ~e.index \/ Has(h[x], e)
  <2> DEFINE w == put(h[x], e, y)
             g == [h EXCEPT ![x] = w]
  <2>1. last(h, x, e, y) = g
    BY <1>3 DEF last
  <2>2. w \in Variables /\ Has(w, e) /\ Get(w, e) = y /\ Children(w) \subseteq Children(h[x]) \cup {y}
    BY <1>1, <1>3, PutElement
  <2>3. But(h[x], e) \subseteq Children(w)
    <3>1. CASE ~e.index
      BY <1>1, <3>1, KeptStruct DEF But
    <3>2. CASE e.index
      BY <1>1, <1>3, <3>2, PutIndexBut
    <3> QED  BY <3>1, <3>2
  <2> HIDE DEF w
  <2>4. /\ g \in Seq(Variables) /\ Len(h) <= Len(g) /\ Added(h, g) = {} /\ g[x] = w
        /\ \A z \in DOMAIN h : z # x => g[z] = h[z]
    BY <2>2, OneEntry
  <2> HIDE DEF g
  <2> QED  BY <1>3, <2>1, <2>2, <2>3, <2>4 DEF Placed
<1> QED  BY <1>2, <1>3

LEMMA RemovedRest ==
  ASSUME NEW v \in Variables, NEW e \in Elements, Has(v, e)
  PROVE  LET w == removed(v, e)
             i == arrayIndex(e) + 1
         IN /\ But(v, e) \subseteq Children(w)
            /\ IF e.index
               THEN (IF Has(w, e) THEN Get(w, e) ELSE Null)
                      = (IF i <= Len(v.arrayValue) THEN v.arrayValue[i] ELSE Null)
               ELSE ~Has(w, e)
<1> DEFINE w == removed(v, e)
           k == arrayIndex(e)
<1>1. w \in Variables /\ v \in [Members -> Anything]
  BY RemovedElement DEF Variables
<1> SUFFICES /\ \A z \in Children(v) : z # Get(v, e) => z \in Children(w)
             /\ IF e.index
                THEN (IF Has(w, e) THEN Get(w, e) ELSE Null)
                       = (IF k + 1 <= Len(v.arrayValue) THEN v.arrayValue[k + 1] ELSE Null)
                ELSE ~Has(w, e)
  BY DEF But
<1>2. CASE e.index
  <2> DEFINE b == v.arrayValue
             a == RemoveAt(b, k)
             m == Len(b)
  <2>1. b \in Seq(Nat) /\ k \in Nat /\ k >= 1 /\ k <= m /\ DOMAIN b = 1 .. m /\ m \in Nat
    BY <1>2, IndexType, LenProperties DEF Variables, Has
  <2>2. w = [v EXCEPT !.arrayValue = a]
    BY <1>2 DEF removed
  <2> HIDE DEF k, m
  <2>3. /\ a \in Seq(Nat) /\ Len(a) = m - 1 /\ DOMAIN a = 1 .. m - 1
        /\ \A i \in 1 .. m - 1 : a[i] = IF i < k THEN b[i] ELSE b[i + 1]
    <3>1. k \in 1 .. Len(b)
      BY <2>1 DEF m
    <3> QED  BY <2>1, <3>1, RemoveAtEntries DEF m
  <2> HIDE DEF a, w
  <2>4. w.arrayValue = a /\ w.structValue = v.structValue
    BY <1>1, <2>2, MemberNames
  <2> HIDE DEF b
  <2>5. ASSUME NEW i \in DOMAIN b, i # k PROVE \E j \in DOMAIN a : a[j] = b[i]
    <3>1. CASE i < k
      <4>1. i \in 1 .. m - 1
        BY <2>1, <3>1
      <4> QED  BY <2>3, <3>1, <4>1
    <3>2. CASE i > k
      <4>1. i - 1 \in 1 .. m - 1 /\ ~(i - 1 < k) /\ (i - 1) + 1 = i
        BY <2>1, <3>2
      <4>2. a[i - 1] = b[i]
        BY <2>3, <4>1
      <4> QED  BY <2>3, <4>1, <4>2
    <3> QED  BY <2>1, <2>5, <3>1, <3>2
  <2>6. ASSUME NEW z \in Children(v), z # Get(v, e) PROVE z \in Children(w)
    <3>1. CASE \E i \in DOMAIN b : b[i] = z
      <4>1. PICK i \in DOMAIN b : b[i] = z
        BY <3>1
      <4>2. i # k
        BY <1>2, <2>6, <4>1 DEF Get, b, k
      <4>3. PICK j \in DOMAIN a : a[j] = z
        BY <2>5, <4>1, <4>2
      <4> QED  BY <1>1, <2>4, <4>3, ChildrenOf
    <3>2. CASE \E n \in DOMAIN v.structValue : v.structValue[n] = z
      BY <1>1, <2>4, <3>2, ChildrenOf
    <3> QED  BY <3>1, <3>2, ChildrenOf DEF b
  <2>7. Has(w, e) <=> k + 1 <= m
    <3>1. Has(w, e) <=> k <= m - 1
      BY <1>2, <2>3, <2>4 DEF Has, k
    <3> QED  BY <2>1, <3>1
  <2>8. k + 1 <= m => Get(w, e) = b[k + 1]
    <3>1. k + 1 <= m => k \in 1 .. m - 1 /\ ~(k < k)
      BY <2>1
    <3> QED  BY <1>2, <2>3, <2>4, <3>1 DEF Get, k
  <2> QED  BY <1>2, <2>6, <2>7, <2>8 DEF b, m
<1>3. CASE ~e.index
  <2> DEFINE s == v.structValue
             r == [n \in DOMAIN s \ {e.name} |-> s[n]]
  <2>1. w = [v EXCEPT !.structValue = r]
    BY <1>3 DEF removed
  <2> HIDE DEF r, w
  <2>2. w.structValue = r /\ w.arrayValue = v.arrayValue
    BY <1>1, <2>1, MemberNames
  <2>3. DOMAIN r = DOMAIN s \ {e.name} /\ \A n \in DOMAIN r : r[n] = s[n]
    BY DEF r
  <2> HIDE DEF s
  <2>4. ASSUME NEW z \in Children(v), z # Get(v, e) PROVE z \in Children(w)
    <3>1. CASE \E n \in DOMAIN s : s[n] = z
      <4>1. PICK n \in DOMAIN s : s[n] = z
        BY <3>1
      <4>2. n # e.name
        BY <1>3, <2>4, <4>1 DEF Get, s
      <4> QED  BY <1>1, <2>2, <2>3, <4>1, <4>2, ChildrenOf
    <3>2. CASE \E i \in DOMAIN v.arrayValue : v.arrayValue[i] = z
      BY <1>1, <2>2, <3>2, ChildrenOf
    <3> QED  BY <3>1, <3>2, ChildrenOf DEF s
  <2>5. ~Has(w, e)
    BY <1>3, <2>2, <2>3 DEF Has
  <2> QED  BY <1>3, <2>4, <2>5
<1> QED  BY <1>2, <1>3

-----------------------------------------------------------------------------
(* The last element of a path *)

LEMMA Ends ==
  ASSUME NEW elements \in Seq(Elements), elements # <<>>
  PROVE  /\ Len(elements) \in Nat /\ Len(elements) - 1 \in 0 .. Len(elements)
         /\ Len(elements) \in 0 .. Len(elements) /\ Len(elements) \in 1 .. Len(elements)
         /\ Front(elements) = SubSeq(elements, 1, Len(elements) - 1)
         /\ SubSeq(elements, 1, Len(elements)) = elements
         /\ Last(elements) = elements[Len(elements)] /\ Last(elements) \in Elements
<1> DEFINE n == Len(elements)
<1>1. n \in Nat /\ n # 0
  BY LenProperties, EmptySeq
<1>2. n \in Nat /\ n - 1 \in 0 .. n /\ n \in 0 .. n /\ n \in 1 .. n
  <2> HIDE DEF n
  <2> QED  BY <1>1
<1>3. SubSeq(elements, 1, n) = elements
  <2> DEFINE sub == SubSeq(elements, 1, n)
  <2>1. sub \in Seq(Elements) /\ Len(sub) = n /\ \A j \in 1 .. n : sub[j] = elements[j]
    BY <1>2, Prefix
  <2> HIDE DEF sub
  <2>2. sub = elements
    BY <2>1, SeqEqual
  <2> QED  BY <2>2 DEF sub
<1>4. Last(elements) = elements[n] /\ elements[n] \in Elements
  BY <1>2, ElementOfSeq DEF Last
<1> QED  BY <1>2, <1>3, <1>4 DEF Front

\* match comes to x, and finds the last element in it.
Ending(h, R, m, elements, x) ==
  /\ match(h, m, Front(elements)) = x /\ x \in R /\ x # Null
  /\ match(h, m, elements) = IF Has(h[x], Last(elements)) THEN Get(h[x], Last(elements)) ELSE Null

LEMMA MatchLast ==
  ASSUME NEW R, NEW sh, NEW h, NEW m \in R, NEW elements \in Seq(Elements), Sound(h, R, sh),
         elements # <<>>, NEW f, f[0] = m, Leads(f, h, elements, Len(elements) - 1)
  PROVE  Ending(h, R, m, elements, f[Len(elements) - 1])
<1> DEFINE n == Len(elements)
           e == Last(elements)
           x == f[n - 1]
<1>1. /\ n \in Nat /\ n - 1 \in 0 .. n /\ n \in 0 .. n /\ n \in 1 .. n
      /\ Front(elements) = SubSeq(elements, 1, n - 1) /\ SubSeq(elements, 1, n) = elements
      /\ e = elements[n] /\ e \in Elements
  BY Ends
<1>2. match(h, m, Front(elements)) = x /\ x \in R /\ x # Null
  <2> DEFINE k == n - 1
  <2>1. k \in 0 .. Len(elements) /\ f[0] = m /\ Leads(f, h, elements, k) /\ Sound(h, R, sh)
    BY <1>1
  <2> HIDE DEF k
  <2>2. Arrives(f, h, R, m, elements, k)
    BY <2>1, LeadsMatch
  <2> QED  BY <1>1, <2>2 DEF Arrives, k
<1>3. CASE ~Has(h[x], e)
  <2>1. n - 1 \in 0 .. n - 1 /\ (n - 1) + 1 = n
    BY <1>1
  <2>2. match(h, m, elements) = Null
    BY <1>1, <1>3, <2>1, LeadsNowhere
  <2> QED  BY <1>2, <1>3, <2>2 DEF Ending
<1>4. CASE Has(h[x], e)
  <2> DEFINE y == Get(h[x], e)
             g == [i \in 0 .. n |-> IF i = n THEN y ELSE f[i]]
  <2> HIDE DEF n, e, y
  <2>1. g[0] = m /\ g[n] = y /\ \A i \in 0 .. n - 1 : g[i] = f[i]
    BY <1>1
  <2> HIDE DEF g
  <2>2. Leads(g, h, elements, n)
    <3> SUFFICES ASSUME NEW i \in 1 .. n
                 PROVE  /\ g[i - 1] \in DOMAIN h /\ Has(h[g[i - 1]], elements[i])
                        /\ g[i] = Get(h[g[i - 1]], elements[i])
      BY DEF Leads
    <3>1. g[i - 1] = f[i - 1]
      BY <1>1, <2>1
    <3>2. CASE i = n
      <4>1. x \in DOMAIN h
        BY <1>2 DEF Sound, Region
      <4> QED  BY <1>1, <1>4, <2>1, <3>1, <3>2, <4>1 DEF y
    <3>3. CASE i # n
      <4>1. i \in 1 .. n - 1 /\ i \in 0 .. n - 1
        BY <1>1, <3>3
      <4>2. Leads(f, h, elements, n - 1)
        BY DEF n
      <4> QED  BY <2>1, <3>1, <4>1, <4>2 DEF Leads
    <3> QED  BY <3>2, <3>3
  <2>3. match(h, m, elements) = y
    <3>1. n \in 0 .. Len(elements)
      BY <1>1 DEF n
    <3>2. Arrives(g, h, R, m, elements, n)
      BY <2>1, <2>2, <3>1, LeadsMatch
    <3> QED  BY <1>1, <2>1, <3>2 DEF Arrives
  <2> QED  BY <1>2, <1>4, <2>3 DEF Ending, y, e, n
<1> QED  BY <1>3, <1>4


LEMMA FrontLeads ==
  ASSUME NEW R, NEW sh, NEW h, NEW m \in R, NEW elements \in Seq(Elements), Sound(h, R, sh),
         elements # <<>>, match(h, m, Front(elements)) # Null
  PROVE  \E f : WayTo(f, h, R, m, elements, Len(elements) - 1, match(h, m, Front(elements)))
<1> DEFINE n == Len(elements)
           front == Front(elements)
<1>1. n \in Nat /\ n - 1 \in 0 .. n /\ front = SubSeq(elements, 1, n - 1)
  BY Ends
<1>2. front \in Seq(Elements) /\ Len(front) = n - 1 /\ \A j \in 1 .. n - 1 : front[j] = elements[j]
  BY <1>1, Prefix
<1> HIDE DEF n
<1>3. match(h, m, front) # Null /\ Sound(h, R, sh)
  OBVIOUS
<1> HIDE DEF front
<1>4. PICK f : WayTo(f, h, R, m, front, Len(front), match(h, m, front))
  BY <1>2, <1>3, MatchLeads
<1>5. Leads(f, h, elements, n - 1)
  BY <1>2, <1>4 DEF Leads, WayTo
<1>6. WayTo(f, h, R, m, elements, n - 1, match(h, m, front))
  BY <1>2, <1>4, <1>5 DEF WayTo
<1> QED  BY <1>6 DEF n, front

-----------------------------------------------------------------------------
(* What erase does to the elements that paths name *)

\* g has what h has, but for y.
Loses(h, g, y) == \A z \in DOMAIN h : Children(h[z]) \subseteq Children(g[z]) \cup {y}

LEMMA ErasedRest ==
  ASSUME NEW R, NEW sh, NEW h, NEW m \in R, NEW elements \in Seq(Elements), Sound(h, R, sh),
         WellFounded(h), elements # <<>>
  PROVE  LET g == erased(h, m, elements)
         IN /\ Loses(h, g, match(h, m, elements))
            /\ \A z \in DOMAIN h : Children(g[z]) \subseteq Children(h[z])
            /\ match(g, m, elements) = IF Last(elements).index THEN Behind(h, m, elements) ELSE Null
<1> DEFINE n == Len(elements)
           e == Last(elements)
           x == match(h, m, Front(elements))
           y == match(h, m, elements)
           g == erased(h, m, elements)
<1>1. n \in Nat /\ n - 1 \in 0 .. n /\ e = elements[n] /\ e \in Elements
  BY Ends
<1>2. /\ h \in Seq(Variables) /\ R \subseteq DOMAIN h /\ DOMAIN h \subseteq Nat /\ Null \notin Nat
      /\ \A z \in DOMAIN h : h[z] \in Variables
  BY MessagesAssumption, HeapType DEF Sound, Region
<1>3. CASE y = Null
  <2>1. g = h
    BY <1>3 DEF erased
  <2>2. Behind(h, m, elements) = Null \/ ~e.index
    <3> SUFFICES ASSUME e.index, x # Null PROVE ~(arrayIndex(e) + 1 <= Len(h[x].arrayValue))
      BY DEF Behind
    <3>a. PICK f : WayTo(f, h, R, m, elements, n - 1, x)
      BY FrontLeads
    <3>1. f[0] = m /\ f[n - 1] = x /\ Leads(f, h, elements, n - 1)
      BY <3>a DEF WayTo
    <3>2. Ending(h, R, m, elements, f[n - 1])
      BY <3>1, MatchLast
    <3>3. h[x] \in Variables
      BY <1>2, <3>1, <3>2 DEF Ending
    <3>4. ~Has(h[x], e)
      <4> SUFFICES ASSUME Has(h[x], e) PROVE FALSE
        OBVIOUS
      <4>1. y = Get(h[x], e)
        BY <3>1, <3>2 DEF Ending
      <4>2. Get(h[x], e) \in Nat
        BY <1>1, <3>3, HasGet, ChildrenOf
      <4> QED  BY <1>2, <1>3, <4>1, <4>2
    <3>5. Len(h[x].arrayValue) \in Nat /\ arrayIndex(e) \in Nat
      BY <1>1, <3>3, IndexType, LenProperties DEF Variables
    <3>6. ~(arrayIndex(e) <= Len(h[x].arrayValue))
      BY <3>4 DEF Has
    <3> HIDE DEF e, x
    <3> QED  BY <3>5, <3>6
  <2> QED  BY <1>3, <2>1, <2>2 DEF Loses
<1>4. CASE y # Null
  <2>1. x \in R /\ Has(h[x], e)
    BY <1>4, MatchFront
  <2>2. x # Null /\ x \in DOMAIN h
    BY <1>2, <2>1
  <2>a. PICK f : WayTo(f, h, R, m, elements, n - 1, x)
    BY <2>2, FrontLeads
  <2>3. f[0] = m /\ f[n - 1] = x /\ Leads(f, h, elements, n - 1)
    BY <2>a DEF WayTo
  <2>4. y = Get(h[x], e)
    <3>1. Ending(h, R, m, elements, f[n - 1])
      BY <2>3, MatchLast
    <3> QED  BY <2>1, <2>3, <3>1 DEF Ending
  <2> DEFINE w == removed(h[x], e)
  <2>5. /\ But(h[x], e) \subseteq Children(w)
        /\ IF e.index
           THEN (IF Has(w, e) THEN Get(w, e) ELSE Null) = Behind(h, m, elements)
           ELSE ~Has(w, e)
    <3>1. LET i == arrayIndex(e) + 1
          IN /\ But(h[x], e) \subseteq Children(w)
             /\ IF e.index
                THEN (IF Has(w, e) THEN Get(w, e) ELSE Null)
                       = (IF i <= Len(h[x].arrayValue) THEN h[x].arrayValue[i] ELSE Null)
                ELSE ~Has(w, e)
      BY <1>1, <1>2, <2>1, <2>2, RemovedRest
    <3> HIDE DEF w
    <3> QED  BY <2>2, <3>1 DEF Behind
  <2>6. w \in Variables /\ Children(w) \subseteq Children(h[x])
    BY <1>1, <1>2, <2>1, <2>2, RemovedElement
  <2>7. g = [h EXCEPT ![x] = w]
    BY <1>4 DEF erased
  <2> HIDE DEF w
  <2>8. /\ g \in Seq(Variables) /\ Len(g) = Len(h) /\ DOMAIN g = DOMAIN h /\ g[x] = w
        /\ \A z \in DOMAIN h : z # x => g[z] = h[z]
    <3> DEFINE k == [h EXCEPT ![x] = w]
    <3> HIDE DEF g
    <3>1. /\ k \in Seq(Variables) /\ Len(k) = Len(h) /\ DOMAIN k = DOMAIN h /\ k[x] = w
          /\ \A z \in DOMAIN h : z # x => k[z] = h[z]
      BY <1>2, <2>2, <2>6, OneEntry
    <3> QED  BY <2>7, <3>1
  <2>9. Sound(g, R, sh)
    <3>1. Grows(h, g, R, sh)
      BY ErasedGrows
    <3>2. Added(h, g) = {}
      <4>1. Len(h) \in Nat
        BY <1>2, LenProperties
      <4> QED  BY <2>8, <4>1 DEF Added
    <3>3. R \cup Added(h, g) = R
      BY <3>2
    <3> QED  BY <3>1, <3>3 DEF Grows
  <2> HIDE DEF g, x, e, n
  <2>10. Leads(f, g, elements, n - 1)
    <3> SUFFICES ASSUME NEW i \in 1 .. n - 1
                 PROVE  /\ f[i - 1] \in DOMAIN g /\ Has(g[f[i - 1]], elements[i])
                        /\ f[i] = Get(g[f[i - 1]], elements[i])
      BY DEF Leads
    <3>1. f[i - 1] \in DOMAIN h /\ Has(h[f[i - 1]], elements[i]) /\ f[i] = Get(h[f[i - 1]], elements[i])
      BY <2>3 DEF Leads
    <3>2. f[i - 1] # f[n - 1]
      <4>1. i - 1 \in 0 .. (n - 1) - 1 /\ n - 1 \in 0 .. Len(elements)
        BY <1>1 DEF n
      <4> QED  BY <1>2, <2>3, <4>1, NoCircle
    <3> QED  BY <2>3, <2>8, <3>1, <3>2
  <2>11. Ending(g, R, m, elements, x)
    <3>1. Ending(g, R, m, elements, f[n - 1])
      BY <2>3, <2>9, <2>10, MatchLast DEF n
    <3> QED  BY <2>3, <3>1
  <2>12. match(g, m, elements) = IF Has(w, e) THEN Get(w, e) ELSE Null
    BY <2>8, <2>11 DEF Ending, e
  <2>13. Loses(h, g, y)
    BY <2>1, <2>4, <2>5, <2>8 DEF Loses, But
  <2>14. \A z \in DOMAIN h : Children(g[z]) \subseteq Children(h[z])
    BY <2>6, <2>8
  <2>15. match(g, m, elements) = IF e.index THEN Behind(h, m, elements) ELSE Null
    BY <2>5, <2>12
  <2> QED  BY <2>13, <2>14, <2>15 DEF g, e
<1> QED  BY <1>3, <1>4

-----------------------------------------------------------------------------
(* Where the loop of set comes to *)

\* g is the heap when the loop has passed p[0], ..., p[i]: it has found everything in h,
\* or it stands at a variable that it has created.
Standing(h, m, elements, g, p, i) ==
  /\ Extends(h, g) /\ WellFounded(g) /\ Leads(p, g, elements, i)
  /\ \A z \in DOMAIN h : z \notin Way(h, m, elements) => g[z] = h[z]
  /\ \/ g = h
     \/ p[i] \in Added(h, g) /\ g[p[i]] \in Created /\ match(h, m, elements) = Null

LEMMA CreatedEmpty == ASSUME NEW v \in Created, NEW e \in Elements PROVE ~Has(v, e) /\ Children(v) = {}
<1>1. v \in Variables /\ Children(v) = {}
  BY CreatedDistinct
<1> QED  BY <1>1, HasGet

LEMMA LeadsOn ==
  ASSUME NEW g, NEW k, NEW p, NEW elements \in Seq(Elements), NEW i \in 0 .. Len(elements),
         Extends(g, k), Leads(p, g, elements, i)
  PROVE  Leads(p, k, elements, i)
<1> SUFFICES ASSUME NEW j \in 1 .. i
             PROVE  /\ p[j - 1] \in DOMAIN k /\ Has(k[p[j - 1]], elements[j])
                    /\ p[j] = Get(k[p[j - 1]], elements[j])
  BY DEF Leads
<1> DEFINE x == p[j - 1]
           e == elements[j]
<1>1. x \in DOMAIN g /\ Has(g[x], e) /\ p[j] = Get(g[x], e)
  BY DEF Leads
<1>2. e \in Elements
  <2>1. j \in 1 .. Len(elements)
    BY LenProperties
  <2> QED  BY <2>1, ElementOfSeq
<1>3. Kept(g[x], k[x]) /\ DOMAIN g \subseteq DOMAIN k
  BY <1>1, AddedTwice DEF Extends
<1> HIDE DEF x, e
<1>4. x \in DOMAIN k /\ Has(k[x], e) /\ p[j] = Get(k[x], e)
  BY <1>1, <1>2, <1>3 DEF Kept
<1> QED  BY <1>4 DEF x, e

LEMMA StandingOn ==
  ASSUME NEW R, NEW sh, NEW h, NEW m \in R, NEW elements \in Seq(Elements), Sound(h, R, sh),
         NEW i \in 1 .. Len(elements) - 1, NEW g, NEW k, NEW p, p[0] = m, p[i - 1] \in DOMAIN g,
         Standing(h, m, elements, g, p, i - 1), Turned(g, k, p[i - 1], elements[i]),
         p[i] = Get(k[p[i - 1]], elements[i])
  PROVE  Standing(h, m, elements, k, p, i)
<1> DEFINE n == Len(elements)
           x == p[i - 1]
           e == elements[i]
<1>1. /\ n \in Nat /\ i \in Nat /\ i \in 1 .. n /\ i - 1 \in 0 .. n - 1 /\ (i - 1) + 1 = i
      /\ i - 1 \in 0 .. n /\ e \in Elements
  <2>1. n \in Nat /\ i \in 1 .. n
    BY LenProperties
  <2> QED  BY <2>1, ElementOfSeq
<1> HIDE DEF n
<1>2. /\ Extends(h, g) /\ WellFounded(g) /\ Leads(p, g, elements, i - 1) /\ x \in DOMAIN g
      /\ \A z \in DOMAIN h : z \notin Way(h, m, elements) => g[z] = h[z]
      /\ \/ g = h
         \/ x \in Added(h, g) /\ g[x] \in Created /\ match(h, m, elements) = Null
  BY DEF Standing
<1>3. /\ Extends(g, k) /\ Has(k[x], e)
      /\ \A z \in DOMAIN g : z # x => k[z] = g[z]
      /\ \A z \in Added(g, k) : k[z] \in Created
      /\ IF Has(g[x], e) THEN k = g ELSE p[i] \in Added(g, k)
  BY DEF Turned
<1> HIDE DEF x, e
<1>4. Extends(h, k)
  BY <1>2, <1>3, ExtendsTwice
<1>5. /\ h \in Seq(Variables) /\ g \in Seq(Variables) /\ k \in Seq(Variables)
      /\ Len(h) <= Len(g) /\ Len(g) <= Len(k)
  BY <1>2, <1>3 DEF Extends
<1>6. /\ DOMAIN h \subseteq DOMAIN g /\ DOMAIN g \subseteq DOMAIN k
      /\ Added(g, k) \subseteq Added(h, k) /\ Added(g, k) \subseteq DOMAIN k
      /\ \A z \in DOMAIN g : z \notin Added(g, k)
      /\ \A z \in DOMAIN h : z \notin Added(h, g)
      /\ \A z \in DOMAIN k : z \in DOMAIN g \/ z \in Added(g, k)
  <2>1. Len(k) <= Len(k)
    BY <1>5, LenProperties
  <2> QED  BY <1>5, <2>1, AddedTwice
<1>7. WellFounded(k)
  <2> DEFINE V == Added(g, k)
  <2>1. \A z \in V : Children(k[z]) = {}
    BY <1>1, <1>3, CreatedEmpty
  <2>2. Region(k, V) /\ x \notin V
    BY <1>2, <1>6, <2>1 DEF Region
  <2>3. /\ \A z \in DOMAIN k \ DOMAIN g : Children(k[z]) = {}
        /\ \A z \in DOMAIN k \cap DOMAIN g : z # x => Children(k[z]) \subseteq Children(g[z])
    BY <1>3, <1>6, <2>1
  <2>4. Children(k[x]) \subseteq Children(g[x]) \cup V
    BY <1>2, <1>3 DEF Extends
  <2> HIDE DEF V
  <2> QED  BY <1>2, <2>2, <2>3, <2>4, StaysWellFounded
<1>8. Leads(p, k, elements, i)
  <2>1. Leads(p, k, elements, i - 1)
    BY <1>1, <1>2, <1>3, LeadsOn DEF n
  <2>2. p[i] = Get(k[x], e) /\ x \in DOMAIN k
    BY <1>2, <1>6 DEF x, e
  <2>3. \A j \in 1 .. i : j \in 1 .. i - 1 \/ j = i
    BY <1>1
  <2> QED  BY <1>3, <2>1, <2>2, <2>3 DEF Leads, x, e
<1>9. ASSUME NEW z \in DOMAIN h, z \notin Way(h, m, elements)
      PROVE  k[z] = h[z]
  <2>1. z # x
    <3>1. CASE g = h
      <4>1. Arrives(p, h, R, m, elements, i - 1)
        BY <1>1, <1>2, <3>1, LeadsMatch DEF n
      <4>2. x \in Way(h, m, elements)
        BY <1>1, <4>1 DEF Arrives, Way, x, n
      <4> QED  BY <1>9, <4>2
    <3>2. CASE g # h
      BY <1>2, <1>6, <3>2
    <3> QED  BY <3>1, <3>2
  <2> QED  BY <1>2, <1>3, <1>6, <1>9, <2>1
<1>10. k = h \/ (p[i] \in Added(h, k) /\ k[p[i]] \in Created /\ match(h, m, elements) = Null)
  <2>1. CASE g = h
    <3>1. CASE Has(g[x], e)
      BY <1>3, <2>1, <3>1
    <3>2. CASE ~Has(g[x], e)
      <4>1. p[i] \in Added(h, k) /\ k[p[i]] \in Created
        BY <1>3, <1>6, <3>2
      <4>2. ~Has(h[p[i - 1]], elements[(i - 1) + 1])
        BY <1>1, <2>1, <3>2 DEF x, e
      <4> DEFINE j == i - 1
      <4>a. j \in 0 .. Len(elements) - 1 /\ Leads(p, h, elements, j)
        BY <1>1, <1>2, <2>1 DEF n
      <4>b. ~Has(h[p[j]], elements[j + 1])
        BY <4>2
      <4> HIDE DEF j
      <4>3. match(h, m, elements) = Null
        BY <4>a, <4>b, LeadsNowhere
      <4> QED  BY <4>1, <4>3
    <3> QED  BY <3>1, <3>2
  <2>2. CASE g # h
    <3>1. ~Has(g[x], e)
      BY <1>1, <1>2, <2>2, CreatedEmpty
    <3> QED  BY <1>2, <1>3, <1>6, <2>2, <3>1
  <2> QED  BY <2>1, <2>2
<1> QED  BY <1>4, <1>7, <1>8, <1>9, <1>10 DEF Standing

\* What set does is to change variable p[n - 1] of g, when the loop has passed p.
Stands(h, R, sh, m, elements, value, g, p) ==
  LET x == p[Len(elements) - 1] IN
  /\ p[0] = m /\ x \in R \cup Added(h, g) /\ Grows(h, g, R, sh)
  /\ Standing(h, m, elements, g, p, Len(elements) - 1)
  /\ assigned(h, m, elements, value) = last(g, x, Last(elements), value)

LEMMA AssignedStands ==
  ASSUME NEW R, NEW sh, NEW h, NEW m \in R, NEW elements \in Seq(Elements), elements # <<>>,
         NEW value \in R, Sound(h, R, sh), value \in sh \/ Free(h, value), WellFounded(h)
  PROVE  \E g, p : Stands(h, R, sh, m, elements, value, g, p)
<1> DEFINE n == Len(elements)
           top == n - 1
<1>1. /\ n \in Nat /\ top \in Nat /\ top + 1 = n /\ top \in 0 .. top
      /\ Last(elements) = elements[n]
      /\ \A i \in 1 .. n : elements[i] \in Elements
  <2>1. n \in Nat /\ n \in 1 .. n /\ Last(elements) = elements[n]
    BY Ends
  <2>2. \A i \in 1 .. n : elements[i] \in Elements
    BY ElementOfSeq
  <2> HIDE DEF n
  <2> QED  BY <2>1, <2>2
<1>2. PICK f \in [0 .. top -> Stages(h, R, sh, value)] :
        /\ Turns(f, h, m, elements)
        /\ LET end == f[top] IN assigned(h, m, elements, value) = last(end.heap, end.current, elements[n], value)
  BY AssignedTurns
<1> DEFINE p == [j \in 0 .. top |-> f[j].current]
           Holds(i) == Standing(h, m, elements, f[i].heap, p, i)
           T == {i \in Nat : i <= top => Holds(i)}
<1>3. f[0] = [heap |-> h, current |-> m]
      /\ \A i \in 1 .. top :
           LET g == next(f[i - 1].heap, f[i - 1].current, elements[i], TypeFor(elements[i + 1]))
           IN f[i] = [heap |-> g, current |-> Get(g[f[i - 1].current], elements[i])]
  BY <1>2 DEF Turns
<1>a. assigned(h, m, elements, value) = last(f[top].heap, f[top].current, elements[n], value)
  BY <1>2
<1> HIDE DEF n, top
<1>4. \A i \in 0 .. top :
        /\ f[i].heap \in Seq(Variables) /\ Grows(h, f[i].heap, R, sh)
        /\ f[i].current \in R \cup Added(h, f[i].heap) /\ f[i].current \in DOMAIN f[i].heap
        /\ p[i] = f[i].current
  <2> SUFFICES ASSUME NEW i \in 0 .. top
               PROVE  /\ f[i].heap \in Seq(Variables) /\ Grows(h, f[i].heap, R, sh)
                      /\ f[i].current \in R \cup Added(h, f[i].heap)
                      /\ f[i].current \in DOMAIN f[i].heap
    OBVIOUS
  <2>1. f[i] \in Stages(h, R, sh, value)
    BY <1>2
  <2> HIDE DEF p
  <2>2. /\ f[i].heap \in Seq(Variables) /\ Grows(h, f[i].heap, R, sh)
        /\ f[i].current \in R \cup Added(h, f[i].heap)
    BY <2>1 DEF Stages
  <2> QED  BY <2>2 DEF Grows, Sound, Region
<1>5. p[0] = m /\ f[0].heap = h
  <2>1. 0 \in 0 .. top
    BY <1>1
  <2> QED  BY <1>3, <2>1
<1> HIDE DEF p
<1>6. 0 \in T
  <2>1. Extends(h, h) /\ \A i \in 1 .. 0 : FALSE
    BY ExtendsItself DEF Sound
  <2>2. Leads(p, h, elements, 0)
    BY <2>1 DEF Leads
  <2> QED  BY <1>5, <2>1, <2>2 DEF Standing
<1>7. ASSUME NEW j \in Nat, j \in T PROVE j + 1 \in T
  <2> SUFFICES ASSUME j + 1 <= top PROVE Holds(j + 1)
    OBVIOUS
  <2> DEFINE i == j + 1
             g == f[i - 1].heap
             x == p[i - 1]
             e == elements[i]
             k == next(g, x, e, TypeFor(elements[i + 1]))
  <2>1. i \in 1 .. top /\ i \in 1 .. n - 1 /\ i - 1 = j /\ j \in 0 .. top /\ i \in 0 .. top
        /\ i \in 1 .. n
    BY <1>1
  <2> HIDE DEF i
  <2>2. Standing(h, m, elements, g, p, i - 1)
    BY <1>7, <2>1
  <2>3. g \in Seq(Variables) /\ x \in DOMAIN g /\ e \in Elements
    BY <1>1, <1>4, <2>1
  <2>4. f[i] = [heap |-> k, current |-> Get(k[x], e)]
    BY <1>3, <1>4, <2>1
  <2>5. Turned(g, k, x, e)
    <3>1. TypeFor(elements[i + 1]) \in {"tArray", "tStruct"}
      BY DEF TypeFor
    <3> HIDE DEF g, x, e
    <3> QED  BY <2>3, <3>1, NextTurned
  <2> HIDE DEF k, g
  <2>6. p[i] = Get(k[p[i - 1]], elements[i]) /\ f[i].heap = k
    BY <1>4, <2>1, <2>4
  <2>7. Standing(h, m, elements, k, p, i)
    BY <1>5, <2>1, <2>2, <2>3, <2>5, <2>6, StandingOn DEF n
  <2> QED  BY <2>6, <2>7 DEF i
<1> HIDE DEF T, Holds
<1>8. \A i \in Nat : i \in T
  BY <1>6, <1>7, NaturalInduction
<1>9. Standing(h, m, elements, f[top].heap, p, top)
  BY <1>1, <1>8 DEF T, Holds
<1>10. p[top] = f[top].current /\ p[top] \in R \cup Added(h, f[top].heap) /\ Grows(h, f[top].heap, R, sh)
  BY <1>1, <1>4
<1>11. Stands(h, R, sh, m, elements, value, f[top].heap, p)
  BY <1>1, <1>5, <1>9, <1>10, <1>a DEF Stands, n, top
<1> QED  BY <1>11

-----------------------------------------------------------------------------
(* What set does to the elements that paths name *)

\* In k, match finds y at the elements, unless the last is an index that was missing in h.
Finds(h, k, m, elements, y) ==
  (Last(elements).index => match(h, m, elements) # Null) => match(k, m, elements) = y

LEMMA AssignedFinds ==
  ASSUME NEW R, NEW sh, NEW h, NEW m \in R, NEW elements \in Seq(Elements), elements # <<>>,
         NEW value \in R, Sound(h, R, sh), value \in sh \/ Free(h, value), WellFounded(h)
  PROVE  LET k == assigned(h, m, elements, value)
         IN Loses(h, k, match(h, m, elements)) /\ Finds(h, k, m, elements, value)
<1> DEFINE n == Len(elements)
           e == Last(elements)
           k == assigned(h, m, elements, value)
           y == match(h, m, elements)
<1>1. n \in Nat /\ n - 1 \in 0 .. n /\ e = elements[n] /\ e \in Elements
  BY Ends
<1>2. PICK g, p : Stands(h, R, sh, m, elements, value, g, p)
  BY AssignedStands
<1> DEFINE x == p[n - 1]
<1>3. /\ p[0] = m /\ x \in R \cup Added(h, g) /\ Grows(h, g, R, sh)
      /\ k = last(g, x, e, value)
      /\ Extends(h, g) /\ WellFounded(g) /\ Leads(p, g, elements, n - 1)
      /\ \/ g = h
         \/ x \in Added(h, g) /\ g[x] \in Created /\ y = Null
  BY <1>2 DEF Stands, Standing
<1>a. Grows(h, k, R, sh) /\ k \in Seq(Variables)
  BY AssignedGrows
<1> HIDE DEF n, e, k, y, x
<1>4. /\ h \in Seq(Variables) /\ g \in Seq(Variables) /\ k \in Seq(Variables)
      /\ x \in DOMAIN g /\ value \in Nat /\ Null \notin Nat
      /\ Sound(k, R \cup Added(h, k), sh) /\ m \in R \cup Added(h, k)
      /\ \A z \in DOMAIN h : z \in DOMAIN g /\ z \notin Added(h, g)
      /\ \A z \in DOMAIN g : g[z] \in Variables /\ Children(g[z]) \subseteq Nat
  <2>1. h \in Seq(Variables) /\ g \in Seq(Variables) /\ Len(h) <= Len(g) /\ Len(g) <= Len(g)
    BY <1>3, LenProperties DEF Extends
  <2>2. x \in DOMAIN g
    BY <1>3 DEF Grows, Sound, Region
  <2>3. \A z \in DOMAIN h : z \in DOMAIN g /\ z \notin Added(h, g)
    BY <2>1, AddedTwice
  <2>4. value \in Nat
    BY <2>1, HeapType DEF Sound, Region
  <2>5. \A z \in DOMAIN g : g[z] \in Variables /\ Children(g[z]) \subseteq Nat
    BY <2>1, HeapType, ChildrenOf
  <2> QED  BY <1>a, <2>1, <2>2, <2>3, <2>4, <2>5, MessagesAssumption DEF Grows
<1>5. Placed(g, k, x, e, value)
  BY <1>1, <1>3, <1>4, LastPlaced
<1>6. /\ Len(g) <= Len(k) /\ But(g[x], e) \subseteq Children(k[x])
      /\ \A z \in DOMAIN g : z # x => k[z] = g[z]
      /\ IF e.index /\ ~Has(g[x], e)
         THEN arrayIndex(e) + 1 <= Len(k[x].arrayValue) /\ k[x].arrayValue[arrayIndex(e) + 1] = value
         ELSE Has(k[x], e) /\ Get(k[x], e) = value
  BY <1>5 DEF Placed
\* The variable that holds the element has been there, and y is the element.
<1>7. g = h => y = IF Has(g[x], e) THEN Get(g[x], e) ELSE Null
  <2> SUFFICES ASSUME g = h PROVE y = IF Has(g[x], e) THEN Get(g[x], e) ELSE Null
    OBVIOUS
  <2>1. Ending(h, R, m, elements, p[Len(elements) - 1])
    BY <1>3, MatchLast DEF n
  <2> QED  BY <2>1 DEF Ending, y, x, e, n
<1>8. y = Null <=> ~Has(g[x], e)
  <2>1. CASE g = h
    <3>1. Has(g[x], e) => Get(g[x], e) \in Nat
      BY <1>1, <1>4, HasGet
    <3> QED  BY <1>4, <1>7, <2>1, <3>1
  <2>2. CASE g # h
    BY <1>1, <1>3, <2>2, CreatedEmpty
  <2> QED  BY <2>1, <2>2
<1>9. Loses(h, k, y)
  <2> SUFFICES ASSUME NEW z \in DOMAIN h PROVE Children(h[z]) \subseteq Children(k[z]) \cup {y}
    BY DEF Loses
  <2>1. Children(h[z]) \subseteq Children(g[z])
    BY <1>3 DEF Extends, Kept
  <2>2. CASE z # x
    BY <1>4, <1>6, <2>1, <2>2
  <2>3. CASE z = x
    <3>1. g = h
      BY <1>3, <1>4, <2>3
    <3> QED  BY <1>6, <1>7, <2>3, <3>1 DEF But
  <2> QED  BY <2>2, <2>3
<1>10. Leads(p, k, elements, n - 1)
  <2> SUFFICES ASSUME NEW i \in 1 .. n - 1
               PROVE  /\ p[i - 1] \in DOMAIN k /\ Has(k[p[i - 1]], elements[i])
                      /\ p[i] = Get(k[p[i - 1]], elements[i])
    BY DEF Leads
  <2>1. p[i - 1] \in DOMAIN g /\ Has(g[p[i - 1]], elements[i]) /\ p[i] = Get(g[p[i - 1]], elements[i])
    BY <1>3 DEF Leads
  <2>2. p[i - 1] # p[n - 1]
    <3>1. i - 1 \in 0 .. (n - 1) - 1 /\ n - 1 \in 0 .. Len(elements)
      BY <1>1 DEF n
    <3> QED  BY <1>3, <1>4, <3>1, NoCircle
  <2>3. DOMAIN g \subseteq DOMAIN k
    BY <1>4, <1>6, AddedTwice
  <2> QED  BY <1>6, <2>1, <2>2, <2>3 DEF x
<1>11. Ending(k, R \cup Added(h, k), m, elements, x)
  <2> DEFINE Q == R \cup Added(h, k)
  <2> HIDE DEF Q
  <2>1. Sound(k, Q, sh) /\ m \in Q /\ Leads(p, k, elements, Len(elements) - 1)
    BY <1>4, <1>10 DEF Q, n
  <2>2. Ending(k, Q, m, elements, p[Len(elements) - 1])
    BY <1>3, <2>1, MatchLast
  <2> QED  BY <2>2 DEF Q, x, n
<1>12. CASE e.index /\ y = Null
  BY <1>9, <1>12 DEF Finds, e, k, y
<1>13. CASE ~(e.index /\ y = Null)
  <2>1. Has(k[x], e) /\ Get(k[x], e) = value
    BY <1>6, <1>8, <1>13
  <2>2. match(k, m, elements) = value
    BY <1>11, <2>1 DEF Ending, e
  <2> QED  BY <1>9, <1>13, <2>2 DEF Finds, e, k, y
<1> QED  BY <1>12, <1>13

LEMMA AssignedWellFounded ==
  ASSUME NEW R, NEW sh, NEW h, NEW m \in R, NEW elements \in Seq(Elements), elements # <<>>,
         NEW value \in R, Sound(h, R, sh), value \in sh \/ Free(h, value), WellFounded(h),
         NEW V, Region(h, V), value \in V, V \cap Way(h, m, elements) = {}
  PROVE  WellFounded(assigned(h, m, elements, value))
<1> DEFINE n == Len(elements)
           e == Last(elements)
           k == assigned(h, m, elements, value)
<1>1. n \in Nat /\ n - 1 \in 0 .. n /\ n - 1 \in 0 .. n - 1 /\ e \in Elements
  <2>1. n \in Nat /\ n - 1 \in 0 .. n /\ e \in Elements
    BY Ends
  <2> HIDE DEF n
  <2> QED  BY <2>1
<1>2. PICK g, p : Stands(h, R, sh, m, elements, value, g, p)
  BY AssignedStands
<1> DEFINE x == p[n - 1]
<1>3. /\ p[0] = m /\ x \in R \cup Added(h, g) /\ Grows(h, g, R, sh)
      /\ k = last(g, x, e, value)
      /\ Extends(h, g) /\ WellFounded(g) /\ Leads(p, g, elements, n - 1)
      /\ \A z \in DOMAIN h : z \notin Way(h, m, elements) => g[z] = h[z]
      /\ g = h \/ x \in Added(h, g)
  BY <1>2 DEF Stands, Standing
<1>a. k \in Seq(Variables)
  BY AssignedGrows
<1> HIDE DEF n, e, k, x
<1>4. /\ h \in Seq(Variables) /\ g \in Seq(Variables) /\ k \in Seq(Variables)
      /\ x \in DOMAIN g /\ value \in Nat /\ Len(h) <= Len(g)
      /\ \A z \in DOMAIN h : z \in DOMAIN g /\ z \notin Added(h, g)
  <2>1. h \in Seq(Variables) /\ g \in Seq(Variables) /\ Len(h) <= Len(g) /\ Len(g) <= Len(g)
    BY <1>3, LenProperties DEF Extends
  <2>2. x \in DOMAIN g
    BY <1>3 DEF Grows, Sound, Region
  <2>3. \A z \in DOMAIN h : z \in DOMAIN g /\ z \notin Added(h, g)
    BY <2>1, AddedTwice
  <2>4. value \in Nat
    BY <2>1, HeapType DEF Sound, Region
  <2> QED  BY <1>a, <2>1, <2>2, <2>3, <2>4
<1>5. Placed(g, k, x, e, value)
  BY <1>1, <1>3, <1>4, LastPlaced
<1>6. /\ Len(g) <= Len(k)
      /\ \A z \in DOMAIN g : z # x => k[z] = g[z]
      /\ \A z \in Added(g, k) : k[z] \in Created
      /\ Children(k[x]) \subseteq Children(g[x]) \cup Added(g, k) \cup {value}
  BY <1>5 DEF Placed
<1>7. /\ DOMAIN g \subseteq DOMAIN k /\ Added(g, k) \subseteq DOMAIN k
      /\ \A z \in DOMAIN g : z \notin Added(g, k)
      /\ \A z \in DOMAIN k : z \in DOMAIN g \/ z \in Added(g, k)
  <2>1. Len(k) <= Len(k)
    BY <1>4, LenProperties
  <2> QED  BY <1>4, <1>6, <2>1, AddedTwice
<1>8. x \notin V
  <2>1. CASE g = h
    <3>1. Arrives(p, h, R, m, elements, n - 1)
      BY <1>1, <1>3, <2>1, LeadsMatch DEF n
    <3>2. x \in Way(h, m, elements)
      BY <1>1, <3>1 DEF Arrives, Way, x, n
    <3> QED  BY <3>2
  <2>2. CASE g # h
    BY <1>3, <1>4, <2>2 DEF Region
  <2> QED  BY <2>1, <2>2
<1> DEFINE U == V \cup Added(g, k)
<1>9. \A z \in Added(g, k) : Children(k[z]) = {}
  BY <1>1, <1>6, CreatedEmpty
<1>10. \A z \in V : k[z] = h[z] /\ z \in DOMAIN k
  <2>1. \A z \in V : z \in DOMAIN h /\ z \notin Way(h, m, elements) /\ z # x
    BY <1>8 DEF Region
  <2> QED  BY <1>3, <1>4, <1>6, <1>7, <2>1
<1>11. Region(k, U) /\ x \notin U
  <2>1. \A z \in V : Children(k[z]) \subseteq V
    BY <1>10 DEF Region
  <2> QED  BY <1>4, <1>7, <1>8, <1>9, <1>10, <2>1 DEF Region
<1>12. /\ \A z \in DOMAIN k \ DOMAIN g : Children(k[z]) = {}
       /\ \A z \in DOMAIN k \cap DOMAIN g : z # x => Children(k[z]) \subseteq Children(g[z])
       /\ Children(k[x]) \subseteq Children(g[x]) \cup U
  BY <1>6, <1>7, <1>9
<1> HIDE DEF U
<1>13. WellFounded(k)
  BY <1>3, <1>11, <1>12, StaysWellFounded
<1> QED  BY <1>13 DEF k

-----------------------------------------------------------------------------
(* No call makes a variable a part of itself *)

LEMMA CopyWellFounded ==
  ASSUME NEW h \in Seq(Variables), Linked(h), WellFounded(h), NEW n \in Nat, NEW g,
         Copying(h, n, g), Len(g) <= Len(h) + n
  PROVE  WellFounded(g)
<1> DEFINE l == Len(h)
           p == Len(g)
<1>1. /\ l \in Nat /\ p \in Nat /\ DOMAIN h = 1 .. l /\ DOMAIN g = 1 .. p
      /\ \A y \in 1 .. l : g[y] = h[y] /\ Children(h[y]) \subseteq 1 .. l
  BY HeapType DEF Copying, Linked
<1>2. \A y \in l + 1 .. p : Children(g[y]) \subseteq y + 1 .. p
  <2>1. p <= l + n
    OBVIOUS
  <2>2. \A y \in l + 1 .. p : y <= l + n => Children(g[y]) \subseteq y + 1 .. p
    BY DEF Copying
  <2> HIDE DEF l, p
  <2> QED  BY <1>1, <2>1, <2>2
<1> HIDE DEF l, p
<1> SUFFICES ASSUME NEW S \in SUBSET DOMAIN g, S # {},
                    \A x \in S : Children(g[x]) \cap S # {}
             PROVE  FALSE
  BY DEF WellFounded
<1>b. \A x \in S : \E z \in S : z \in Children(g[x])
  OBVIOUS
<1>3. CASE S \cap DOMAIN h # {}
  <2>1. PICK x \in S \cap DOMAIN h : Children(h[x]) \cap (S \cap DOMAIN h) = {}
    BY <1>3 DEF WellFounded
  <2>2. Children(g[x]) = Children(h[x]) /\ Children(h[x]) \subseteq DOMAIN h
    BY <1>1, <2>1
  <2> QED  BY <2>1, <2>2
<1>4. CASE S \cap DOMAIN h = {}
  <2> DEFINE T == {i \in Nat : \A y \in S : y <= p - i}
  <2>1. \A y \in S : y \in l + 1 .. p /\ y \in Nat /\ y >= 1 /\ y <= p
    <3> SUFFICES ASSUME NEW y \in S PROVE y \in l + 1 .. p /\ y \in Nat /\ y >= 1 /\ y <= p
      OBVIOUS
    <3>1. y \in 1 .. p /\ y \notin 1 .. l
      BY <1>1, <1>4
    <3> QED  BY <1>1, <3>1
  <2>2. 0 \in T
    BY <1>1, <2>1
  <2>3. ASSUME NEW i \in Nat, i \in T PROVE i + 1 \in T
    <3> SUFFICES ASSUME NEW y \in S PROVE y <= p - (i + 1)
      OBVIOUS
    <3>1. PICK z \in S : z \in Children(g[y])
      BY <1>b
    <3>2. z \in y + 1 .. p
      BY <1>2, <2>1, <3>1
    <3>3. z <= p - i
      BY <2>3, <3>1
    <3> QED  BY <1>1, <2>1, <3>2, <3>3
  <2> HIDE DEF T
  <2>4. \A i \in Nat : i \in T
    BY <2>2, <2>3, NaturalInduction
  <2>5. \A y \in S : y <= p - p
    BY <1>1, <2>4 DEF T
  <2> QED  BY <1>1, <2>1, <2>5
<1> QED  BY <1>3, <1>4

LEMMA NewValueWellFounded ==
  ASSUME NEW h \in Seq(Variables), WellFounded(h)
  PROVE  LET k == Append(h, Integer(1))
         IN /\ WellFounded(k) /\ DOMAIN k = DOMAIN h \cup {Len(h) + 1} /\ Len(h) + 1 \notin DOMAIN h
            /\ \A z \in DOMAIN h : k[z] = h[z]
            /\ Region(k, {Len(h) + 1})
<1> DEFINE v == Integer(1)
           l == Len(h)
           k == Append(h, v)
<1>1. v \in Variables /\ Children(v) = {}
  <2>1. v \in Created
    BY DEF Created
  <2> HIDE DEF v
  <2> QED  BY <2>1, CreatedDistinct
<1> HIDE DEF v
<1>2. l \in Nat /\ DOMAIN h = 1 .. l
  BY HeapType
<1>3. k \in Seq(Variables) /\ Len(k) = l + 1 /\ k[l + 1] = v /\ \A z \in 1 .. l : k[z] = h[z]
  BY <1>1, AppendProperties
<1> HIDE DEF k
<1>4. DOMAIN k = DOMAIN h \cup {l + 1} /\ l + 1 \notin DOMAIN h
  <2>1. DOMAIN k = 1 .. l + 1
    BY <1>3, LenProperties
  <2> QED  BY <1>2, <2>1
<1>5. Region(k, {l + 1}) /\ Region(k, {})
  BY <1>1, <1>3, <1>4 DEF Region
<1>6. WellFounded(k)
  <2> DEFINE V == {}
  <2>1. /\ \A y \in DOMAIN k \ DOMAIN h : Children(k[y]) = {}
        /\ \A y \in DOMAIN k \cap DOMAIN h : y # l + 1 => Children(k[y]) \subseteq Children(h[y])
        /\ l + 1 \in DOMAIN k \cap DOMAIN h => Children(k[l + 1]) \subseteq Children(h[l + 1]) \cup V
        /\ Region(k, V) /\ l + 1 \notin V
    BY <1>1, <1>2, <1>3, <1>4, <1>5
  <2> HIDE DEF V
  <2> QED  BY <2>1, StaysWellFounded
<1> QED  BY <1>2, <1>3, <1>4, <1>5, <1>6 DEF k, l, v

\* What set and erase see of a message is what lies in a region.
LEMMA MatchSame ==
  ASSUME NEW R, NEW sh, NEW h, NEW m \in R, NEW elements \in Seq(Elements), Sound(h, R, sh),
         NEW Q, NEW g, Sound(g, Q, sh), R \subseteq Q, \A z \in R : g[z] = h[z]
  PROVE  match(g, m, elements) = match(h, m, elements) /\ Way(g, m, elements) \subseteq R
<1> DEFINE n == Len(elements)
<1>1. Region(g, R)
  <2>1. \A z \in R : Children(h[z]) \subseteq R
    BY DEF Sound, Region
  <2> QED  BY <2>1 DEF Sound, Region
<1>2. Sound(g, R, sh)
  BY <1>1 DEF Sound
<1>3. PICK f : Matches(f, h, R, m, elements)
  BY MatchesExist
<1>4. PICK p : Matches(p, g, R, m, elements)
  BY <1>2, MatchesExist
<1>5. /\ f[0] = m /\ p[0] = m /\ match(h, m, elements) = f[n] /\ match(g, m, elements) = p[n]
      /\ f \in [0 .. n -> R \cup {Null}]
      /\ \A i \in 1 .. n :
           f[i] = IF f[i - 1] # Null /\ Has(h[f[i - 1]], elements[i]) THEN Get(h[f[i - 1]], elements[i])
                  ELSE Null
      /\ \A i \in 1 .. n :
           p[i] = IF p[i - 1] # Null /\ Has(g[p[i - 1]], elements[i]) THEN Get(g[p[i - 1]], elements[i])
                  ELSE Null
  BY <1>3, <1>4 DEF Matches
<1>6. n \in Nat /\ n \in 0 .. n
  <2>1. n \in Nat
    BY LenProperties
  <2> HIDE DEF n
  <2> QED  BY <2>1
<1>7. f[n] = p[n]
  <2> HIDE DEF n
  <2>1. ASSUME NEW i \in 1 .. n, f[i - 1] = p[i - 1] PROVE f[i] = p[i]
    <3>1. i - 1 \in 0 .. n
      BY <1>6
    <3>2. f[i - 1] = Null \/ g[f[i - 1]] = h[f[i - 1]]
      BY <1>5, <3>1
    <3> QED  BY <1>5, <2>1, <3>2
  <2>2. SameSteps(f, p, n)
    BY <1>5, <2>1 DEF SameSteps
  <2> QED  BY <1>6, <2>2, IterationsAgree
<1>8. Way(g, m, elements) \subseteq R
  <2> SUFFICES ASSUME NEW i \in 0 .. n - 1
               PROVE  match(g, m, SubSeq(elements, 1, i)) \in R \cup {Null}
    BY DEF Way
  <2>1. i \in 0 .. n
    BY <1>6
  <2>2. SubSeq(elements, 1, i) \in Seq(Elements)
    BY <2>1, Prefix
  <2> QED  BY <1>2, <2>2, MatchStays
<1> QED  BY <1>5, <1>7, <1>8

-----------------------------------------------------------------------------
(* What the steps do *)

LEMMA OthersStay ==
  ASSUME NEW h \in Seq(Variables), Linked(h), NEW k \in Seq(Variables), Linked(k),
         NEW m \in DOMAIN h, m \in DOMAIN k, NEW y \in DOMAIN h \cup {Null}, Loses(h, k, y)
  PROVE  Reach(h, m) \ (IF y = Null THEN {} ELSE Reach(h, y)) \subseteq Reach(k, m)
<1> DEFINE below == IF y = Null THEN {} ELSE Reach(h, y)
           T == (Reach(k, m) \cap DOMAIN h) \cup below
<1>1. m \in Reach(k, m) /\ Region(k, Reach(k, m))
  BY ReachRegion
<1>2. /\ below \subseteq DOMAIN h /\ \A z \in below : Children(h[z]) \subseteq below
      /\ y # Null => y \in below
  <2>1. CASE y = Null
    BY <2>1
  <2>2. CASE y # Null
    <3>1. y \in Reach(h, y) /\ Region(h, Reach(h, y))
      BY <2>2, ReachRegion
    <3> QED  BY <2>2, <3>1 DEF Region
  <2> QED  BY <2>1, <2>2
<1> HIDE DEF below
<1>3. ASSUME NEW z \in Reach(k, m) \cap DOMAIN h PROVE Children(h[z]) \subseteq T
  <2>1. Children(h[z]) \subseteq Children(k[z]) \cup {y} /\ Children(k[z]) \subseteq Reach(k, m)
    BY <1>1 DEF Loses, Region
  <2>2. Children(h[z]) \subseteq DOMAIN h
    BY DEF Linked
  <2>3. Null \notin DOMAIN h
    BY MessagesAssumption, HeapType
  <2> QED  BY <1>2, <2>1, <2>2, <2>3
<1>4. Region(h, T) /\ m \in T
  <2>1. \A z \in T : z \in DOMAIN h /\ Children(h[z]) \subseteq T
    BY <1>2, <1>3
  <2> QED  BY <1>1, <2>1 DEF Region
<1> HIDE DEF T
<1>5. Reach(h, m) \subseteq T
  BY <1>4, ReachStays
<1> QED  BY <1>5 DEF T, below

\* The inductive invariant once more, with what the paths of messages rest on.
Calls == [message : Nat, path : Paths, value : Nat \cup {Null}]
PathInv == IInv /\ WellFounded(heap) /\ calls \in Seq(Calls)

\* What a call of set or erase does for the elements as it reads them, when the property
\* is not empty.
Does(m, elements, value) ==
  elements # <<>> =>
    Found(m, elements, value) /\ Others(m, elements, value) /\ Gone(m, elements, value)

\* The message or the copy that a client has, and the region that it lies in.
LEMMA OneRegion ==
  ASSUME IInv, NEW m \in {message, copy}, m # Null
  PROVE  \E S : Sound(heap, S, shared) /\ m \in S
<1>1. PICK R, Q : Apart(heap, R, Q, shared) /\ message \in R /\ copy \in Q \cup {Null}
  BY DEF IInv
<1>2. Apart(heap, Q, R, shared)
  BY <1>1, ApartSymmetric
<1> QED  BY <1>1, <1>2 DEF Apart

\* A path is what the constructor finds in its string.
LEMMA PathRead ==
  ASSUME NEW path \in Paths
  PROVE  /\ Parse(Render(path)) = path /\ path \in Seq(Parts)
         /\ Matched(path) \in Seq(Elements) /\ Stored(path) \in Seq(Elements)
BY PathsReadable, PathType DEF Readable

LEMMA EraseDoes ==
  ASSUME PathInv, NEW path \in Paths, NEW m \in {message, copy}, Erase(m, path)
  PROVE  Does(m, Stored(path), Null) /\ WellFounded(heap')
<1> DEFINE elements == Stored(path)
           g == erased(heap, m, elements)
<1>1. m # Null /\ heap' = g /\ WellFounded(heap) /\ IInv /\ elements \in Seq(Elements)
  BY PathRead DEF Erase, PathInv
<1> HIDE DEF elements
<1>2. PICK S : Sound(heap, S, shared) /\ m \in S
  BY <1>1, OneRegion
<1>3. Grows(heap, g, S, shared) /\ Len(g) = Len(heap) /\ g \in Seq(Variables)
  BY <1>1, <1>2, ErasedGrows
<1>4. CASE elements = <<>>
  <2>1. g = heap
    BY <1>4 DEF erased
  <2> QED  BY <1>1, <1>4, <2>1 DEF Does, elements
<1>5. CASE elements # <<>>
  <2>1. /\ Loses(heap, g, match(heap, m, elements))
        /\ \A z \in DOMAIN heap : Children(g[z]) \subseteq Children(heap[z])
        /\ match(g, m, elements) = IF Last(elements).index THEN Behind(heap, m, elements) ELSE Null
    BY <1>1, <1>2, <1>5, ErasedRest
  <2> HIDE DEF g
  <2>2. /\ heap \in Seq(Variables) /\ Linked(heap) /\ Linked(g) /\ DOMAIN g = DOMAIN heap
        /\ m \in DOMAIN heap /\ Null \notin Nat /\ DOMAIN heap \subseteq Nat
        /\ S \subseteq DOMAIN heap
    BY <1>2, <1>3, HeapType, MessagesAssumption DEF Grows, Sound, Region
  <2>3. WellFounded(g)
    <3> DEFINE V == {}
    <3>1. /\ \A y \in DOMAIN g \ DOMAIN heap : Children(g[y]) = {}
          /\ \A y \in DOMAIN g \cap DOMAIN heap : y # Null => Children(g[y]) \subseteq Children(heap[y])
          /\ Null \in DOMAIN g \cap DOMAIN heap => Children(g[Null]) \subseteq Children(heap[Null]) \cup V
          /\ Region(g, V) /\ Null \notin V
      BY <2>1, <2>2 DEF Region
    <3> HIDE DEF V
    <3> QED  BY <1>1, <3>1, StaysWellFounded
  <2>4. match(heap, m, elements) \in DOMAIN heap \cup {Null}
    <3>1. match(heap, m, elements) \in S \cup {Null}
      BY <1>1, <1>2, MatchStays
    <3> QED  BY <2>2, <3>1
  <2>5. Others(m, elements, Null)
    BY <1>1, <1>3, <2>1, <2>2, <2>4, OthersStay DEF Others
  <2>6. Gone(m, elements, Null)
    BY <1>1, <2>1 DEF Gone
  <2>7. Found(m, elements, Null)
    BY DEF Found
  <2> QED  BY <1>1, <2>3, <2>5, <2>6, <2>7 DEF Does, elements
<1> QED  BY <1>4, <1>5 DEF elements

LEMMA SetFoundDoes ==
  ASSUME PathInv, NEW from \in Paths, NEW path \in Paths, SetFound(from, path)
  PROVE  LET found == match(heap, message, Matched(Parse(Render(from))))
         IN Does(message, Stored(path), found) /\ found \in Nat /\ WellFounded(heap')
<1> DEFINE elements == Stored(path)
           found == match(heap, message, Matched(Parse(Render(from))))
           sh == shared \cup {found}
           g == assigned(heap, message, elements, found)
           V == Reach(heap, found)
<1>1. /\ found # Null /\ heap' = g /\ WellFounded(heap) /\ IInv /\ elements \in Seq(Elements)
      /\ V \cap Way(heap, message, elements) = {} /\ Matched(Parse(Render(from))) \in Seq(Elements)
      /\ message # Null
  <2>1. Parse(Render(path)) = path /\ elements \in Seq(Elements) /\ Matched(Parse(Render(from))) \in Seq(Elements)
    BY PathRead, PathType
  <2>2. PICK R, Q : Apart(heap, R, Q, shared) /\ message \in R
    BY DEF PathInv, IInv
  <2>3. message # Null
    BY <2>2, MessagesAssumption, HeapType DEF Apart, Sound, Region
  <2> QED  BY <2>1, <2>3 DEF SetFound, PathInv
<1> HIDE DEF elements
<1> HIDE DEF elements
<1>2. PICK S : Sound(heap, S, shared) /\ message \in S
  BY <1>1, OneRegion
<1>3. found \in S
  <2>1. found \in S \cup {Null}
    BY <1>1, <1>2, MatchStays
  <2> QED  BY <1>1, <2>1
<1> HIDE DEF found, V
<1>4. Sound(heap, S, sh) /\ found \in sh
  BY <1>2 DEF Sound, Unique, Distinct
<1> HIDE DEF sh
<1>5. /\ heap \in Seq(Variables) /\ Linked(heap) /\ message \in DOMAIN heap /\ found \in DOMAIN heap
      /\ Null \notin Nat /\ DOMAIN heap \subseteq Nat /\ S \subseteq DOMAIN heap
  BY <1>2, <1>3, HeapType, MessagesAssumption DEF Sound, Region
<1>6. Region(heap, V) /\ found \in V
  BY <1>5, ReachRegion DEF V
<1>7. CASE elements = <<>>
  <2>1. g = heap
    <3>1. Len(elements) = 0
      BY <1>7
    <3> QED  BY <3>1 DEF assigned
  <2> QED  BY <1>1, <1>5, <1>7, <2>1 DEF Does, found, elements
<1>8. CASE elements # <<>>
  <2>1. Grows(heap, g, S, sh) /\ g \in Seq(Variables)
    BY <1>1, <1>2, <1>3, <1>4, AssignedGrows
  <2>2. Loses(heap, g, match(heap, message, elements)) /\ Finds(heap, g, message, elements, found)
    BY <1>1, <1>2, <1>3, <1>4, <1>8, AssignedFinds
  <2>3. WellFounded(g)
    BY <1>1, <1>2, <1>3, <1>4, <1>6, <1>8, AssignedWellFounded
  <2> HIDE DEF g
  <2>4. Linked(g) /\ message \in DOMAIN g
    BY <1>2, <2>1 DEF Grows, Sound, Region
  <2>5. match(heap, message, elements) \in DOMAIN heap \cup {Null}
    <3>1. match(heap, message, elements) \in S \cup {Null}
      BY <1>1, <1>2, MatchStays
    <3> QED  BY <1>5, <3>1
  <2>6. Others(message, elements, found)
    BY <1>1, <1>5, <2>1, <2>2, <2>4, <2>5, OthersStay DEF Others
  <2>7. Found(message, elements, found)
    BY <1>1, <2>2 DEF Found, Finds
  <2>8. Gone(message, elements, found)
    BY <1>1 DEF Gone
  <2> QED  BY <1>1, <1>5, <2>3, <2>6, <2>7, <2>8 DEF Does, found, elements
<1> QED  BY <1>7, <1>8 DEF elements

LEMMA SetNewDoes ==
  ASSUME PathInv, NEW path \in Paths, NEW m \in {message, copy}, SetNew(m, path)
  PROVE  Does(m, Stored(path), Len(heap) + 1) /\ WellFounded(heap')
<1> DEFINE elements == Stored(path)
           y == Len(heap) + 1
           h == Append(heap, Integer(1))
           g == assigned(h, m, elements, y)
           V == {y}
<1>1. m # Null /\ heap' = g /\ WellFounded(heap) /\ IInv /\ elements \in Seq(Elements)
  BY PathRead DEF SetNew, PathInv
<1> HIDE DEF elements
<1>2. PICK S : Sound(heap, S, shared) /\ m \in S
  BY <1>1, OneRegion
<1>3. /\ heap \in Seq(Variables) /\ Linked(heap) /\ m \in DOMAIN heap
      /\ Null \notin Nat /\ DOMAIN heap \subseteq Nat /\ S \subseteq DOMAIN heap /\ y \in Nat
  BY <1>2, HeapType, MessagesAssumption DEF Sound, Region
<1>4. Grows(heap, h, S, shared) /\ h \in Seq(Variables) /\ y \in Added(heap, h) /\ Free(h, y)
  BY <1>2, NewValue
<1>5. /\ WellFounded(h) /\ DOMAIN h = DOMAIN heap \cup {y} /\ y \notin DOMAIN heap
      /\ \A z \in DOMAIN heap : h[z] = heap[z]
      /\ Region(h, V) /\ y \in V
  BY <1>1, <1>3, NewValueWellFounded
<1> DEFINE U == S \cup Added(heap, h)
<1> HIDE DEF h, y, V
<1>6. Sound(h, U, shared) /\ m \in U /\ y \in U /\ S \subseteq U /\ \A z \in S : h[z] = heap[z]
  BY <1>2, <1>3, <1>4, <1>5 DEF Grows
<1> HIDE DEF U
<1>7. match(h, m, elements) = match(heap, m, elements) /\ Way(h, m, elements) \subseteq S
  BY <1>1, <1>2, <1>6, MatchSame
<1>8. V \cap Way(h, m, elements) = {}
  BY <1>3, <1>5, <1>7 DEF V
<1>9. CASE elements = <<>>
  <2>1. g = h
    <3>1. Len(elements) = 0
      BY <1>9
    <3> QED  BY <3>1 DEF assigned
  <2> QED  BY <1>1, <1>5, <1>9, <2>1 DEF Does, elements
<1>10. CASE elements # <<>>
  <2>1. Grows(h, g, U, shared) /\ g \in Seq(Variables)
    BY <1>1, <1>4, <1>6, AssignedGrows
  <2>2. Loses(h, g, match(h, m, elements)) /\ Finds(h, g, m, elements, y)
    BY <1>1, <1>4, <1>5, <1>6, <1>10, AssignedFinds
  <2>3. WellFounded(g)
    BY <1>1, <1>4, <1>5, <1>6, <1>8, <1>10, AssignedWellFounded
  <2> HIDE DEF g
  <2>4. Linked(g) /\ m \in DOMAIN g
    BY <1>6, <2>1 DEF Grows, Sound, Region
  <2>5. match(heap, m, elements) \in DOMAIN heap \cup {Null}
    <3>1. match(heap, m, elements) \in S \cup {Null}
      BY <1>1, <1>2, MatchStays
    <3> QED  BY <1>3, <3>1
  <2>6. Loses(heap, g, match(heap, m, elements))
    BY <1>5, <1>7, <2>2 DEF Loses
  <2>7. Others(m, elements, y)
    BY <1>1, <1>3, <2>1, <2>4, <2>5, <2>6, OthersStay DEF Others
  <2>8. Found(m, elements, y)
    BY <1>1, <1>7, <2>2 DEF Found, Finds
  <2>9. Gone(m, elements, y)
    BY <1>3 DEF Gone
  <2> QED  BY <1>1, <2>3, <2>7, <2>8, <2>9 DEF Does, y, elements
<1> QED  BY <1>9, <1>10 DEF elements

LEMMA InitPathInv == Init => PathInv
<1> SUFFICES ASSUME Init PROVE PathInv
  OBVIOUS
<1>1. heap \in Heaps /\ calls = <<>> /\ IInv
  BY InitIInv DEF Init
<1>2. heap \in Seq(Variables) /\ Linked(heap)
  BY <1>1, InitialHeap
<1>3. \A x \in DOMAIN heap : \A y \in Children(heap[x]) : x \notin Reach(heap, y)
  BY <1>1, HeapsAssumption
<1>4. WellFounded(heap)
  BY <1>2, <1>3, NoneInItself
<1> QED  BY <1>1, <1>4, EmptySeq DEF PathInv

Kind == Calling(Found) /\ Calling(Others) /\ Calling(Gone)

LEMMA CallDoes ==
  ASSUME PathInv, NEW m \in Nat, NEW path \in Paths, NEW value \in Nat \cup {Null},
         Call(m, path, value), Does(m, Stored(path), value)
  PROVE  calls' \in Seq(Calls) /\ Kind
<1> DEFINE c == [message |-> m, path |-> path, value |-> value]
<1>1. c \in Calls /\ calls \in Seq(Calls) /\ calls' = Append(calls, c)
  BY DEF Calls, Call, PathInv
<1>2. c.message = m /\ c.path = path /\ c.value = value
  OBVIOUS
<1> HIDE DEF c
<1>3. calls' \in Seq(Calls) /\ Last(calls') = c
  <2> DEFINE k == Append(calls, c)
  <2>1. k \in Seq(Calls) /\ Len(k) = Len(calls) + 1 /\ k[Len(calls) + 1] = c
    BY <1>1, AppendProperties
  <2> HIDE DEF k
  <2>2. Last(k) = c
    BY <2>1 DEF Last
  <2> QED  BY <1>1, <2>1, <2>2 DEF k
<1>4. path # <<>> /\ Fits(path) =>
        LET p == Matched(path) IN Found(m, p, value) /\ Others(m, p, value) /\ Gone(m, p, value)
  <2> SUFFICES ASSUME path # <<>>, Fits(path)
               PROVE  LET p == Matched(path)
                      IN Found(m, p, value) /\ Others(m, p, value) /\ Gone(m, p, value)
    OBVIOUS
  <2>1. path \in Seq(Parts)
    BY PathType
  <2>2. Matched(path) = Stored(path) /\ Len(Stored(path)) = Len(path)
    BY <2>1, ReadIndices
  <2>3. Stored(path) # <<>>
    <3>1. Len(path) # 0
      BY <2>1, EmptySeq
    <3> QED  BY <2>2, <3>1
  <2> QED  BY <2>2, <2>3 DEF Does
<1>5. Calling(Found)
  BY <1>2, <1>3, <1>4 DEF Calling
<1>6. Calling(Others)
  BY <1>2, <1>3, <1>4 DEF Calling
<1>7. Calling(Gone)
  BY <1>2, <1>3, <1>4 DEF Calling
<1> QED  BY <1>3, <1>5, <1>6, <1>7 DEF Kind

LEMMA StepDoes == PathInv /\ [Next]_vars => PathInv' /\ Kind
<1> SUFFICES ASSUME PathInv, [Next]_vars PROVE PathInv' /\ Kind
  OBVIOUS
<1>1. IInv' /\ IInv
  BY StepIInv DEF PathInv
<1>2. /\ heap \in Seq(Variables) /\ Linked(heap) /\ message \in DOMAIN heap /\ message \in Nat
      /\ Len(heap) + 1 \in Nat /\ \A m \in {message, copy} : m # Null => m \in Nat
  <2>1. PICK R, Q : Apart(heap, R, Q, shared) /\ message \in R
    BY <1>1 DEF IInv
  <2>2. heap \in Seq(Variables) /\ Linked(heap) /\ message \in DOMAIN heap
    BY <2>1 DEF Apart, Sound, Region
  <2> QED  BY <1>1, <2>2, HeapType DEF IInv
<1>3. ASSUME NEW from \in Paths, NEW path \in Paths, SetFound(from, path)
      PROVE  PathInv' /\ Kind
  <2> DEFINE found == match(heap, message, Matched(Parse(Render(from))))
  <2>1. Does(message, Stored(path), found) /\ found \in Nat /\ WellFounded(heap')
    BY <1>3, SetFoundDoes
  <2>2. Call(message, path, found)
    BY <1>3 DEF SetFound
  <2> HIDE DEF found
  <2>3. calls' \in Seq(Calls) /\ Kind
    BY <1>2, <2>1, <2>2, CallDoes
  <2> QED  BY <1>1, <2>1, <2>3 DEF PathInv
<1>4. ASSUME NEW path \in Paths, NEW m \in {message, copy}, SetNew(m, path)
      PROVE  PathInv' /\ Kind
  <2>1. Does(m, Stored(path), Len(heap) + 1) /\ WellFounded(heap')
    BY <1>4, SetNewDoes
  <2>2. Call(m, path, Len(heap) + 1) /\ m \in Nat
    BY <1>2, <1>4 DEF SetNew
  <2>3. calls' \in Seq(Calls) /\ Kind
    BY <1>2, <2>1, <2>2, CallDoes
  <2> QED  BY <1>1, <2>1, <2>3 DEF PathInv
<1>5. ASSUME NEW path \in Paths, NEW m \in {message, copy}, Erase(m, path)
      PROVE  PathInv' /\ Kind
  <2>1. Does(m, Stored(path), Null) /\ WellFounded(heap')
    BY <1>5, EraseDoes
  <2>2. Call(m, path, Null) /\ m \in Nat
    BY <1>2, <1>5 DEF Erase
  <2>3. calls' \in Seq(Calls) /\ Kind
    BY <2>1, <2>2, CallDoes
  <2> QED  BY <1>1, <2>1, <2>3 DEF PathInv
<1>6. CASE Copy
  <2> DEFINE n == MaxCopied
             g == copied(heap, message)
  <2>1. heap' = g /\ Len(g) <= Len(heap) + n /\ calls' = calls
    BY <1>6 DEF Copy
  <2>2. n \in Nat /\ Copying(heap, n, g)
    BY <1>2, MessagesAssumption, CopiedCopying
  <2> HIDE DEF g, n
  <2>3. WellFounded(g)
    BY <1>2, <2>1, <2>2, CopyWellFounded DEF PathInv
  <2> QED  BY <1>1, <2>1, <2>3 DEF PathInv, Kind, Calling
<1>7. CASE UNCHANGED vars
  BY <1>1, <1>7 DEF vars, PathInv, Kind, Calling
<1> QED  BY <1>3, <1>4, <1>5, <1>6, <1>7 DEF Next

-----------------------------------------------------------------------------
(* Theorems *)

\* Nothing that set, erase and the copy constructor do makes a variable a part of itself, as
\* long as clients set none below itself: the copy constructor comes to an end.
THEOREM NoCircles == Spec => []WellFounded(heap)
<1>1. PathInv => WellFounded(heap)
  BY DEF PathInv
<1> QED  BY <1>1, InitPathInv, StepDoes, PTL DEF Spec

\* After set, match finds the value at the same property, whatever the message, if the
\* indices fit into 32 bits and the last one, if there is one, names an element that the
\* array had: nothing that set does on its way to the last element gets lost.
THEOREM SetFinds == Spec => SetThenMatch
<1>1. PathInv /\ [Next]_vars => [Calling(Found)]_vars
  BY StepDoes DEF Kind
<1> QED  BY <1>1, InitPathInv, StepDoes, PTL DEF Spec, SetThenMatch

\* erase removes the element that match finds, and only that one, if the indices fit into
\* 32 bits.
THEOREM EraseErases == Spec => EraseRemoves
<1>1. PathInv /\ [Next]_vars => [Calling(Gone)]_vars
  BY StepDoes DEF Kind
<1> QED  BY <1>1, InitPathInv, StepDoes, PTL DEF Spec, EraseRemoves

\* Whatever set and erase do to a message, all of it that was not below the element that
\* they replace or remove can still be reached, if the indices fit into 32 bits.
THEOREM NothingLost == Spec => LosesNothing
<1>1. PathInv /\ [Next]_vars => [Calling(Others)]_vars
  BY StepDoes DEF Kind
<1> QED  BY <1>1, InitPathInv, StepDoes, PTL DEF Spec, LosesNothing
=============================================================================
