--------------------------- MODULE MessagesProofs ---------------------------
(***************************************************************************)
(* Proofs about Messages, for any message and any paths: what set, erase   *)
(* and the copy constructor make of the pointers between variables.        *)
(***************************************************************************)
EXTENDS Messages, FlattenProofs

-----------------------------------------------------------------------------
(* Variables *)

\* The variables that there can be; of their members, the pointers matter.
Structs  == {s \in UNION {[D -> Nat] : D \in SUBSET Seq(Nat)} : IsFiniteSet(DOMAIN s)}
Plain    == (UNION {ToSet(h) : h \in Heaps}) \cup {Void, OfType("tArray"), OfType("tStruct"), Integer(1)}
Anything == (UNION {Range(v) : v \in Plain}) \cup Seq(Nat) \cup Structs
Members  == DOMAIN Void
Variables ==
  {v \in [Members -> Anything] : v.arrayValue \in Seq(Nat) /\ v.structValue \in Structs}

LEMMA MemberNames == "arrayValue" \in Members /\ "structValue" \in Members
BY DEF Members, Void

\* The variables that are created have no elements.
LEMMA Childless ==
  ASSUME NEW v \in {Void, OfType("tArray"), OfType("tStruct"), Integer(1)}
  PROVE  v \in Variables /\ v.arrayValue = <<>> /\ v.structValue = NoStruct /\ Children(v) = {}
<1>1. DOMAIN v = Members /\ v.arrayValue = <<>> /\ v.structValue = NoStruct /\ v = [f \in DOMAIN v |-> v[f]]
  <2>1. CASE v = Void
    BY <2>1 DEF Members, Void
  <2>2. CASE v \in {OfType("tArray"), OfType("tStruct")}
    BY <2>2 DEF Members, Void, OfType
  <2>3. CASE v = Integer(1)
    BY <2>3 DEF Members, Void, Integer, Number
  <2> QED  BY <2>1, <2>2, <2>3
<1>2. v \in [Members -> Anything]
  <2>1. \A f \in Members : v[f] \in Range(v)
    BY <1>1 DEF Range
  <2>2. v \in Plain
    BY DEF Plain
  <2>3. \A f \in Members : v[f] \in Anything
    BY <2>1, <2>2 DEF Anything
  <2> QED  BY <1>1, <2>3
<1>3. NoStruct \in Structs /\ DOMAIN NoStruct = {} /\ <<>> \in Seq(Nat)
  <2>1. NoStruct \in [{} -> Nat] /\ DOMAIN NoStruct = {}
    BY DEF NoStruct
  <2> QED  BY <2>1, FS_EmptySet, EmptySeq DEF Structs
<1>4. Children(v) = {}
  BY <1>1, <1>3, EmptySeq DEF Children, ToSet, Range
<1> QED  BY <1>1, <1>2, <1>3, <1>4 DEF Variables

LEMMA WithArray ==
  ASSUME NEW v \in Variables, NEW a \in Seq(Nat)
  PROVE  LET w == [v EXCEPT !.arrayValue = a]
         IN w \in Variables /\ w.arrayValue = a /\ w.structValue = v.structValue
<1>1. a \in Anything
  BY DEF Anything
<1>2. v \in [Members -> Anything] /\ v.structValue \in Structs
  BY DEF Variables
<1> DEFINE w == [v EXCEPT !.arrayValue = a]
<1>3. w \in [Members -> Anything] /\ w.arrayValue = a /\ w.structValue = v.structValue
  BY <1>1, <1>2, MemberNames
<1> HIDE DEF w
<1>4. w \in Variables
  BY <1>2, <1>3 DEF Variables
<1> QED  BY <1>3, <1>4 DEF w

LEMMA WithStruct ==
  ASSUME NEW v \in Variables, NEW s \in Structs
  PROVE  LET w == [v EXCEPT !.structValue = s]
         IN w \in Variables /\ w.structValue = s /\ w.arrayValue = v.arrayValue
<1>1. s \in Anything
  BY DEF Anything
<1>2. v \in [Members -> Anything] /\ v.arrayValue \in Seq(Nat)
  BY DEF Variables
<1> DEFINE w == [v EXCEPT !.structValue = s]
<1>3. w \in [Members -> Anything] /\ w.structValue = s /\ w.arrayValue = v.arrayValue
  BY <1>1, <1>2, MemberNames
<1> HIDE DEF w
<1>4. w \in Variables
  BY <1>2, <1>3 DEF Variables
<1> QED  BY <1>3, <1>4 DEF w

\* What the elements of a path are in a string, and once the indices have been read.
Parts    == [name : Seq(Nat), index : BOOLEAN]
Elements == {e \in Parts : e.index => Len(e.name) = 1}

LEMMA ChildrenOf ==
  ASSUME NEW v \in Variables
  PROVE  /\ Children(v) \subseteq Nat
         /\ \A i \in DOMAIN v.arrayValue : v.arrayValue[i] \in Children(v)
         /\ \A n \in DOMAIN v.structValue : v.structValue[n] \in Children(v)
         /\ \A y \in Children(v) : \/ \E i \in DOMAIN v.arrayValue : v.arrayValue[i] = y
                                   \/ \E n \in DOMAIN v.structValue : v.structValue[n] = y
<1>1. /\ v.arrayValue \in Seq(Nat) /\ v.structValue \in Structs
      /\ v.structValue \in [DOMAIN v.structValue -> Nat]
  BY DEF Variables, Structs
<1>2. \A i \in DOMAIN v.arrayValue : v.arrayValue[i] \in Nat
  BY <1>1, ElementOfSeq
<1> QED  BY <1>1, <1>2 DEF Children, ToSet, Range

\* No two elements of v point to one variable, but for those of sh.
Distinct(v, sh) ==
  /\ \A i, j \in DOMAIN v.arrayValue :
       v.arrayValue[i] = v.arrayValue[j] /\ i # j => v.arrayValue[i] \in sh
  /\ \A m, n \in DOMAIN v.structValue :
       v.structValue[m] = v.structValue[n] /\ m # n => v.structValue[m] \in sh
  /\ \A i \in DOMAIN v.arrayValue, n \in DOMAIN v.structValue :
       v.arrayValue[i] = v.structValue[n] => v.arrayValue[i] \in sh

LEMMA IndexType ==
  ASSUME NEW e \in Elements, e.index
  PROVE  arrayIndex(e) \in Nat /\ arrayIndex(e) >= 1
<1>1. e.name \in Seq(Nat) /\ Len(e.name) = 1
  BY DEF Elements, Parts
<1> DEFINE name == e.name
<1> HIDE DEF name
<1>2. name[1] \in Nat
  <2>1. 1 \in 1 .. Len(name)
    BY <1>1 DEF name
  <2> QED  BY <1>1, <2>1, ElementOfSeq DEF name
<1>3. arrayIndex(e) = name[1] + 1
  BY DEF arrayIndex, name
<1> QED  BY <1>2, <1>3

LEMMA OneMore == ASSUME NEW D, NEW d, IsFiniteSet(D) PROVE IsFiniteSet(D \cup {d})
BY FS_AddElement

LEMMA PutName ==
  ASSUME NEW v \in Variables, NEW e \in Elements, NEW x \in Nat, NEW sh, ~e.index
  PROVE  /\ put(v, e, x) \in Variables /\ Has(put(v, e, x), e) /\ Get(put(v, e, x), e) = x
         /\ Children(put(v, e, x)) \subseteq Children(v) \cup {x}
         /\ Distinct(v, sh) /\ (x \in sh \/ x \notin Children(v)) => Distinct(put(v, e, x), sh)
<1> DEFINE s == [n \in DOMAIN v.structValue \cup {e.name} |-> IF n = e.name THEN x ELSE v.structValue[n]]
           w == [v EXCEPT !.structValue = s]
<1>1. /\ v.structValue \in [DOMAIN v.structValue -> Nat] /\ IsFiniteSet(DOMAIN v.structValue)
      /\ DOMAIN v.structValue \subseteq Seq(Nat) /\ e.name \in Seq(Nat)
  BY DEF Variables, Structs, Elements, Parts
<1>2. /\ DOMAIN s = DOMAIN v.structValue \cup {e.name} /\ s[e.name] = x
      /\ s \in [DOMAIN v.structValue \cup {e.name} -> Nat]
      /\ \A n \in DOMAIN v.structValue : n # e.name => s[n] = v.structValue[n]
  BY <1>1
<1> HIDE DEF s
<1>3. s \in Structs
  <2> DEFINE names == DOMAIN v.structValue
             all == names \cup {e.name}
  <2>a. IsFiniteSet(names)
    BY <1>1
  <2>b. IsFiniteSet(all)
    <3> HIDE DEF names
    <3> QED  BY <2>a, OneMore
  <2>1. IsFiniteSet(DOMAIN s)
    BY <1>2, <2>b
  <2>2. DOMAIN s \in SUBSET Seq(Nat) /\ s \in [DOMAIN s -> Nat]
    BY <1>1, <1>2
  <2> QED  BY <2>1, <2>2 DEF Structs
<1>4. w \in Variables /\ w.structValue = s /\ w.arrayValue = v.arrayValue
  BY <1>3, WithStruct
<1>5. put(v, e, x) = w
  BY DEF put, s
<1> HIDE DEF w
<1>6. Has(w, e) /\ Get(w, e) = x
  BY <1>2, <1>4 DEF Has, Get
<1>7. Children(w) \subseteq Children(v) \cup {x}
  BY <1>2, <1>4, ChildrenOf
<1>8. ASSUME Distinct(v, sh), x \in sh \/ x \notin Children(v) PROVE Distinct(w, sh)
  BY <1>2, <1>4, <1>8, ChildrenOf DEF Distinct
<1> QED  BY <1>4, <1>5, <1>6, <1>7, <1>8

\* A new array value in v.
LEMMA NewArray ==
  ASSUME NEW v \in Variables, NEW a \in Seq(Nat), NEW new, NEW sh,
         \A i \in DOMAIN a : a[i] \in Children(v) \cup new
  PROVE  LET w == [v EXCEPT !.arrayValue = a]
         IN /\ w \in Variables /\ w.arrayValue = a /\ w.structValue = v.structValue
            /\ Children(w) \subseteq Children(v) \cup new
            /\ /\ Distinct(v, sh)
               /\ \A i, j \in DOMAIN a : a[i] = a[j] /\ i # j => a[i] \in sh
               /\ \A i \in DOMAIN a, n \in DOMAIN v.structValue :
                    a[i] = v.structValue[n] => a[i] \in sh
               => Distinct(w, sh)
<1> DEFINE w == [v EXCEPT !.arrayValue = a]
<1>1. w \in Variables /\ w.arrayValue = a /\ w.structValue = v.structValue
  BY WithArray
<1> HIDE DEF w
<1>2. Children(w) \subseteq Children(v) \cup new
  BY <1>1, ChildrenOf
<1>3. ASSUME Distinct(v, sh),
             \A i, j \in DOMAIN a : a[i] = a[j] /\ i # j => a[i] \in sh,
             \A i \in DOMAIN a, n \in DOMAIN v.structValue : a[i] = v.structValue[n] => a[i] \in sh
      PROVE  Distinct(w, sh)
  BY <1>1, <1>3 DEF Distinct
<1> QED  BY <1>1, <1>2, <1>3 DEF w

LEMMA PutIndex ==
  ASSUME NEW v \in Variables, NEW e \in Elements, NEW x \in Nat, NEW sh, e.index, Has(v, e)
  PROVE  /\ put(v, e, x) \in Variables /\ Has(put(v, e, x), e) /\ Get(put(v, e, x), e) = x
         /\ Children(put(v, e, x)) \subseteq Children(v) \cup {x}
         /\ Distinct(v, sh) /\ (x \in sh \/ x \notin Children(v)) => Distinct(put(v, e, x), sh)
<1> DEFINE k == arrayIndex(e)
           b == v.arrayValue
           a == [b EXCEPT ![k] = x]
           w == [v EXCEPT !.arrayValue = a]
<1>1. b \in Seq(Nat) /\ k \in Nat /\ k >= 1 /\ k <= Len(b) /\ DOMAIN b = 1 .. Len(b) /\ Len(b) \in Nat
  BY IndexType, LenProperties DEF Variables, Has
<1>2. put(v, e, x) = w
  BY DEF put
<1> HIDE DEF k
<1>3. /\ a \in Seq(Nat) /\ DOMAIN a = DOMAIN b /\ Len(a) = Len(b) /\ a[k] = x
      /\ \A i \in DOMAIN b : i # k => a[i] = b[i]
  <2>1. b \in [1 .. Len(b) -> Nat]
    BY <1>1
  <2>2. a \in [1 .. Len(b) -> Nat]
    BY <2>1
  <2> QED  BY <1>1, <2>2, LenProperties, IsASeq
<1> HIDE DEF a
<1>4. \A i \in DOMAIN a : a[i] \in Children(v) \cup {x}
  BY <1>3, ChildrenOf
<1>5. /\ w \in Variables /\ w.arrayValue = a /\ Children(w) \subseteq Children(v) \cup {x}
      /\ /\ Distinct(v, sh)
         /\ \A i, j \in DOMAIN a : a[i] = a[j] /\ i # j => a[i] \in sh
         /\ \A i \in DOMAIN a, n \in DOMAIN v.structValue :
              a[i] = v.structValue[n] => a[i] \in sh
         => Distinct(w, sh)
  BY <1>3, <1>4, NewArray
<1>6. Has(w, e) /\ Get(w, e) = x
  BY <1>1, <1>3, <1>5 DEF Has, Get, k
<1>7. ASSUME Distinct(v, sh), x \in sh \/ x \notin Children(v) PROVE Distinct(w, sh)
  <2> HIDE DEF b
  <2>a. /\ \A i \in DOMAIN b : b[i] \in Children(v)
        /\ \A n \in DOMAIN v.structValue : v.structValue[n] \in Children(v)
    BY ChildrenOf DEF b
  <2>b. /\ \A i, j \in DOMAIN b : b[i] = b[j] /\ i # j => b[i] \in sh
        /\ \A i \in DOMAIN b, n \in DOMAIN v.structValue : b[i] = v.structValue[n] => b[i] \in sh
    BY <1>7 DEF Distinct, b
  <2>c. \A i \in DOMAIN a : a[i] = x \/ (i # k /\ i \in DOMAIN b /\ a[i] = b[i])
    <3>1. DOMAIN a = DOMAIN b /\ a[k] = x /\ \A i \in DOMAIN b : i # k => a[i] = b[i]
      BY <1>3 DEF b
    <3> QED  BY ONLY <3>1, Zenon
  <2>d. \A i \in DOMAIN a : a[i] = x /\ i # k => x \in sh
    BY <1>3, <1>7, <2>a
  <2>1. ASSUME NEW i \in DOMAIN a, NEW j \in DOMAIN a, a[i] = a[j], i # j PROVE a[i] \in sh
    BY <2>b, <2>c, <2>d, <2>1
  <2>2. ASSUME NEW i \in DOMAIN a, NEW n \in DOMAIN v.structValue, a[i] = v.structValue[n]
        PROVE  a[i] \in sh
    BY <1>7, <2>a, <2>b, <2>c, <2>2
  <2> QED  BY <1>5, <1>7, <2>1, <2>2
<1> QED  BY <1>2, <1>5, <1>6, <1>7

LEMMA PutElement ==
  ASSUME NEW v \in Variables, NEW e \in Elements, NEW x \in Nat, NEW sh, Has(v, e) \/ ~e.index
  PROVE  /\ put(v, e, x) \in Variables /\ Has(put(v, e, x), e) /\ Get(put(v, e, x), e) = x
         /\ Children(put(v, e, x)) \subseteq Children(v) \cup {x}
         /\ Distinct(v, sh) /\ (x \in sh \/ x \notin Children(v)) => Distinct(put(v, e, x), sh)
BY PutName, PutIndex DEF Elements

\* Elements behind the end of an array.
LEMMA MoreElements ==
  ASSUME NEW v \in Variables, NEW c \in Seq(Nat), NEW sh
  PROVE  LET w == [v EXCEPT !.arrayValue = @ \o c]
         IN /\ w \in Variables /\ w.arrayValue = v.arrayValue \o c
            /\ w.structValue = v.structValue
            /\ Children(w) \subseteq Children(v) \cup ToSet(c)
            /\ /\ Distinct(v, sh)
               /\ \A i, j \in DOMAIN c : c[i] = c[j] => i = j
               /\ \A i \in DOMAIN c : c[i] \in sh \/ c[i] \notin Children(v)
               => Distinct(w, sh)
<1> DEFINE b == v.arrayValue
           a == b \o c
           w == [v EXCEPT !.arrayValue = a]
<1>1. /\ b \in Seq(Nat) /\ DOMAIN b = 1 .. Len(b) /\ Len(b) \in Nat
      /\ DOMAIN c = 1 .. Len(c) /\ Len(c) \in Nat
  BY LenProperties DEF Variables
<1>2. /\ a \in Seq(Nat) /\ Len(a) = Len(b) + Len(c)
      /\ \A i \in 1 .. Len(a) : a[i] = IF i <= Len(b) THEN b[i] ELSE c[i - Len(b)]
  BY <1>1, ConcatProperties
<1>3. DOMAIN a = 1 .. Len(a)
  BY <1>2, LenProperties
<1>4. w = [v EXCEPT !.arrayValue = @ \o c]
  OBVIOUS
<1>a. \A i \in DOMAIN b : b[i] \in Children(v)
  BY ChildrenOf
<1> DEFINE l == Len(b)
           k == Len(c)
<1>5. ASSUME NEW i \in DOMAIN a
      PROVE  \/ i \in DOMAIN b /\ a[i] = b[i]
             \/ i - l \in DOMAIN c /\ a[i] = c[i - l]
  <2> HIDE DEF a, l, k
  <2>1. l \in Nat /\ k \in Nat /\ i \in 1 .. l + k
    BY <1>1, <1>2, <1>3 DEF l, k
  <2>2. i <= l => i \in 1 .. l
    BY <2>1
  <2>3. ~(i <= l) => i - l \in 1 .. k
    BY <2>1
  <2> QED  BY <1>1, <1>2, <1>3, <2>2, <2>3 DEF l, k
<1> HIDE DEF a, b, l, k
<1>6. \A i \in DOMAIN a : a[i] \in Children(v) \cup ToSet(c)
  BY <1>a, <1>5 DEF ToSet
<1>7. /\ w \in Variables /\ w.arrayValue = a /\ w.structValue = v.structValue
      /\ Children(w) \subseteq Children(v) \cup ToSet(c)
      /\ /\ Distinct(v, sh)
         /\ \A i, j \in DOMAIN a : a[i] = a[j] /\ i # j => a[i] \in sh
         /\ \A i \in DOMAIN a, n \in DOMAIN v.structValue :
              a[i] = v.structValue[n] => a[i] \in sh
         => Distinct(w, sh)
  BY <1>2, <1>6, NewArray
<1>8. ASSUME Distinct(v, sh), \A i, j \in DOMAIN c : c[i] = c[j] => i = j,
             \A i \in DOMAIN c : c[i] \in sh \/ c[i] \notin Children(v)
      PROVE  Distinct(w, sh)
  <2>1. ASSUME NEW i \in DOMAIN a, NEW j \in DOMAIN a, a[i] = a[j], i # j PROVE a[i] \in sh
    <3>1. CASE i \in DOMAIN b /\ a[i] = b[i] /\ j \in DOMAIN b /\ a[j] = b[j]
      BY <1>8, <2>1, <3>1 DEF Distinct, b
    <3>2. CASE i - l \in DOMAIN c /\ a[i] = c[i - l] /\ j - l \in DOMAIN c /\ a[j] = c[j - l]
      <4>1. i \in Nat /\ j \in Nat /\ l \in Nat
        BY <1>1, <1>2, <1>3 DEF l
      <4>2. i - l = j - l
        BY <1>8, <2>1, <3>2
      <4> QED  BY <2>1, <4>1, <4>2
    <3> QED  BY <1>a, <1>5, <1>8, <2>1, <3>1, <3>2
  <2>2. ASSUME NEW i \in DOMAIN a, NEW n \in DOMAIN v.structValue, a[i] = v.structValue[n]
        PROVE  a[i] \in sh
    BY <1>5, <1>8, <2>2, ChildrenOf DEF Distinct, b
  <2> QED  BY <1>7, <1>8, <2>1, <2>2
<1> QED  BY <1>4, <1>7, <1>8 DEF a, b

\* A sequence without its element k.
LEMMA RemoveAtEntries ==
  ASSUME NEW b \in Seq(Nat), NEW k \in 1 .. Len(b)
  PROVE  LET a == RemoveAt(b, k)
         IN /\ a \in Seq(Nat) /\ Len(a) = Len(b) - 1 /\ DOMAIN a = 1 .. Len(b) - 1
            /\ \A i \in 1 .. Len(b) - 1 : a[i] = IF i < k THEN b[i] ELSE b[i + 1]
<1> DEFINE a == RemoveAt(b, k)
           m == Len(b)
<1>1. k \in Nat /\ k >= 1 /\ k <= m /\ DOMAIN b = 1 .. m /\ m \in Nat
  BY LenProperties
<1> DEFINE c == SubSeq(b, 1, k - 1)
           d == SubSeq(b, k + 1, m)
<1>2. /\ c \in Seq(Nat) /\ Len(c) = k - 1 /\ \A i \in 1 .. k - 1 : c[i] = b[i]
  <2>1. 1 \in Int /\ k - 1 \in Int /\ 1 <= k /\ k - 1 <= m
    BY <1>1
  <2>2. \A i \in 1 .. k - 1 : 1 + i - 1 = i /\ i \in 1 .. (k - 1) - 1 + 1
    BY <1>1
  <2>3. \A i \in 1 .. m : b[i] \in Nat
    BY <1>1, ElementOfSeq
  <2>4. (k - 1) - 1 + 1 = k - 1
    BY <1>1
  <2>5. IF 1 <= k - 1 THEN Len(c) = k - 1 ELSE Len(c) = 0
    BY <1>1, <2>1, <2>4, SubSeqProperties
  <2>6. k - 1 \in Nat /\ (~(1 <= k - 1) => k - 1 = 0)
    BY <1>1
  <2> QED  BY <1>1, <2>1, <2>2, <2>5, <2>6, SubSeqProperties
<1>3. /\ d \in Seq(Nat) /\ Len(d) = m - k /\ \A i \in 1 .. m - k : d[i] = b[k + i]
  <2>1. k + 1 \in Int /\ m \in Int /\ 1 <= k + 1 /\ k + 1 <= m + 1 /\ m <= m
    BY <1>1
  <2>2. \A i \in 1 .. m - k : (k + 1) + i - 1 = k + i /\ i \in 1 .. m - (k + 1) + 1
    BY <1>1
  <2>3. m - (k + 1) + 1 = m - k /\ (~(k + 1 <= m) => m - k = 0)
    <3> HIDE DEF m
    <3> QED  BY <1>1
  <2>4. /\ d \in Seq(Nat) /\ Len(d) = IF k + 1 <= m THEN m - (k + 1) + 1 ELSE 0
        /\ \A i \in 1 .. m - (k + 1) + 1 : d[i] = b[(k + 1) + i - 1]
    <3>1. \A i \in k + 1 .. m : b[i] \in Nat
      BY <1>1, ElementOfSeq
    <3> QED  BY <2>1, <3>1, SubSeqProperties
  <2> HIDE DEF d, m
  <2>5. Len(d) = m - k
    BY <2>3, <2>4
  <2> QED  BY <2>2, <2>4, <2>5
<1>4. a = c \o d
  BY DEF RemoveAt
<1> HIDE DEF a, c, d
<1>5. a \in Seq(Nat) /\ Len(a) = m - 1 /\ DOMAIN a = 1 .. m - 1
  <2>1. k - 1 + (m - k) = m - 1
    BY <1>1
  <2> QED  BY <1>2, <1>3, <1>4, <2>1, ConcatProperties, LenProperties
<1>6. ASSUME NEW i \in 1 .. m - 1 PROVE a[i] = IF i < k THEN b[i] ELSE b[i + 1]
  <2>1. i \in 1 .. Len(c) + Len(d)
    BY <1>1, <1>2, <1>3
  <2>2. a[i] = IF i <= Len(c) THEN c[i] ELSE d[i - Len(c)]
    BY <1>2, <1>3, <1>4, <2>1, ConcatProperties
  <2>3. CASE i < k
    <3>1. i <= k - 1 /\ i \in 1 .. k - 1 /\ i \in 1 .. m
      BY <1>1, <2>3
    <3> QED  BY <1>2, <2>2, <2>3, <3>1
  <2>4. CASE ~(i < k)
    <3>1. /\ ~(i <= k - 1) /\ i - (k - 1) \in 1 .. m - k /\ k + (i - (k - 1)) = i + 1
          /\ i + 1 \in 1 .. m
      BY <1>1, <2>4
    <3> QED  BY <1>2, <1>3, <2>2, <2>4, <3>1
  <2> QED  BY <2>3, <2>4
<1> QED  BY <1>5, <1>6 DEF a, m

LEMMA RemovedElement ==
  ASSUME NEW v \in Variables, NEW e \in Elements, NEW sh, Has(v, e)
  PROVE  /\ removed(v, e) \in Variables /\ Children(removed(v, e)) \subseteq Children(v)
         /\ Distinct(v, sh) => Distinct(removed(v, e), sh)
<1>1. CASE e.index
  <2> DEFINE k == arrayIndex(e)
             b == v.arrayValue
             a == RemoveAt(b, k)
             w == [v EXCEPT !.arrayValue = a]
             m == Len(b)
  <2>1. b \in Seq(Nat) /\ k \in Nat /\ k >= 1 /\ k <= m /\ DOMAIN b = 1 .. m /\ m \in Nat
    BY <1>1, IndexType, LenProperties DEF Variables, Has
  <2>2. removed(v, e) = w
    BY <1>1 DEF removed
  <2> HIDE DEF k, m
  <2>3. /\ a \in Seq(Nat) /\ Len(a) = m - 1 /\ DOMAIN a = 1 .. m - 1
        /\ \A i \in 1 .. m - 1 : a[i] = IF i < k THEN b[i] ELSE b[i + 1]
    <3>1. k \in 1 .. Len(b)
      BY <2>1 DEF m
    <3> QED  BY <2>1, <3>1, RemoveAtEntries DEF m
  <2> HIDE DEF a
  <2> DEFINE From(i) == IF i < k THEN i ELSE i + 1
  <2>4. ASSUME NEW i \in 1 .. m - 1 PROVE From(i) \in 1 .. m /\ a[i] = b[From(i)]
    <3>1. From(i) \in 1 .. m
      BY <2>1
    <3>2. a[i] = IF i < k THEN b[i] ELSE b[i + 1]
      BY <2>3
    <3>3. a[i] = b[From(i)]
      BY <3>2
    <3> QED  BY <3>1, <3>3
  <2>5. \A i, j \in 1 .. m - 1 : i # j => From(i) # From(j)
    BY <2>1
  <2> HIDE DEF From
  <2>6. \A i \in DOMAIN a : a[i] \in Children(v) \cup {}
    BY <2>1, <2>3, <2>4, ChildrenOf DEF b
  <2>7. /\ w \in Variables /\ Children(w) \subseteq Children(v) \cup {}
        /\ /\ Distinct(v, sh)
           /\ \A i, j \in DOMAIN a : a[i] = a[j] /\ i # j => a[i] \in sh
           /\ \A i \in DOMAIN a, n \in DOMAIN v.structValue :
                a[i] = v.structValue[n] => a[i] \in sh
           => Distinct(w, sh)
    BY <2>3, <2>6, NewArray
  <2>8. ASSUME Distinct(v, sh) PROVE Distinct(w, sh)
    <3>1. \A i, j \in DOMAIN a : a[i] = a[j] /\ i # j => a[i] \in sh
      <4> SUFFICES ASSUME NEW i \in 1 .. m - 1, NEW j \in 1 .. m - 1, a[i] = a[j], i # j
                   PROVE  a[i] \in sh
        BY <2>3
      <4>1. From(i) \in DOMAIN b /\ From(j) \in DOMAIN b /\ From(i) # From(j)
        BY <2>1, <2>4, <2>5
      <4>2. a[i] = b[From(i)] /\ a[j] = b[From(j)]
        BY <2>4
      <4> HIDE DEF m
      <4> QED  BY <2>8, <4>1, <4>2 DEF Distinct, b
    <3>2. \A i \in DOMAIN a, n \in DOMAIN v.structValue : a[i] = v.structValue[n] => a[i] \in sh
      BY <2>1, <2>3, <2>4, <2>8 DEF Distinct, b
    <3> QED  BY <2>7, <2>8, <3>1, <3>2
  <2> QED  BY <2>2, <2>7, <2>8
<1>2. CASE ~e.index
  <2> DEFINE old == v.structValue
             s == [n \in DOMAIN old \ {e.name} |-> old[n]]
             w == [v EXCEPT !.structValue = s]
  <2>1. /\ old \in [DOMAIN old -> Nat] /\ IsFiniteSet(DOMAIN old) /\ DOMAIN old \in SUBSET Seq(Nat)
    BY DEF Variables, Structs
  <2>2. removed(v, e) = w
    BY <1>2 DEF removed
  <2>3. /\ DOMAIN s \subseteq DOMAIN old /\ s \in [DOMAIN s -> Nat]
        /\ \A n \in DOMAIN s : s[n] = old[n]
    BY <2>1
  <2> HIDE DEF s, old
  <2>4. IsFiniteSet(DOMAIN s)
    BY <2>1, <2>3, FS_Subset
  <2>5. s \in Structs
    BY <2>1, <2>3, <2>4 DEF Structs
  <2>6. w \in Variables /\ w.structValue = s /\ w.arrayValue = v.arrayValue
    BY <2>5, WithStruct
  <2> HIDE DEF w
  <2>7. Children(w) \subseteq Children(v)
    BY <2>3, <2>6, ChildrenOf DEF old
  <2>8. Distinct(v, sh) => Distinct(w, sh)
    BY <2>3, <2>6 DEF Distinct, old
  <2> QED  BY <2>2, <2>6, <2>7, <2>8
<1> QED  BY <1>1, <1>2

-----------------------------------------------------------------------------
(* Heaps *)

\* Every pointer leads to a variable.
Linked(h) == \A x \in DOMAIN h : Children(h[x]) \subseteq DOMAIN h

\* No variable is in two places, but for those of sh.
Unique(h, sh) ==
  /\ \A x \in DOMAIN h : Distinct(h[x], sh)
  /\ \A x, z \in DOMAIN h : x # z => Children(h[x]) \cap Children(h[z]) \subseteq sh

\* No pointer leads out of R.
Region(h, R) == R \subseteq DOMAIN h /\ \A x \in R : Children(h[x]) \subseteq R

Sound(h, R, sh) == h \in Seq(Variables) /\ Linked(h) /\ Region(h, R) /\ Unique(h, sh)

Free(h, y) == \A x \in DOMAIN h : y \notin Children(h[x])

\* What set does to a heap: it changes variables of the region and adds some to it.
Added(h, g) == Len(h) + 1 .. Len(g)
Grows(h, g, R, sh) ==
  /\ Len(h) <= Len(g) /\ Sound(g, R \cup Added(h, g), sh)
  /\ \A x \in DOMAIN h \ R : g[x] = h[x]

LEMMA HeapType ==
  ASSUME NEW h \in Seq(Variables)
  PROVE  /\ DOMAIN h = 1 .. Len(h) /\ Len(h) \in Nat
         /\ \A x \in DOMAIN h : h[x] \in Variables
BY LenProperties, ElementOfSeq

LEMMA GrowsTwice ==
  ASSUME NEW R, NEW sh, NEW h \in Seq(Variables), NEW g \in Seq(Variables), NEW k \in Seq(Variables),
         Grows(h, g, R, sh), Grows(g, k, R \cup Added(h, g), sh)
  PROVE  Grows(h, k, R, sh)
<1>1. Len(h) \in Nat /\ Len(g) \in Nat /\ Len(k) \in Nat
  BY HeapType
<1>2. Len(h) <= Len(g) /\ Len(g) <= Len(k)
  BY DEF Grows
<1>3. Len(h) <= Len(k) /\ Added(h, g) \cup Added(g, k) = Added(h, k)
  BY <1>1, <1>2 DEF Added
<1>4. (R \cup Added(h, g)) \cup Added(g, k) = R \cup Added(h, k)
  BY <1>3
<1>5. Sound(k, R \cup Added(h, k), sh)
  BY <1>4 DEF Grows
<1>6. ASSUME NEW x \in DOMAIN h \ R PROVE k[x] = h[x]
  <2>1. x \in 1 .. Len(h) /\ DOMAIN g = 1 .. Len(g)
    BY HeapType
  <2>2. x \in DOMAIN g /\ x \notin Added(h, g)
    BY <1>1, <1>2, <2>1 DEF Added
  <2> QED  BY <2>2 DEF Grows
<1> QED  BY <1>3, <1>5, <1>6 DEF Grows

\* A variable gets the value w, and variables are added.
LEMMA Entries ==
  ASSUME NEW h \in Seq(Variables), NEW x \in DOMAIN h, NEW w \in Variables, NEW ext \in Seq(Variables)
  PROVE  LET g == [h EXCEPT ![x] = w] \o ext
             l == Len(h)
             k == Len(ext)
         IN /\ g \in Seq(Variables) /\ Len(g) = l + k /\ DOMAIN g = 1 .. l + k
            /\ Added(h, g) = l + 1 .. l + k /\ DOMAIN h \subseteq DOMAIN g
            /\ \A i \in 1 .. l : g[i] = IF i = x THEN w ELSE h[i]
            /\ \A i \in l + 1 .. l + k : i - l \in DOMAIN ext /\ g[i] = ext[i - l]
<1> DEFINE f == [h EXCEPT ![x] = w]
           g == f \o ext
           l == Len(h)
           k == Len(ext)
<1>1. /\ DOMAIN h = 1 .. l /\ l \in Nat /\ x \in 1 .. l
      /\ DOMAIN ext = 1 .. k /\ k \in Nat
      /\ \A i \in 1 .. l : h[i] \in Variables
      /\ \A i \in 1 .. k : ext[i] \in Variables
  BY HeapType
<1>2. f \in Seq(Variables) /\ Len(f) = l /\ f[x] = w /\ \A i \in 1 .. l : i # x => f[i] = h[i]
  <2>1. f \in [1 .. l -> Variables]
    BY <1>1
  <2> QED  BY <1>1, <2>1, LenProperties, IsASeq
<1> HIDE DEF f
<1>3. /\ g \in Seq(Variables) /\ Len(g) = l + k
      /\ \A i \in 1 .. l + k : g[i] = IF i <= l THEN f[i] ELSE ext[i - l]
  <2>1. /\ g \in Seq(Variables) /\ Len(g) = Len(f) + Len(ext)
        /\ \A i \in 1 .. Len(f) + Len(ext) : g[i] = IF i <= Len(f) THEN f[i] ELSE ext[i - Len(f)]
    BY <1>2, ConcatProperties
  <2> QED  BY <1>2, <2>1
<1>4. DOMAIN g = 1 .. l + k
  BY <1>3, LenProperties
<1>a. Added(h, g) = l + 1 .. l + k
  BY <1>3 DEF Added
<1> HIDE DEF g, l, k
<1>5. ASSUME NEW i \in 1 .. l PROVE g[i] = IF i = x THEN w ELSE h[i]
  <2>1. i \in 1 .. l + k /\ i <= l
    BY <1>1
  <2> QED  BY <1>2, <1>3, <2>1
<1>6. ASSUME NEW i \in l + 1 .. l + k PROVE i - l \in DOMAIN ext /\ g[i] = ext[i - l]
  <2>1. i \in 1 .. l + k /\ ~(i <= l) /\ i - l \in 1 .. k
    BY <1>1
  <2> QED  BY <1>1, <1>3, <2>1
<1>7. DOMAIN h \subseteq DOMAIN g
  BY <1>1, <1>4
<1> QED  BY <1>3, <1>4, <1>5, <1>6, <1>7, <1>a DEF g, f, l, k

\* A variable x of the region gets the value w, and variables without elements are
\* added: w may have new elements that nobody else has.
LEMMA Change ==
  ASSUME NEW R, NEW sh, NEW h, NEW x, NEW w \in Variables, NEW ext \in Seq(Variables), NEW new,
         Sound(h, R, sh), x \in R,
         \A i \in DOMAIN ext : Children(ext[i]) = {} /\ Distinct(ext[i], sh),
         Distinct(w, sh), Children(w) \subseteq Children(h[x]) \cup new,
         new \subseteq R \cup (Len(h) + 1 .. Len(h) + Len(ext)),
         \A y \in new : y \in sh \/ Free(h, y)
  PROVE  LET g == [h EXCEPT ![x] = w] \o ext
         IN /\ Grows(h, g, R, sh) /\ g[x] = w /\ x \in DOMAIN g /\ g \in Seq(Variables)
            /\ Len(g) = Len(h) + Len(ext)
            /\ \A y : Free(h, y) /\ y \notin new => Free(g, y)
<1> DEFINE f == [h EXCEPT ![x] = w]
           g == f \o ext
           l == Len(h)
           k == Len(ext)
<1>1. /\ h \in Seq(Variables) /\ DOMAIN h = 1 .. l /\ l \in Nat /\ x \in 1 .. l
      /\ DOMAIN ext = 1 .. k /\ k \in Nat
      /\ \A i \in 1 .. l : h[i] \in Variables
      /\ \A i \in 1 .. k : ext[i] \in Variables
  BY HeapType DEF Sound, Region
<1>2. /\ g \in Seq(Variables) /\ Len(g) = l + k /\ DOMAIN g = 1 .. l + k
      /\ Added(h, g) = l + 1 .. l + k /\ DOMAIN h \subseteq DOMAIN g
      /\ \A i \in 1 .. l : g[i] = IF i = x THEN w ELSE h[i]
      /\ \A i \in l + 1 .. l + k : i - l \in DOMAIN ext /\ g[i] = ext[i - l]
  <2>1. h \in Seq(Variables) /\ x \in DOMAIN h
    BY <1>1
  <2> QED  BY ONLY <2>1, w \in Variables, ext \in Seq(Variables), Entries
<1>3. g \in Seq(Variables) /\ Len(g) = l + k
  BY <1>2
<1>4. DOMAIN g = 1 .. l + k
  BY <1>2
<1> HIDE DEF f, g, l, k
<1>5. \A i \in 1 .. l : g[i] = IF i = x THEN w ELSE h[i]
  BY <1>2
<1>6. ASSUME NEW i \in l + 1 .. l + k
      PROVE  Children(g[i]) = {} /\ Distinct(g[i], sh)
  BY <1>2
<1>7. \A i \in DOMAIN g : i \in 1 .. l \/ i \in l + 1 .. l + k
  BY <1>1, <1>4
<1>8. /\ R \subseteq 1 .. l /\ 1 .. l \subseteq 1 .. l + k /\ l + 1 .. l + k \subseteq 1 .. l + k
      /\ \A i \in 1 .. l : i \notin l + 1 .. l + k
  <2>1. R \subseteq 1 .. l
    BY <1>1 DEF Sound, Region
  <2> QED  BY <1>1, <2>1
<1>9. /\ \A i \in 1 .. l : Children(h[i]) \subseteq 1 .. l
      /\ \A i \in R : Children(h[i]) \subseteq R
      /\ \A i \in 1 .. l : Distinct(h[i], sh)
      /\ \A i, j \in 1 .. l : i # j => Children(h[i]) \cap Children(h[j]) \subseteq sh
  BY <1>1 DEF Sound, Linked, Region, Unique
<1>10. new \subseteq R \cup (l + 1 .. l + k)
  BY DEF l, k
<1>11. Children(w) \subseteq R \cup (l + 1 .. l + k)
  BY <1>9, <1>10
<1>12. Linked(g)
  BY <1>4, <1>5, <1>6, <1>7, <1>8, <1>9, <1>11 DEF Linked
<1>13. Region(g, R \cup (l + 1 .. l + k))
  BY <1>4, <1>5, <1>6, <1>8, <1>9, <1>11 DEF Region
<1>14. Unique(g, sh)
  <2>1. \A i \in DOMAIN g : Distinct(g[i], sh)
    BY <1>5, <1>6, <1>7, <1>9
  <2>2. ASSUME NEW z \in 1 .. l, z # x PROVE Children(w) \cap Children(h[z]) \subseteq sh
    <3>1. Children(h[x]) \cap Children(h[z]) \subseteq sh
      BY <1>1, <1>9, <2>2
    <3>2. \A y \in new : y \in sh \/ y \notin Children(h[z])
      BY <1>1 DEF Free
    <3> QED  BY <3>1, <3>2
  <2>3. ASSUME NEW i \in DOMAIN g, NEW z \in DOMAIN g, i # z
        PROVE  Children(g[i]) \cap Children(g[z]) \subseteq sh
    <3>1. CASE i \in 1 .. l /\ z \in 1 .. l
      <4>1. CASE i = x
        BY <1>5, <2>2, <2>3, <3>1, <4>1
      <4>2. CASE z = x
        BY <1>5, <2>2, <2>3, <3>1, <4>2
      <4>3. CASE i # x /\ z # x
        BY <1>5, <1>9, <2>3, <3>1, <4>3
      <4> QED  BY <4>1, <4>2, <4>3
    <3>2. CASE i \in l + 1 .. l + k \/ z \in l + 1 .. l + k
      BY <1>6, <3>2
    <3> QED  BY <1>7, <3>1, <3>2
  <2> QED  BY <2>1, <2>3 DEF Unique
<1>15. \A i \in DOMAIN h \ R : g[i] = h[i]
  BY <1>1, <1>5
<1>16. l <= l + k /\ Added(h, g) = l + 1 .. l + k
  BY <1>1, <1>3 DEF Added, l
<1>17. Grows(h, g, R, sh)
  BY <1>3, <1>12, <1>13, <1>14, <1>15, <1>16 DEF Grows, Sound, l
<1>18. ASSUME NEW y, Free(h, y), y \notin new PROVE Free(g, y)
  <2>1. \A i \in 1 .. l : y \notin Children(h[i])
    BY <1>1, <1>18 DEF Free
  <2>2. y \notin Children(w)
    BY <1>1, <1>18, <2>1
  <2> QED  BY <1>5, <1>6, <1>7, <2>1, <2>2 DEF Free
<1>19. g[x] = w /\ x \in DOMAIN g
  BY <1>1, <1>4, <1>5, <1>8
<1> QED  BY <1>3, <1>17, <1>18, <1>19 DEF g, f, l, k

LEMMA HasGet ==
  ASSUME NEW v \in Variables, NEW e \in Elements, Has(v, e)
  PROVE  Get(v, e) \in Children(v)
<1>1. v.arrayValue \in Seq(Nat) /\ DOMAIN v.arrayValue = 1 .. Len(v.arrayValue) /\ Len(v.arrayValue) \in Nat
  BY LenProperties DEF Variables
<1>2. CASE e.index
  <2>1. arrayIndex(e) \in DOMAIN v.arrayValue
    BY <1>1, <1>2, IndexType DEF Has
  <2> QED  BY <1>2, <2>1, ChildrenOf DEF Get
<1>3. CASE ~e.index
  BY <1>3, ChildrenOf DEF Has, Get
<1> QED  BY <1>2, <1>3

Created == {Void, OfType("tArray"), OfType("tStruct"), Integer(1)}

LEMMA CreatedDistinct ==
  ASSUME NEW v \in Created, NEW sh
  PROVE  v \in Variables /\ Children(v) = {} /\ Distinct(v, sh)
<1>1. v \in Variables /\ v.arrayValue = <<>> /\ v.structValue = NoStruct /\ Children(v) = {}
  BY Childless DEF Created
<1>2. DOMAIN v.arrayValue = {} /\ DOMAIN v.structValue = {}
  BY <1>1, EmptySeq DEF NoStruct
<1> QED  BY <1>1, <1>2 DEF Distinct

LEMMA FilledGrows ==
  ASSUME NEW R, NEW sh, NEW h, NEW x \in R, NEW e \in Elements, NEW v \in Created,
         Sound(h, R, sh), e.index, ~Has(h[x], e)
  PROVE  LET g == filled(h, x, e, v)
         IN /\ Grows(h, g, R, sh) /\ x \in DOMAIN g /\ g \in Seq(Variables)
            /\ Has(g[x], e) /\ Get(g[x], e) \in Added(h, g)
            /\ \A y \in DOMAIN h : Free(h, y) => Free(g, y)
<1> DEFINE b == h[x].arrayValue
           n == Len(b)
           k == arrayIndex(e)
           m == k - n
           l == Len(h)
           c == [i \in 1 .. m |-> l + i]
           w == [h[x] EXCEPT !.arrayValue = @ \o c]
           ext == [i \in 1 .. m |-> v]
           new == l + 1 .. l + m
           g == [h EXCEPT ![x] = w] \o ext
<1>1. /\ h \in Seq(Variables) /\ DOMAIN h = 1 .. l /\ l \in Nat /\ x \in 1 .. l /\ h[x] \in Variables
      /\ \A i \in 1 .. l : h[i] \in Variables
  BY HeapType DEF Sound, Region
<1>2. b \in Seq(Nat) /\ n \in Nat /\ k \in Nat /\ k > n
  <2>1. b \in Seq(Nat) /\ n \in Nat
    BY <1>1, LenProperties DEF Variables
  <2>2. k \in Nat /\ ~(k <= n)
    BY IndexType DEF Has
  <2> HIDE DEF b, n, k
  <2> QED  BY <2>1, <2>2
<1>3. filled(h, x, e, v) = g
  BY DEF filled
<1> HIDE DEF b, k, l
<1>4. m \in Nat /\ m >= 1
  <2> HIDE DEF n
  <2> QED  BY <1>2
<1>5. c \in Seq(Nat) /\ DOMAIN c = 1 .. m /\ Len(c) = m /\ \A i \in 1 .. m : c[i] = l + i
  <2> HIDE DEF m
  <2>1. c \in [1 .. m -> Nat]
    BY <1>1, <1>4
  <2> QED  BY <1>4, <2>1, LenProperties, IsASeq
<1>6. ToSet(c) \subseteq new
  <2> HIDE DEF m
  <2> QED  BY <1>1, <1>4, <1>5 DEF ToSet
<1>7. v \in Variables /\ Children(v) = {} /\ Distinct(v, sh)
  BY CreatedDistinct
<1>8. ext \in Seq(Variables) /\ Len(ext) = m /\ DOMAIN ext = 1 .. m /\ \A i \in 1 .. m : ext[i] = v
  <2> HIDE DEF m
  <2>1. ext \in [1 .. m -> Variables]
    BY <1>7
  <2> QED  BY <1>4, <2>1, LenProperties, IsASeq
<1> HIDE DEF c, m
<1>9. \A y \in new : y \notin 1 .. l /\ Free(h, y)
  <2>1. \A y \in new : y \notin 1 .. l
    BY <1>1, <1>4
  <2>2. \A i \in 1 .. l : Children(h[i]) \subseteq 1 .. l
    BY <1>1 DEF Sound, Linked
  <2> HIDE DEF new
  <2> QED  BY <1>1, <2>1, <2>2 DEF Free
<1> HIDE DEF ext
<1>10. /\ w \in Variables /\ w.arrayValue = b \o c
       /\ Children(w) \subseteq Children(h[x]) \cup new
       /\ Distinct(w, sh)
  <2>1. Distinct(h[x], sh)
    BY <1>1 DEF Sound, Unique
  <2>2. \A i, j \in DOMAIN c : c[i] = c[j] => i = j
    BY <1>1, <1>5
  <2>3. \A i \in DOMAIN c : c[i] \in sh \/ c[i] \notin Children(h[x])
    <3>1. \A i \in DOMAIN c : c[i] \in new
      BY <1>6 DEF ToSet
    <3> HIDE DEF new
    <3> QED  BY <1>1, <1>9, <3>1 DEF Free
  <2> HIDE DEF new
  <2> QED  BY <1>1, <1>5, <1>6, <2>1, <2>2, <2>3, MoreElements DEF b
<1> HIDE DEF w
<1>11. new \subseteq R \cup (Len(h) + 1 .. Len(h) + Len(ext))
  BY <1>8 DEF l
<1> HIDE DEF new
<1>12. /\ Grows(h, g, R, sh) /\ g[x] = w /\ x \in DOMAIN g /\ g \in Seq(Variables)
       /\ Len(g) = Len(h) + Len(ext)
       /\ \A y : Free(h, y) /\ y \notin new => Free(g, y)
  <2>1. \A i \in DOMAIN ext : Children(ext[i]) = {} /\ Distinct(ext[i], sh)
    BY <1>7, <1>8
  <2>2. \A y \in new : y \in sh \/ Free(h, y)
    BY <1>9
  <2>3. w \in Variables /\ ext \in Seq(Variables) /\ Distinct(w, sh)
        /\ Children(w) \subseteq Children(h[x]) \cup new
    BY <1>8, <1>10
  <2> QED  BY <1>11, <2>1, <2>2, <2>3, Change
<1> HIDE DEF g
<1>13. \A y \in DOMAIN h : Free(h, y) => Free(g, y)
  BY <1>1, <1>9, <1>12
<1>14. Len(b \o c) = k /\ (b \o c)[k] = l + m
  <2>1. Len(b \o c) = n + m /\ \A i \in 1 .. n + m : (b \o c)[i] = IF i <= n THEN b[i] ELSE c[i - n]
    BY <1>2, <1>5, ConcatProperties
  <2> HIDE DEF n
  <2>2. n + m = k /\ k \in 1 .. n + m /\ ~(k <= n) /\ k - n = m /\ m \in 1 .. m
    BY <1>2, <1>4 DEF m
  <2> QED  BY <1>5, <2>1, <2>2
<1>15. Has(w, e) /\ Get(w, e) = l + m
  BY <1>2, <1>10, <1>14 DEF Has, Get, k
<1>16. l + m \in Added(h, g)
  BY <1>1, <1>4, <1>8, <1>12 DEF Added, l
<1> QED  BY <1>3, <1>12, <1>13, <1>15, <1>16

LEMMA GrowsItself ==
  ASSUME NEW R, NEW sh, NEW h, Sound(h, R, sh)
  PROVE  Grows(h, h, R, sh) /\ Added(h, h) = {}
<1>1. Len(h) \in Nat
  BY HeapType DEF Sound
<1>2. Added(h, h) = {}
  BY <1>1 DEF Added
<1> QED  BY <1>1, <1>2 DEF Grows

\* A variable of the region gets a new element: w is the variable, and y is in the element.
LEMMA ChangeGrows ==
  ASSUME NEW R, NEW sh, NEW h, NEW x \in R, NEW w \in Variables, NEW y,
         Sound(h, R, sh), y \in R, y \in sh \/ Free(h, y),
         Distinct(w, sh), Children(w) \subseteq Children(h[x]) \cup {y}
  PROVE  LET g == [h EXCEPT ![x] = w]
         IN Grows(h, g, R, sh) /\ Len(g) = Len(h) /\ g \in Seq(Variables)
<1> DEFINE g == [h EXCEPT ![x] = w]
           none == <<>>
           new == {y}
<1>1. /\ none \in Seq(Variables) /\ Len(none) = 0 /\ DOMAIN none = {}
      /\ h \in Seq(Variables) /\ x \in DOMAIN h
  BY EmptySeq DEF Sound, Region
<1>2. g \in Seq(Variables)
  <2>1. h \in [1 .. Len(h) -> Variables] /\ Len(h) \in Nat
    BY <1>1, LenProperties
  <2>2. g \in [1 .. Len(h) -> Variables]
    BY <2>1
  <2> QED  BY <2>1, <2>2, IsASeq
<1>3. g \o none = g
  BY <1>2, ConcatEmptySeq
<1>4. new \subseteq R \cup (Len(h) + 1 .. Len(h) + Len(none))
  OBVIOUS
<1>5. /\ \A i \in DOMAIN none : Children(none[i]) = {} /\ Distinct(none[i], sh)
      /\ \A z \in new : z \in sh \/ Free(h, z)
  BY <1>1
<1> DEFINE k == [h EXCEPT ![x] = w] \o none
<1> HIDE DEF none, new
<1>6. /\ Grows(h, k, R, sh) /\ k[x] = w /\ x \in DOMAIN k /\ k \in Seq(Variables)
      /\ Len(k) = Len(h) + Len(none)
      /\ \A z : Free(h, z) /\ z \notin new => Free(k, z)
  <2>1. Children(w) \subseteq Children(h[x]) \cup new
    BY DEF new
  <2> HIDE DEF g
  <2>2. w \in Variables /\ none \in Seq(Variables) /\ x \in R /\ Sound(h, R, sh) /\ Distinct(w, sh)
    BY <1>1
  <2> QED  BY <1>4, <1>5, <2>1, <2>2, Change
<1>7. k = g
  BY <1>3
<1> HIDE DEF k, g
<1>8. Len(h) \in Nat
  BY <1>1, LenProperties
<1> QED  BY <1>1, <1>2, <1>6, <1>7, <1>8 DEF g

\* One turn of the loop of set.
LEMMA NextGrows ==
  ASSUME NEW R, NEW sh, NEW h, NEW x \in R, NEW e \in Elements, NEW t \in {"tArray", "tStruct"},
         Sound(h, R, sh)
  PROVE  LET g == next(h, x, e, t)
         IN /\ Grows(h, g, R, sh) /\ g \in Seq(Variables)
            /\ Get(g[x], e) \in R \cup Added(h, g)
            /\ \A y \in DOMAIN h : Free(h, y) => Free(g, y)
<1> DEFINE v == OfType(t)
<1>1. v \in Created
  BY DEF Created
<1>2. h \in Seq(Variables) /\ x \in DOMAIN h /\ h[x] \in Variables
  BY HeapType DEF Sound, Region
<1>3. CASE Has(h[x], e)
  <2>1. next(h, x, e, t) = h
    BY <1>3 DEF next
  <2>2. Get(h[x], e) \in R
    BY <1>2, <1>3, HasGet DEF Sound, Region
  <2> QED  BY <1>2, <2>1, <2>2, GrowsItself
<1>4. CASE ~Has(h[x], e) /\ e.index
  <2>1. next(h, x, e, t) = filled(h, x, e, v)
    BY <1>4 DEF next
  <2> HIDE DEF v
  <2> QED  BY <1>1, <1>4, <2>1, FilledGrows
<1>5. CASE ~Has(h[x], e) /\ ~e.index
  <2> DEFINE l == Len(h)
             y == l + 1
             w == put(h[x], e, y)
             ext == <<v>>
             new == {y}
             g == [h EXCEPT ![x] = w] \o ext
  <2>a. next(h, x, e, t) = Append([h EXCEPT ![x] = w], v)
    BY <1>5 DEF next
  <2>b. l \in Nat /\ DOMAIN h = 1 .. l
    BY <1>2, LenProperties
  <2>c. v \in Variables /\ Children(v) = {} /\ Distinct(v, sh)
    BY <1>1, CreatedDistinct
  <2>d. y \in Nat /\ y \notin 1 .. l /\ y \notin DOMAIN h
    BY <2>b
  <2> HIDE DEF v
  <2>e. ext \in Seq(Variables) /\ Len(ext) = 1 /\ DOMAIN ext = {1} /\ ext[1] = v
    BY <2>c
  <2>f. Free(h, y)
    <3> HIDE DEF y
    <3> QED  BY <2>d DEF Sound, Linked, Free
  <2>1. /\ w \in Variables /\ Has(w, e) /\ Get(w, e) = y
        /\ Children(w) \subseteq Children(h[x]) \cup {y}
        /\ Distinct(h[x], sh) /\ (y \in sh \/ y \notin Children(h[x])) => Distinct(w, sh)
    <3> HIDE DEF y
    <3> QED  BY <1>2, <1>5, <2>d, PutElement
  <2>2. Distinct(w, sh)
    BY <1>2, <2>f, <2>1 DEF Sound, Unique, Free
  <2>3. w \in Variables
    BY <2>1
  <2> HIDE DEF w
  <2>4. next(h, x, e, t) = g
    <3> DEFINE f == [h EXCEPT ![x] = w]
    <3>1. f \in Seq(Variables)
      <4>1. h \in [1 .. l -> Variables]
        BY <1>2, LenProperties
      <4>2. f \in [1 .. l -> Variables]
        BY <2>3, <4>1
      <4> HIDE DEF f, l
      <4> QED  BY <2>b, <4>2, IsASeq
    <3>2. Append(f, v) = f \o <<v>>
      <4> HIDE DEF f
      <4> QED  BY <2>c, <3>1, AppendIsConcat
    <3> QED  BY <2>a, <3>2
  <2>5. \A i \in DOMAIN ext : Children(ext[i]) = {} /\ Distinct(ext[i], sh)
    BY <2>c, <2>e
  <2>6. new \subseteq R \cup (Len(h) + 1 .. Len(h) + Len(ext))
    <3> HIDE DEF ext
    <3> QED  BY <2>b, <2>e
  <2>7. /\ \A z \in new : z \in sh \/ Free(h, z)
        /\ Children(w) \subseteq Children(h[x]) \cup new
    BY <2>f, <2>1
  <2>8. ext \in Seq(Variables) /\ Len(ext) = 1
    BY <2>e
  <2> HIDE DEF ext, new
  <2>9. /\ Grows(h, g, R, sh) /\ g[x] = w /\ x \in DOMAIN g /\ g \in Seq(Variables)
        /\ Len(g) = Len(h) + Len(ext)
        /\ \A z : Free(h, z) /\ z \notin new => Free(g, z)
    BY <2>2, <2>3, <2>5, <2>6, <2>7, <2>8, Change
  <2> HIDE DEF g
  <2>10. \A z \in DOMAIN h : Free(h, z) => Free(g, z)
    BY <2>d, <2>9 DEF new
  <2>11. y \in Added(h, g)
    BY <2>b, <2>8, <2>9 DEF Added
  <2> HIDE DEF y
  <2> QED  BY <2>1, <2>4, <2>9, <2>10, <2>11
<1> QED  BY <1>3, <1>4, <1>5

\* The end of set.
LEMMA LastGrows ==
  ASSUME NEW R, NEW sh, NEW h, NEW x \in R, NEW e \in Elements, NEW value \in R,
         Sound(h, R, sh), value \in sh \/ Free(h, value)
  PROVE  LET g == last(h, x, e, value) IN Grows(h, g, R, sh) /\ g \in Seq(Variables)
<1>1. h \in Seq(Variables) /\ x \in DOMAIN h /\ h[x] \in Variables /\ value \in DOMAIN h /\ value \in Nat
  BY HeapType DEF Sound, Region
<1>2. CASE e.index /\ ~Has(h[x], e)
  <2> DEFINE f == filled(h, x, e, Void)
             Q == R \cup Added(h, f)
             v == f[x]
             b == v.arrayValue
             c == <<value>>
             w == [v EXCEPT !.arrayValue = @ \o c]
             g == [f EXCEPT ![x] = w]
  <2>1. /\ Grows(h, f, R, sh) /\ x \in DOMAIN f /\ f \in Seq(Variables)
        /\ \A y \in DOMAIN h : Free(h, y) => Free(f, y)
    <3>1. Void \in Created
      BY DEF Created
    <3> QED  BY <1>2, <3>1, FilledGrows
  <2>2. last(h, x, e, value) = [f EXCEPT ![x].arrayValue = Append(@, value)]
    BY <1>2 DEF last
  <2> HIDE DEF f
  <2>3. v \in Variables /\ b \in Seq(Nat)
    BY <2>1, HeapType DEF Variables
  <2>4. Append(b, value) = b \o c
    <3> HIDE DEF b
    <3> QED  BY <1>1, <2>3, AppendIsConcat
  <2>5. last(h, x, e, value) = g
    BY <2>2, <2>4
  <2>6. Sound(f, Q, sh) /\ x \in Q /\ value \in Q /\ (value \in sh \/ Free(f, value))
    BY <1>1, <2>1 DEF Grows
  <2>7. c \in Seq(Nat) /\ DOMAIN c = {1} /\ c[1] = value /\ ToSet(c) = {value}
    BY <1>1 DEF ToSet
  <2>8. Distinct(v, sh) /\ (value \in sh \/ value \notin Children(v))
    BY <2>1, <2>6 DEF Sound, Unique, Free
  <2> HIDE DEF c
  <2>9. w \in Variables /\ Children(w) \subseteq Children(v) \cup {value} /\ Distinct(w, sh)
    <3> HIDE DEF v
    <3>1. \A i, j \in DOMAIN c : c[i] = c[j] => i = j
      BY <2>7
    <3>2. \A i \in DOMAIN c : c[i] \in sh \/ c[i] \notin Children(v)
      BY <2>7, <2>8
    <3> QED  BY <2>3, <2>7, <2>8, <3>1, <3>2, MoreElements
  <2> HIDE DEF w
  <2>10. Grows(f, g, Q, sh) /\ Len(g) = Len(f) /\ g \in Seq(Variables)
    <3> HIDE DEF Q
    <3> QED  BY <2>6, <2>9, ChangeGrows
  <2> HIDE DEF g
  <2>11. Grows(h, g, R, sh)
    BY <1>1, <2>1, <2>10, GrowsTwice
  <2> QED  BY <2>5, <2>10, <2>11
<1>3. CASE ~e.index \/ Has(h[x], e)
  <2> DEFINE w == put(h[x], e, value)
             g == [h EXCEPT ![x] = w]
  <2>1. last(h, x, e, value) = g
    BY <1>3 DEF last
  <2>2. /\ w \in Variables /\ Children(w) \subseteq Children(h[x]) \cup {value}
        /\ Distinct(h[x], sh) /\ (value \in sh \/ value \notin Children(h[x])) => Distinct(w, sh)
    BY <1>1, <1>3, PutElement
  <2>3. Distinct(w, sh)
    BY <1>1, <2>2 DEF Sound, Unique, Free
  <2> HIDE DEF w
  <2>4. Grows(h, g, R, sh) /\ Len(g) = Len(h) /\ g \in Seq(Variables)
    BY <2>2, <2>3, ChangeGrows
  <2> QED  BY <2>1, <2>4
<1> QED  BY <1>2, <1>3

\* The type of an element of the path that is created.
TypeFor(e) == IF e.index THEN "tArray" ELSE "tStruct"

\* f is the heap and currentMessage before the loop of set comes to each element.
Turns(f, h, m, elements) ==
  /\ f[0] = [heap |-> h, current |-> m]
  /\ \A i \in 1 .. Len(elements) - 1 :
       LET g == next(f[i - 1].heap, f[i - 1].current, elements[i], TypeFor(elements[i + 1]))
       IN f[i] = [heap |-> g, current |-> Get(g[f[i - 1].current], elements[i])]

\* Where the loop may come to.
Stages(h, R, sh, value) ==
  {s \in [heap : Seq(Variables), current : Nat] :
     /\ Grows(h, s.heap, R, sh) /\ s.current \in R \cup Added(h, s.heap)
     /\ value \in sh \/ Free(s.heap, value)}

\* set, in a heap that is sound.
LEMMA AssignedTurns ==
  ASSUME NEW R, NEW sh, NEW h, NEW m \in R, NEW elements \in Seq(Elements), elements # <<>>,
         NEW value \in R, Sound(h, R, sh), value \in sh \/ Free(h, value)
  PROVE  \E f \in [0 .. Len(elements) - 1 -> Stages(h, R, sh, value)] :
           /\ Turns(f, h, m, elements)
           /\ LET end == f[Len(elements) - 1]
              IN assigned(h, m, elements, value) = last(end.heap, end.current, elements[Len(elements)], value)
<1> DEFINE n == Len(elements)
           top == n - 1
           S == Stages(h, R, sh, value)
           first == [heap |-> h, current |-> m]
           t(i) == TypeFor(elements[i + 1])
           after(s, i) == next(s.heap, s.current, elements[i], t(i))
           turn(s, i) == [heap |-> after(s, i), current |-> Get(after(s, i)[s.current], elements[i])]
           Def(f) == [i \in 0 .. top |-> IF i = 0 THEN first ELSE turn(f[i - 1], i)]
           before == CHOOSE f : f = Def(f)
<1>1. /\ h \in Seq(Variables) /\ DOMAIN h = 1 .. Len(h) /\ m \in Nat /\ value \in DOMAIN h
      /\ R \subseteq DOMAIN h /\ Len(h) \in Nat
  BY HeapType DEF Sound, Region
<1>2. n \in Nat /\ \A i \in 1 .. n : elements[i] \in Elements
  BY LenProperties, ElementOfSeq
<1>3. first \in S
  BY <1>1, GrowsItself DEF Stages
<1>4. ASSUME NEW s \in S, NEW i \in 1 .. n PROVE turn(s, i) \in S
  <2> DEFINE g == s.heap
             x == s.current
             e == elements[i]
             k == next(g, x, e, t(i))
             Q == R \cup Added(h, g)
  <2>1. /\ Grows(h, g, R, sh) /\ x \in Q /\ g \in Seq(Variables) /\ x \in Nat
        /\ value \in sh \/ Free(g, value)
    BY DEF Stages
  <2>2. Sound(g, Q, sh) /\ e \in Elements /\ t(i) \in {"tArray", "tStruct"} /\ Len(h) <= Len(g)
    BY <1>2, <2>1 DEF Grows, TypeFor
  <2>3. value \in DOMAIN g
    BY <1>1, <2>1, <2>2, HeapType
  <2>a. turn(s, i) = [heap |-> k, current |-> Get(k[x], e)]
    OBVIOUS
  <2> HIDE DEF g, x, e, t, Q, turn, S
  <2>4. /\ Grows(g, k, Q, sh) /\ k \in Seq(Variables)
        /\ Get(k[x], e) \in Q \cup Added(g, k)
        /\ \A y \in DOMAIN g : Free(g, y) => Free(k, y)
    BY <2>1, <2>2, NextGrows
  <2> HIDE DEF k
  <2>5. Grows(h, k, R, sh)
    BY <1>1, <2>1, <2>4, GrowsTwice DEF Q
  <2>6. Q \cup Added(g, k) = R \cup Added(h, k)
    <3>1. Len(g) \in Nat /\ Len(k) \in Nat /\ Len(g) <= Len(k)
      BY <2>1, <2>4, LenProperties DEF Grows
    <3>2. Added(h, g) \cup Added(g, k) = Added(h, k)
      BY <1>1, <2>2, <3>1 DEF Added
    <3> QED  BY <3>2 DEF Q
  <2>7. Get(k[x], e) \in R \cup Added(h, k)
    BY <2>4, <2>6
  <2>8. Get(k[x], e) \in Nat
    <3>1. R \cup Added(h, k) \subseteq DOMAIN k /\ DOMAIN k = 1 .. Len(k)
      BY <2>4, <2>5, HeapType DEF Grows, Sound, Region
    <3> QED  BY <2>7, <3>1
  <2>9. value \in sh \/ Free(k, value)
    BY <2>1, <2>3, <2>4
  <2> QED  BY <2>a, <2>4, <2>5, <2>7, <2>8, <2>9 DEF S, Stages
<1>5. n # 0 /\ top \in Nat /\ n - 1 = top /\ \A i \in 1 .. top : i \in 1 .. n
  <2>1. n # 0
    BY EmptySeq
  <2> QED  BY <1>2, <2>1
<1> DEFINE step == [p \in (1 .. top) \X S |-> turn(p[2], p[1])]
<1>6. step \in [(1 .. top) \X S -> S]
  <2> HIDE DEF S, turn, n, top
  <2> QED  BY <1>4, <1>5
<1>7. \A i \in 1 .. top, s \in S : step[<<i, s>>] = turn(s, i)
  <2> HIDE DEF S, turn, n, top
  <2> QED  OBVIOUS
<1> HIDE DEF step, S, first, n, top
<1>8. PICK f \in [0 .. top -> S] : Iterates(f, top, first, step)
  BY <1>3, <1>5, <1>6, Iteration
<1>9. f[0] = first /\ \A i \in 1 .. top : f[i] = step[<<i, f[i - 1]>>]
  BY <1>8 DEF Iterates
<1> HIDE DEF turn
<1>10. ASSUME NEW i \in 1 .. top PROVE f[i] = turn(f[i - 1], i)
  <2>1. i - 1 \in 0 .. top
    BY <1>5
  <2> QED  BY <1>7, <1>9, <2>1
<1>11. f = Def(f)
  <2>1. \A i \in 0 .. top : i = 0 \/ i \in 1 .. top
    BY <1>5
  <2>2. \A i \in 0 .. top : f[i] = IF i = 0 THEN first ELSE turn(f[i - 1], i)
    BY <1>9, <1>10, <2>1
  <2> QED  BY <1>9, <2>2
<1>12. before = Def(before)
  BY <1>11
<1> HIDE DEF before
<1>13. before[0] = first /\ \A i \in 1 .. top : before[i] = turn(before[i - 1], i)
  BY <1>5, <1>12
<1>14. f[top] = before[top]
  <2> HIDE DEF Def
  <2>1. SameSteps(f, before, top)
    BY <1>9, <1>10, <1>13 DEF SameSteps
  <2>2. \A i \in 0 .. top : f[i] = before[i]
    BY <1>5, <2>1, IterationsAgree
  <2>3. top \in 0 .. top
    BY <1>5
  <2> QED  BY <2>2, <2>3
<1>15. assigned(h, m, elements, value)
         = last(before[top].heap, before[top].current, elements[n], value)
  BY <1>5 DEF assigned, before, turn, first, n, top, TypeFor
<1>16. Turns(f, h, m, elements)
  BY <1>9, <1>10 DEF Turns, turn, first, n, top
<1> QED  BY <1>8, <1>14, <1>15, <1>16 DEF S, n, top

LEMMA AssignedGrows ==
  ASSUME NEW R, NEW sh, NEW h, NEW m \in R, NEW elements \in Seq(Elements), NEW value \in R,
         Sound(h, R, sh), value \in sh \/ Free(h, value)
  PROVE  LET g == assigned(h, m, elements, value) IN Grows(h, g, R, sh) /\ g \in Seq(Variables)
<1>1. CASE elements = <<>>
  <2>1. Len(elements) = 0
    BY <1>1
  <2> QED  BY <2>1, GrowsItself DEF assigned, Sound
<1>2. CASE elements # <<>>
  <2> DEFINE n == Len(elements)
             top == n - 1
  <2>1. n \in 1 .. n /\ top \in 0 .. top /\ elements[n] \in Elements
    <3>1. n \in Nat /\ n # 0
      BY <1>2, LenProperties, EmptySeq
    <3>2. n \in 1 .. n /\ top \in 0 .. top
      BY <3>1
    <3> QED  BY <3>2, ElementOfSeq
  <2>2. PICK f \in [0 .. top -> Stages(h, R, sh, value)] :
          /\ Turns(f, h, m, elements)
          /\ LET end == f[top] IN assigned(h, m, elements, value) = last(end.heap, end.current, elements[n], value)
    BY <1>2, AssignedTurns
  <2> DEFINE g == f[top].heap
             x == f[top].current
             e == elements[n]
             k == last(g, x, e, value)
             Q == R \cup Added(h, g)
  <2>3. assigned(h, m, elements, value) = k
    BY <2>2
  <2>4. f[top] \in Stages(h, R, sh, value)
    BY <2>1, <2>2
  <2>5. /\ Grows(h, g, R, sh) /\ x \in Q /\ g \in Seq(Variables)
        /\ value \in sh \/ Free(g, value)
    BY <2>4 DEF Stages
  <2>6. Sound(g, Q, sh) /\ e \in Elements /\ value \in Q /\ h \in Seq(Variables)
    BY <2>1, <2>5 DEF Grows, Sound
  <2> HIDE DEF g, x, e, Q
  <2>7. Grows(g, k, Q, sh) /\ k \in Seq(Variables)
    BY <2>5, <2>6, LastGrows
  <2> HIDE DEF k
  <2>8. Grows(h, k, R, sh)
    BY <2>5, <2>6, <2>7, GrowsTwice DEF Q
  <2> QED  BY <2>3, <2>7, <2>8
<1> QED  BY <1>1, <1>2

-----------------------------------------------------------------------------
(* match and erase *)

\* f are the variables on the way to the last element.
Matches(f, h, R, m, elements) ==
  /\ f \in [0 .. Len(elements) -> R \cup {Null}]
  /\ f[0] = m /\ match(h, m, elements) = f[Len(elements)]
  /\ \A i \in 1 .. Len(elements) :
       f[i] = IF f[i - 1] # Null /\ Has(h[f[i - 1]], elements[i]) THEN Get(h[f[i - 1]], elements[i])
              ELSE Null

LEMMA MatchesExist ==
  ASSUME NEW R, NEW sh, NEW h, NEW m \in R, NEW elements \in Seq(Elements), Sound(h, R, sh)
  PROVE  \E f : Matches(f, h, R, m, elements)
<1> DEFINE n == Len(elements)
           S == R \cup {Null}
           turn(x, i) == IF x # Null /\ Has(h[x], elements[i]) THEN Get(h[x], elements[i]) ELSE Null
           Def(f) == [i \in 0 .. n |-> IF i = 0 THEN m ELSE turn(f[i - 1], i)]
           found == CHOOSE f : f = Def(f)
           step == [p \in (1 .. n) \X S |-> turn(p[2], p[1])]
<1>1. n \in Nat /\ m \in S /\ \A i \in 1 .. n : elements[i] \in Elements
  BY LenProperties, ElementOfSeq
<1>2. ASSUME NEW x \in S, NEW i \in 1 .. n PROVE turn(x, i) \in S
  <2>1. CASE x # Null /\ Has(h[x], elements[i])
    <3>1. x \in R /\ h[x] \in Variables /\ elements[i] \in Elements
      BY <1>1, <2>1, HeapType DEF Sound, Region
    <3>2. Get(h[x], elements[i]) \in Children(h[x])
      BY <2>1, <3>1, HasGet
    <3> QED  BY <2>1, <3>1, <3>2 DEF Sound, Region
  <2> QED  BY <2>1
<1> HIDE DEF turn, S, n
<1>3. step \in [(1 .. n) \X S -> S]
  BY <1>2
<1>4. \A i \in 1 .. n, s \in S : step[<<i, s>>] = turn(s, i)
  OBVIOUS
<1> HIDE DEF step
<1>5. PICK f \in [0 .. n -> S] : Iterates(f, n, m, step)
  BY <1>1, <1>3, Iteration
<1>6. f[0] = m /\ \A i \in 1 .. n : f[i] = turn(f[i - 1], i)
  <2>1. \A i \in 1 .. n : i - 1 \in 0 .. n
    BY <1>1
  <2> QED  BY <1>4, <1>5, <2>1 DEF Iterates
<1>7. f = Def(f)
  <2>1. \A i \in 0 .. n : i = 0 \/ i \in 1 .. n
    BY <1>1
  <2>2. \A i \in 0 .. n : f[i] = IF i = 0 THEN m ELSE turn(f[i - 1], i)
    BY <1>6, <2>1
  <2> QED  BY <2>2
<1>8. found = Def(found)
  BY <1>7
<1> HIDE DEF found
<1>9. found[0] = m /\ \A i \in 1 .. n : found[i] = turn(found[i - 1], i)
  BY <1>1, <1>8
<1>10. \A i \in 0 .. n : f[i] = found[i]
  <2>1. SameSteps(f, found, n)
    BY <1>6, <1>9 DEF SameSteps
  <2> QED  BY <1>1, <2>1, IterationsAgree
<1>11. match(h, m, elements) = found[n]
  BY DEF match, found, turn, n
<1>12. match(h, m, elements) = f[n]
  BY <1>1, <1>10, <1>11
<1>13. f \in [0 .. Len(elements) -> R \cup {Null}]
  BY <1>5 DEF S, n
<1> QED  BY <1>6, <1>12, <1>13 DEF Matches, turn, n

LEMMA MatchStays ==
  ASSUME NEW R, NEW sh, NEW h, NEW m \in R, NEW elements \in Seq(Elements), Sound(h, R, sh)
  PROVE  match(h, m, elements) \in R \cup {Null}
<1>1. Len(elements) \in 0 .. Len(elements)
  BY LenProperties
<1>2. PICK f : Matches(f, h, R, m, elements)
  BY MatchesExist
<1> QED  BY <1>1, <1>2 DEF Matches

\* An element that is found is below the one before it.
LEMMA MatchFront ==
  ASSUME NEW R, NEW sh, NEW h, NEW m \in R, NEW elements \in Seq(Elements), Sound(h, R, sh),
         elements # <<>>, match(h, m, elements) # Null
  PROVE  /\ Front(elements) \in Seq(Elements) /\ Last(elements) \in Elements
         /\ match(h, m, Front(elements)) \in R
         /\ Has(h[match(h, m, Front(elements))], Last(elements))
<1> DEFINE n == Len(elements)
           front == Front(elements)
           top == n - 1
<1>1. /\ n \in Nat /\ top \in Nat /\ n \in 1 .. n
      /\ front \in Seq(Elements) /\ Len(front) = top
      /\ \A i \in 1 .. top : front[i] = elements[i]
      /\ Last(elements) = elements[n] /\ elements[n] \in Elements
  <2>1. n \in Nat /\ n # 0
    BY LenProperties, EmptySeq
  <2>2. n \in 1 .. n /\ n - 1 \in Nat
    BY <2>1
  <2> DEFINE sub == SubSeq(elements, 1, top)
  <2>3. front = sub
    BY DEF Front
  <2>4. top <= n /\ 1 \in Int /\ top \in Int /\ \A i \in 1 .. top : i \in 1 .. n
    BY <2>2
  <2> HIDE DEF top, n, front
  <2>5. \A i \in 1 .. top : elements[i] \in Elements
    BY <2>4, ElementOfSeq DEF n
  <2>6. /\ sub \in Seq(Elements) /\ Len(sub) = IF 1 <= top THEN top - 1 + 1 ELSE 0
        /\ \A i \in 1 .. top - 1 + 1 : sub[i] = elements[1 + i - 1]
    BY <2>4, <2>5, SubSeqProperties
  <2>7. top \in Nat
    BY <2>2 DEF top
  <2> HIDE DEF sub
  <2>8. Len(sub) = top /\ \A i \in 1 .. top : sub[i] = elements[i]
    BY <2>6, <2>7
  <2>9. Last(elements) = elements[n] /\ elements[n] \in Elements
    BY <2>2, ElementOfSeq DEF Last, n
  <2> QED  BY <2>1, <2>2, <2>3, <2>6, <2>7, <2>8, <2>9
<1>a. PICK f : Matches(f, h, R, m, elements)
  BY MatchesExist
<1> HIDE DEF front, n, top
<1>b. PICK g : Matches(g, h, R, m, front)
  BY <1>1, MatchesExist
<1>2. /\ f \in [0 .. n -> R \cup {Null}] /\ match(h, m, elements) = f[n] /\ f[0] = m
      /\ \A i \in 1 .. n :
           f[i] = IF f[i - 1] # Null /\ Has(h[f[i - 1]], elements[i]) THEN Get(h[f[i - 1]], elements[i])
                  ELSE Null
  BY <1>a DEF Matches, n
<1>3. /\ match(h, m, front) = g[top] /\ g[0] = m
      /\ \A i \in 1 .. top :
           g[i] = IF g[i - 1] # Null /\ Has(h[g[i - 1]], front[i]) THEN Get(h[g[i - 1]], front[i])
                  ELSE Null
  BY <1>1, <1>b DEF Matches
<1>4. SameSteps(f, g, top)
  <2>1. \A i \in 1 .. top : i \in 1 .. n
    BY <1>1 DEF top
  <2>2. ASSUME NEW i \in 1 .. top, f[i - 1] = g[i - 1] PROVE f[i] = g[i]
    <3> DEFINE y == f[i - 1]
               e == elements[i]
    <3>1. f[i] = IF y # Null /\ Has(h[y], e) THEN Get(h[y], e) ELSE Null
      BY <1>2, <2>1
    <3>2. g[i] = IF g[i - 1] # Null /\ Has(h[g[i - 1]], front[i]) THEN Get(h[g[i - 1]], front[i]) ELSE Null
      BY <1>3
    <3>3. g[i - 1] = y /\ front[i] = e
      BY <1>1, <2>2
    <3> HIDE DEF y, e
    <3> QED  BY <3>1, <3>2, <3>3
  <2>3. f[0] = g[0]
    BY <1>2, <1>3
  <2> QED  BY <2>2, <2>3 DEF SameSteps
<1>5. match(h, m, front) = f[top]
  <2>1. top \in 0 .. top
    BY <1>1
  <2> QED  BY <1>1, <1>3, <1>4, <2>1, IterationsAgree
<1>6. f[n] = IF f[top] # Null /\ Has(h[f[top]], elements[n]) THEN Get(h[f[top]], elements[n]) ELSE Null
  BY <1>1, <1>2 DEF top
<1>7. f[top] # Null /\ Has(h[f[top]], elements[n])
  BY <1>2, <1>6
<1>8. f[top] \in R
  <2>1. top \in 0 .. n
    BY <1>1 DEF top
  <2> QED  BY <1>2, <1>7, <2>1
<1> QED  BY <1>1, <1>5, <1>7, <1>8 DEF front

\* erase, in a heap that is sound.
LEMMA ErasedGrows ==
  ASSUME NEW R, NEW sh, NEW h, NEW m \in R, NEW elements \in Seq(Elements), Sound(h, R, sh)
  PROVE  LET g == erased(h, m, elements)
         IN Grows(h, g, R, sh) /\ Len(g) = Len(h) /\ g \in Seq(Variables)
<1>1. CASE elements = <<>> \/ match(h, m, elements) = Null
  BY <1>1, GrowsItself DEF erased, Sound
<1>2. CASE ~(elements = <<>> \/ match(h, m, elements) = Null)
  <2> DEFINE x == match(h, m, Front(elements))
             e == Last(elements)
             w == removed(h[x], e)
             g == [h EXCEPT ![x] = w]
             none == <<>>
             k == g \o none
  <2>1. x \in R /\ e \in Elements /\ Has(h[x], e)
    BY <1>2, MatchFront
  <2>2. erased(h, m, elements) = g
    BY <1>2 DEF erased
  <2> HIDE DEF x, e
  <2>3. h \in Seq(Variables) /\ h[x] \in Variables /\ x \in DOMAIN h /\ Distinct(h[x], sh)
    BY <2>1, HeapType DEF Sound, Region, Unique
  <2>4. w \in Variables /\ Children(w) \subseteq Children(h[x]) /\ Distinct(w, sh)
    BY <2>1, <2>3, RemovedElement
  <2> HIDE DEF w
  <2>5. g \in Seq(Variables) /\ Len(g) = Len(h)
    <3>1. h \in [1 .. Len(h) -> Variables] /\ Len(h) \in Nat
      BY <2>3, LenProperties
    <3>2. g \in [1 .. Len(h) -> Variables]
      BY <2>4, <3>1
    <3> QED  BY <3>1, <3>2, IsASeq, LenProperties
  <2>6. k = g
    <3> HIDE DEF g
    <3> QED  BY <2>5, ConcatEmptySeq
  <2> DEFINE new == {}
  <2>7. /\ none \in Seq(Variables) /\ \A i \in DOMAIN none : Children(none[i]) = {} /\ Distinct(none[i], sh)
        /\ Children(w) \subseteq Children(h[x]) \cup new
        /\ new \subseteq R \cup (Len(h) + 1 .. Len(h) + Len(none))
        /\ \A y \in new : y \in sh \/ Free(h, y)
    BY <2>4, EmptySeq
  <2> HIDE DEF none, new
  <2>8. /\ Grows(h, k, R, sh) /\ k[x] = w /\ x \in DOMAIN k /\ k \in Seq(Variables)
        /\ Len(k) = Len(h) + Len(none)
        /\ \A y : Free(h, y) /\ y \notin new => Free(k, y)
    BY <2>1, <2>4, <2>7, Change
  <2> HIDE DEF g, k
  <2> QED  BY <2>2, <2>5, <2>6, <2>8
<1> QED  BY <1>1, <1>2

-----------------------------------------------------------------------------
(* The copy constructor *)

\* SetToSeq leaves nothing out.
LEMMA AllNames ==
  ASSUME NEW D, IsFiniteSet(D)
  PROVE  LET names == SetToSeq(D)
         IN \E c \in Nat : names \in [1 .. c -> D] /\ \A d \in D : \E k \in 1 .. c : names[k] = d
<1> DEFINE c == Cardinality(D)
           I == 1 .. c
           names == CHOOSE f \in [I -> D] : IsInjective(f)
<1>1. c \in Nat /\ Bijection(I, D) # {}
  BY FS_CardinalityType DEF ExistsBijection
<1>2. IsFiniteSet(I) /\ Cardinality(I) = c
  <2> HIDE DEF c
  <2>1. 1 \in Int /\ c \in Int /\ (1 <= c => c - 1 + 1 = c) /\ (~(1 <= c) => c = 0)
    BY <1>1
  <2> QED  BY <2>1, FS_Interval
<1> HIDE DEF I
<1>3. \E f \in [I -> D] : IsInjective(f)
  <2>1. PICK f : f \in Bijection(I, D)
    BY <1>1
  <2> QED  BY <2>1 DEF Bijection, Injection
<1>4. names \in [I -> D] /\ IsInjective(names)
  BY <1>3
<1>5. names = SetToSeq(D)
  BY DEF SetToSeq, I
<1> HIDE DEF names
<1>6. names \in Injection(I, D)
  BY <1>4 DEF Injection
<1>7. names \in Surjection(I, D)
  BY <1>2, <1>6, FS_Injection
<1> HIDE DEF c
<1>8. names \in [1 .. c -> D] /\ \A d \in D : \E k \in 1 .. c : names[k] = d
  BY <1>4, <1>7 DEF Surjection, I
<1> QED  BY <1>1, <1>5, <1>8

\* Variable i gets elements of its own, which are like the ones it had.
LEMMA WithCopies ==
  ASSUME NEW g \in Seq(Variables), NEW i \in DOMAIN g, Children(g[i]) \subseteq DOMAIN g
  PROVE  LET k == withCopies(g, i)
         IN /\ k \in Seq(Variables) /\ Len(g) <= Len(k)
            /\ \A y \in DOMAIN g \ {i} : k[y] = g[y]
            /\ Children(k[i]) \subseteq Len(g) + 1 .. Len(k) /\ Distinct(k[i], {})
            /\ \A y \in Len(g) + 1 .. Len(k) : \E z \in Children(g[i]) : k[y] = g[z]
<1> DEFINE v == g[i]
           b == v.arrayValue
           s == v.structValue
           n == Len(b)
           names == SetToSeq(DOMAIN s)
           d == [k \in DOMAIN names |-> s[names[k]]]
           children == b \o d
           idx(name) == CHOOSE k \in DOMAIN names : names[k] = name
           l == Len(g)
           a == [k \in 1 .. n |-> l + k]
           r == [name \in DOMAIN s |-> l + (n + idx(name))]
           w == [v EXCEPT !.arrayValue = a, !.structValue = r]
           ext == [k \in DOMAIN children |-> g[children[k]]]
           f == [g EXCEPT ![i] = w]
           k == f \o ext
<1>1. withCopies(g, i) = k
  BY DEF withCopies
<1>2. v \in Variables /\ DOMAIN g = 1 .. l /\ l \in Nat /\ i \in 1 .. l
  BY HeapType
<1>3. /\ b \in Seq(Nat) /\ n \in Nat /\ DOMAIN b = 1 .. n /\ s \in Structs
      /\ s \in [DOMAIN s -> Nat] /\ IsFiniteSet(DOMAIN s) /\ DOMAIN s \in SUBSET Seq(Nat)
  <2>1. b \in Seq(Nat) /\ s \in Structs
    BY <1>2 DEF Variables
  <2> HIDE DEF b, s
  <2> QED  BY <2>1, LenProperties DEF Structs
<1>4. /\ \A y \in Children(v) : y \in DOMAIN g
      /\ \A j \in 1 .. n : b[j] \in Children(v)
      /\ \A name \in DOMAIN s : s[name] \in Children(v)
  BY <1>2, <1>3, ChildrenOf
<1> HIDE DEF v, b, s, n, l
<1>5. PICK c \in Nat : /\ names \in [1 .. c -> DOMAIN s]
                       /\ \A name \in DOMAIN s : \E j \in 1 .. c : names[j] = name
  BY <1>3, AllNames
<1> HIDE DEF names
<1>6. \A name \in DOMAIN s : idx(name) \in 1 .. c /\ names[idx(name)] = name
  BY <1>5
<1> HIDE DEF idx
<1>7. d \in Seq(Nat) /\ Len(d) = c /\ \A j \in 1 .. c : d[j] \in Children(v)
  <2>1. d \in [1 .. c -> Nat] /\ \A j \in 1 .. c : d[j] \in Children(v)
    BY <1>3, <1>4, <1>5
  <2> QED  BY <2>1, LenProperties, IsASeq
<1> HIDE DEF d
<1>8. /\ children \in Seq(Nat) /\ Len(children) = n + c /\ DOMAIN children = 1 .. n + c
      /\ \A j \in 1 .. n + c : children[j] \in Children(v)
  <2>1. /\ children \in Seq(Nat) /\ Len(children) = n + c
        /\ \A j \in 1 .. n + c : children[j] = IF j <= n THEN b[j] ELSE d[j - n]
    BY <1>3, <1>7, ConcatProperties DEF n
  <2>2. DOMAIN children = 1 .. n + c
    BY <2>1, LenProperties
  <2> HIDE DEF children
  <2>3. ASSUME NEW j \in 1 .. n + c PROVE children[j] \in Children(v)
    <3>1. CASE j <= n
      <4>1. j \in 1 .. n
        BY <1>3, <3>1
      <4> QED  BY <1>4, <2>1, <3>1, <4>1
    <3>2. CASE ~(j <= n)
      <4>1. j - n \in 1 .. c
        BY <1>3, <3>2
      <4> QED  BY <1>7, <2>1, <3>2, <4>1
    <3> QED  BY <3>1, <3>2
  <2> QED  BY <2>1, <2>2, <2>3
<1> HIDE DEF children
<1>9. ext \in Seq(Variables) /\ Len(ext) = n + c /\ \A j \in 1 .. n + c : ext[j] = g[children[j]]
  <2>1. ext \in [1 .. n + c -> Variables]
    <3>1. \A y \in DOMAIN g : g[y] \in Variables
      BY HeapType
    <3> QED  BY <1>4, <1>8, <3>1
  <2>2. n + c \in Nat
    BY <1>3
  <2>3. \A j \in 1 .. n + c : ext[j] = g[children[j]]
    BY <1>8
  <2> HIDE DEF ext
  <2> QED  BY <2>1, <2>2, <2>3, IsASeq
<1> HIDE DEF ext
<1>10. a \in Seq(Nat) /\ DOMAIN a = 1 .. n /\ \A j \in 1 .. n : a[j] = l + j
  <2>1. a \in [1 .. n -> Nat]
    BY <1>2, <1>3
  <2>2. DOMAIN a = 1 .. n /\ \A j \in 1 .. n : a[j] = l + j
    OBVIOUS
  <2>3. n \in Nat
    BY <1>3
  <2> HIDE DEF a
  <2> QED  BY <2>1, <2>2, <2>3, IsASeq
<1>11. r \in Structs /\ DOMAIN r = DOMAIN s /\ \A name \in DOMAIN s : r[name] = l + (n + idx(name))
  <2>1. DOMAIN r = DOMAIN s /\ r \in [DOMAIN s -> Nat] /\ \A name \in DOMAIN s : r[name] = l + (n + idx(name))
    BY <1>2, <1>3, <1>6
  <2> HIDE DEF r
  <2> QED  BY <1>3, <2>1 DEF Structs
<1> HIDE DEF a, r
<1>12. w \in Variables /\ w.arrayValue = a /\ w.structValue = r
  <2> DEFINE u == [v EXCEPT !.arrayValue = a]
  <2>1. u \in Variables /\ u.arrayValue = a
    BY <1>2, <1>10, WithArray
  <2>2. w = [u EXCEPT !.structValue = r]
    OBVIOUS
  <2> HIDE DEF u, w
  <2> QED  BY <1>11, <2>1, <2>2, WithStruct
<1> HIDE DEF w
<1>13. Children(w) \subseteq l + 1 .. l + (n + c)
  <2>1. \A j \in 1 .. n : l + j \in l + 1 .. l + (n + c)
    BY <1>2, <1>3
  <2>2. \A name \in DOMAIN s : l + (n + idx(name)) \in l + 1 .. l + (n + c)
    BY <1>2, <1>3, <1>6
  <2>3. \A y \in Children(w) : \/ \E j \in DOMAIN a : a[j] = y
                               \/ \E name \in DOMAIN r : r[name] = y
    BY <1>12, ChildrenOf
  <2> QED  BY <1>10, <1>11, <2>1, <2>2, <2>3
<1>14. Distinct(w, {})
  <2>1. \A j, m \in 1 .. n : a[j] = a[m] => j = m
    BY <1>2, <1>3, <1>10
  <2>2. ASSUME NEW name \in DOMAIN s, NEW other \in DOMAIN s, r[name] = r[other] PROVE name = other
    <3>1. l + (n + idx(name)) = l + (n + idx(other))
      BY <1>11, <2>2
    <3>2. idx(name) \in Nat /\ idx(other) \in Nat
      BY <1>6
    <3>3. idx(name) = idx(other)
      BY <1>2, <1>3, <3>1, <3>2
    <3> QED  BY <1>6, <3>3
  <2>3. ASSUME NEW j \in 1 .. n, NEW name \in DOMAIN s PROVE a[j] # r[name]
    <3>1. idx(name) \in Nat /\ idx(name) >= 1
      BY <1>6
    <3>2. a[j] = l + j /\ r[name] = l + (n + idx(name))
      BY <1>10, <1>11
    <3>3. l + j # l + (n + idx(name))
      BY <1>2, <1>3, <3>1
    <3> QED  BY <3>2, <3>3
  <2> QED  BY <1>10, <1>11, <1>12, <2>1, <2>2, <2>3 DEF Distinct
<1>15. f \in Seq(Variables) /\ Len(f) = l /\ f[i] = w /\ \A y \in 1 .. l : y # i => f[y] = g[y]
  <2>1. g \in [1 .. l -> Variables]
    BY LenProperties DEF l
  <2>2. f \in [1 .. l -> Variables]
    BY <1>12, <2>1
  <2> QED  BY <1>2, <2>1, <2>2, LenProperties, IsASeq
<1> HIDE DEF f
<1>16. /\ k \in Seq(Variables) /\ Len(k) = l + (n + c)
       /\ \A y \in 1 .. l + (n + c) : k[y] = IF y <= l THEN f[y] ELSE ext[y - l]
  <2>1. /\ k \in Seq(Variables) /\ Len(k) = Len(f) + Len(ext)
        /\ \A y \in 1 .. Len(f) + Len(ext) : k[y] = IF y <= Len(f) THEN f[y] ELSE ext[y - Len(f)]
    BY <1>9, <1>15, ConcatProperties
  <2> QED  BY <1>9, <1>15, <2>1
<1> HIDE DEF k
<1>17. \A y \in 1 .. l : k[y] = f[y]
  <2>1. \A y \in 1 .. l : y \in 1 .. l + (n + c) /\ y <= l
    BY <1>2, <1>3
  <2> QED  BY <1>16, <2>1
<1>18. ASSUME NEW y \in l + 1 .. l + (n + c) PROVE \E z \in Children(v) : k[y] = g[z]
  <2>1. y \in 1 .. l + (n + c) /\ ~(y <= l) /\ y - l \in 1 .. n + c
    BY <1>2, <1>3
  <2>2. k[y] = g[children[y - l]]
    BY <1>9, <1>16, <2>1
  <2> QED  BY <1>8, <2>1, <2>2
<1>19. l <= l + (n + c)
  BY <1>2, <1>3
<1>20. k[i] = w /\ \A y \in 1 .. l : y # i => k[y] = g[y]
  BY <1>2, <1>15, <1>17
<1> QED  BY <1>1, <1>2, <1>13, <1>14, <1>16, <1>18, <1>19, <1>20 DEF l, v

LEMMA WithCopiesLinked ==
  ASSUME NEW g \in Seq(Variables), Linked(g), NEW i \in DOMAIN g
  PROVE  LET k == withCopies(g, i)
         IN /\ Linked(k) /\ k \in Seq(Variables) /\ Len(g) <= Len(k) /\ Len(g) \in Nat /\ Len(k) \in Nat
            /\ DOMAIN g = 1 .. Len(g) /\ DOMAIN k = 1 .. Len(k)
            /\ \A y \in DOMAIN g \ {i} : k[y] = g[y]
            /\ Children(k[i]) \subseteq Len(g) + 1 .. Len(k) /\ Distinct(k[i], {})
            /\ \A y \in Len(g) + 1 .. Len(k) : \E z \in Children(g[i]) : z \in DOMAIN g /\ k[y] = g[z]
<1> DEFINE k == withCopies(g, i)
           l == Len(g)
           r == Len(k)
<1>0. Children(g[i]) \subseteq DOMAIN g
  BY DEF Linked
<1>1. /\ k \in Seq(Variables) /\ Len(g) <= Len(k)
      /\ \A y \in DOMAIN g \ {i} : k[y] = g[y]
      /\ Children(k[i]) \subseteq Len(g) + 1 .. Len(k) /\ Distinct(k[i], {})
      /\ \A y \in Len(g) + 1 .. Len(k) : \E z \in Children(g[i]) : k[y] = g[z]
  BY <1>0, WithCopies
<1> HIDE DEF k
<1>2. l \in Nat /\ r \in Nat /\ DOMAIN g = 1 .. l /\ DOMAIN k = 1 .. r
  BY <1>1, HeapType
<1>3. \A y \in Len(g) + 1 .. Len(k) : \E z \in Children(g[i]) : z \in DOMAIN g /\ k[y] = g[z]
  BY <1>0, <1>1
<1>4. ASSUME NEW y \in 1 .. r PROVE Children(k[y]) \subseteq 1 .. r
  <2>0. l <= r
    BY <1>1
  <2> HIDE DEF l, r
  <2>a. 1 .. l \subseteq 1 .. r /\ l + 1 .. r \subseteq 1 .. r
    BY <1>2, <2>0
  <2>1. CASE y = i
    BY <1>1, <2>1, <2>a DEF l, r
  <2>2. CASE y \in 1 .. l /\ y # i
    BY <1>1, <1>2, <2>2, <2>a DEF Linked
  <2>3. CASE y \in l + 1 .. r
    BY <1>2, <1>3, <2>3, <2>a DEF Linked, l, r
  <2>4. y \in 1 .. l \/ y \in l + 1 .. r
    BY <1>2
  <2> QED  BY <2>1, <2>2, <2>3, <2>4
<1>5. Linked(k)
  BY <1>2, <1>4 DEF Linked
<1> QED  BY <1>1, <1>2, <1>3, <1>5 DEF k

\* g is h with a copy behind it, of which n variables have elements of their own, further
\* on in the copy.
Copying(h, n, g) ==
  /\ g \in Seq(Variables) /\ Linked(g) /\ Len(h) + 1 <= Len(g)
  /\ \A y \in DOMAIN h : g[y] = h[y]
  /\ \A y \in Len(h) + 1 .. Len(g) :
       IF y <= Len(h) + n THEN Children(g[y]) \subseteq Len(h) + 1 .. Len(g) /\ Distinct(g[y], {})
       ELSE Children(g[y]) \subseteq DOMAIN h
  /\ \A y, z \in Len(h) + 1 .. Len(g) :
       y <= Len(h) + n /\ z <= Len(h) + n /\ y # z => Children(g[y]) \cap Children(g[z]) = {}
  /\ \A y \in Len(h) + 1 .. Len(g) : y <= Len(h) + n => Children(g[y]) \subseteq y + 1 .. Len(g)

LEMMA CopyingOn ==
  ASSUME NEW h \in Seq(Variables), NEW n \in Nat, NEW g, Copying(h, n, g), Linked(h),
         Len(h) + (n + 1) <= Len(g)
  PROVE  Copying(h, n + 1, withCopies(g, Len(h) + (n + 1)))
<1> DEFINE l == Len(h)
           i == l + (n + 1)
           p == Len(g)
           k == withCopies(g, i)
           r == Len(k)
<1>1. l \in Nat /\ DOMAIN h = 1 .. l
  BY HeapType
<1>2. /\ g \in Seq(Variables) /\ Linked(g) /\ l + 1 <= p
      /\ \A y \in 1 .. l : g[y] = h[y]
      /\ \A y \in l + 1 .. p :
           IF y <= l + n THEN Children(g[y]) \subseteq l + 1 .. p /\ Distinct(g[y], {})
           ELSE Children(g[y]) \subseteq 1 .. l
      /\ \A y, z \in l + 1 .. p :
           y <= l + n /\ z <= l + n /\ y # z => Children(g[y]) \cap Children(g[z]) = {}
      /\ \A y \in l + 1 .. p : y <= l + n => Children(g[y]) \subseteq y + 1 .. p
  BY <1>1 DEF Copying
<1>3. p \in Nat /\ DOMAIN g = 1 .. p
  BY <1>2, HeapType
<1>4. i \in l + 1 .. p /\ i \in DOMAIN g /\ ~(i <= l + n)
  <2> HIDE DEF l, p
  <2> QED  BY <1>1, <1>3 DEF i, p, l
<1> HIDE DEF i
<1>5. /\ Linked(k) /\ k \in Seq(Variables) /\ p <= r /\ r \in Nat
      /\ \A y \in 1 .. p : y # i => k[y] = g[y]
      /\ Children(k[i]) \subseteq p + 1 .. r /\ Distinct(k[i], {})
      /\ \A y \in p + 1 .. r : \E z \in Children(g[i]) : z \in DOMAIN g /\ k[y] = g[z]
  <2>1. g \in Seq(Variables) /\ Linked(g) /\ i \in DOMAIN g
    BY <1>2, <1>4
  <2>2. /\ Linked(k) /\ k \in Seq(Variables) /\ Len(g) <= Len(k) /\ Len(g) \in Nat /\ Len(k) \in Nat
        /\ DOMAIN g = 1 .. Len(g) /\ DOMAIN k = 1 .. Len(k)
        /\ \A y \in DOMAIN g \ {i} : k[y] = g[y]
        /\ Children(k[i]) \subseteq Len(g) + 1 .. Len(k) /\ Distinct(k[i], {})
        /\ \A y \in Len(g) + 1 .. Len(k) : \E z \in Children(g[i]) : z \in DOMAIN g /\ k[y] = g[z]
    BY <2>1, WithCopiesLinked
  <2> HIDE DEF k
  <2> QED  BY <2>2
<1> HIDE DEF k, r, p, l
<1>6. Children(g[i]) \subseteq 1 .. l
  BY <1>2, <1>4
<1>7. \A z \in 1 .. l : Children(g[z]) \subseteq 1 .. l
  BY <1>1, <1>2 DEF Linked
<1>8. ASSUME NEW y \in 1 .. l PROVE k[y] = h[y]
  <2>1. y \in 1 .. p /\ y # i
    BY <1>1, <1>2, <1>3, <1>4
  <2> QED  BY <1>2, <1>5, <2>1
<1>9. ASSUME NEW y \in l + 1 .. r, y <= l + (n + 1)
      PROVE  /\ y \in l + 1 .. p
             /\ \/ y = i
                \/ y # i /\ y <= l + n /\ k[y] = g[y] /\ Children(g[y]) \subseteq l + 1 .. p
  <2>1. y = i \/ (y # i /\ y <= l + n)
    BY <1>1, <1>9 DEF i
  <2>2. y \in l + 1 .. p /\ y \in 1 .. p
    BY <1>1, <1>3, <1>4, <1>9 DEF i
  <2> QED  BY <1>2, <1>5, <2>1, <2>2
<1>10. l + 1 .. p \subseteq l + 1 .. r /\ p + 1 .. r \subseteq l + 1 .. r /\ l + 1 <= r
  BY <1>1, <1>2, <1>3, <1>5
<1>11. ASSUME NEW y \in l + 1 .. r, y <= l + (n + 1)
       PROVE  Children(k[y]) \subseteq l + 1 .. r /\ Distinct(k[y], {})
  <2>1. CASE y = i
    BY <1>5, <1>10, <2>1
  <2>2. CASE y # i
    BY <1>2, <1>9, <1>10, <1>11, <2>2
  <2> QED  BY <2>1, <2>2
<1>12. ASSUME NEW y \in l + 1 .. r, ~(y <= l + (n + 1))
       PROVE  Children(k[y]) \subseteq 1 .. l
  <2>1. y # i /\ ~(y <= l + n)
    BY <1>1, <1>12 DEF i
  <2>2. CASE y \in 1 .. p
    <3>1. y \in l + 1 .. p
      BY <1>1, <1>3, <2>2
    <3> QED  BY <1>2, <1>5, <2>1, <2>2, <3>1
  <2>3. CASE ~(y \in 1 .. p)
    <3>1. y \in p + 1 .. r
      BY <1>1, <1>3, <1>5, <2>3
    <3> QED  BY <1>5, <1>6, <1>7, <3>1
  <2> QED  BY <2>2, <2>3
<1>13. ASSUME NEW y \in l + 1 .. r, NEW z \in l + 1 .. r,
              y <= l + (n + 1), z <= l + (n + 1), y # z
       PROVE  Children(k[y]) \cap Children(k[z]) = {}
  <2>1. \A x \in l + 1 .. p : x \notin p + 1 .. r
    BY <1>1, <1>3
  <2>2. CASE y = i
    <3>1. k[z] = g[z] /\ Children(g[z]) \subseteq l + 1 .. p
      BY <1>9, <1>13, <2>2
    <3> QED  BY <1>5, <2>1, <2>2, <3>1
  <2>3. CASE z = i
    <3>1. k[y] = g[y] /\ Children(g[y]) \subseteq l + 1 .. p
      BY <1>9, <1>13, <2>3
    <3> QED  BY <1>5, <2>1, <2>3, <3>1
  <2>4. CASE y # i /\ z # i
    <3>1. y <= l + n /\ k[y] = g[y] /\ y \in l + 1 .. p
      BY <1>9, <1>13, <2>4
    <3>2. z <= l + n /\ k[z] = g[z] /\ z \in l + 1 .. p
      BY <1>9, <1>13, <2>4
    <3> QED  BY <1>2, <1>13, <3>1, <3>2
  <2> QED  BY <2>2, <2>3, <2>4
<1>a. ASSUME NEW y \in l + 1 .. r, y <= l + (n + 1)
      PROVE  Children(k[y]) \subseteq y + 1 .. r
  <2>1. CASE y = i
    <3>1. p + 1 .. r \subseteq i + 1 .. r
      BY <1>1, <1>3, <1>4
    <3> QED  BY <1>5, <2>1, <3>1
  <2>2. CASE y # i
    <3>1. k[y] = g[y] /\ y <= l + n /\ y \in l + 1 .. p
      BY <1>9, <1>a, <2>2
    <3>2. y + 1 .. p \subseteq y + 1 .. r
      BY <1>1, <1>3, <1>5
    <3> QED  BY <1>2, <3>1, <3>2
  <2> QED  BY <2>1, <2>2
<1>14. Copying(h, n + 1, k)
  <2>1. k \in Seq(Variables) /\ Linked(k) /\ l + 1 <= r /\ \A y \in DOMAIN h : k[y] = h[y]
    BY <1>1, <1>5, <1>8, <1>10
  <2>2. \A y \in l + 1 .. r :
          IF y <= l + (n + 1) THEN Children(k[y]) \subseteq l + 1 .. r /\ Distinct(k[y], {})
          ELSE Children(k[y]) \subseteq DOMAIN h
    BY <1>1, <1>11, <1>12
  <2>3. \A y, z \in l + 1 .. r :
          y <= l + (n + 1) /\ z <= l + (n + 1) /\ y # z => Children(k[y]) \cap Children(k[z]) = {}
    BY <1>13
  <2>4. \A y \in l + 1 .. r : y <= l + (n + 1) => Children(k[y]) \subseteq y + 1 .. r
    BY <1>a
  <2> QED  BY <2>1, <2>2, <2>3, <2>4 DEF Copying, l, r
<1> QED  BY <1>14 DEF k, i, l

LEMMA CopyingStarts ==
  ASSUME NEW h \in Seq(Variables), Linked(h), NEW x \in DOMAIN h
  PROVE  Copying(h, 0, Append(h, h[x]))
<1> DEFINE l == Len(h)
           v == h[x]
           g == Append(h, v)
<1>1. l \in Nat /\ DOMAIN h = 1 .. l /\ v \in Variables
  BY HeapType
<1>2. Children(v) \subseteq 1 .. l /\ \A y \in 1 .. l : Children(h[y]) \subseteq 1 .. l
  BY <1>1 DEF Linked
<1> HIDE DEF v
<1>3. /\ g \in Seq(Variables) /\ Len(g) = l + 1 /\ g[l + 1] = v
      /\ \A y \in 1 .. l : g[y] = h[y]
  BY <1>1, AppendProperties
<1> HIDE DEF g
<1>4. DOMAIN g = 1 .. l + 1
  BY <1>3, LenProperties
<1> HIDE DEF l
<1>5. \A y \in 1 .. l + 1 : y \in 1 .. l \/ y = l + 1
  BY <1>1
<1>6. 1 .. l \subseteq 1 .. l + 1 /\ \A y \in l + 1 .. l + 1 : y = l + 1 /\ ~(y <= l + 0)
  BY <1>1
<1>7. Linked(g)
  BY <1>2, <1>3, <1>4, <1>5, <1>6 DEF Linked
<1>8. \A y \in l + 1 .. l + 1 : Children(g[y]) \subseteq DOMAIN h
  BY <1>1, <1>2, <1>3, <1>6
<1>9. l + 1 <= l + 1
  BY <1>1
<1> QED  BY <1>1, <1>3, <1>6, <1>7, <1>8, <1>9 DEF Copying, l, g, v

\* A copy that is complete, behind a heap that is sound.
LEMMA CopyIsSound ==
  ASSUME NEW h \in Seq(Variables), Linked(h), NEW sh, Unique(h, sh), NEW n \in Nat, NEW g,
         Copying(h, n, g), Len(g) <= Len(h) + n
  PROVE  /\ g \in Seq(Variables) /\ Linked(g) /\ Unique(g, sh)
         /\ Region(g, Len(h) + 1 .. Len(g)) /\ Len(h) + 1 <= Len(g)
         /\ \A y \in DOMAIN h : g[y] = h[y]
<1> DEFINE l == Len(h)
           p == Len(g)
<1>1. /\ l \in Nat /\ p \in Nat /\ DOMAIN h = 1 .. l /\ DOMAIN g = 1 .. p
      /\ g \in Seq(Variables) /\ Linked(g) /\ l + 1 <= p
      /\ \A y \in 1 .. l : g[y] = h[y]
      /\ \A y \in 1 .. l : Children(h[y]) \subseteq 1 .. l
  BY HeapType DEF Copying, Linked
<1>2. \A y \in l + 1 .. p : y <= l + n
  <2> HIDE DEF l, p
  <2>1. p <= l + n
    BY DEF l, p
  <2> QED  BY <1>1, <2>1
<1>3. /\ \A y \in l + 1 .. p : Children(g[y]) \subseteq l + 1 .. p /\ Distinct(g[y], {})
      /\ \A y, z \in l + 1 .. p : y # z => Children(g[y]) \cap Children(g[z]) = {}
  BY <1>2 DEF Copying
<1> HIDE DEF l, p
<1>4. /\ \A y \in 1 .. p : y \in 1 .. l \/ y \in l + 1 .. p
      /\ l + 1 .. p \subseteq 1 .. p
      /\ \A y \in 1 .. l : y \notin l + 1 .. p
  BY <1>1
<1>5. Region(g, l + 1 .. p)
  BY <1>1, <1>3, <1>4 DEF Region
<1>6. \A y \in l + 1 .. p : Distinct(g[y], sh)
  BY <1>3 DEF Distinct
<1>7. \A y \in 1 .. l : Distinct(g[y], sh)
  BY <1>1 DEF Unique
<1>8. ASSUME NEW y \in 1 .. p, NEW z \in 1 .. p, y # z
      PROVE  Children(g[y]) \cap Children(g[z]) \subseteq sh
  <2>1. CASE y \in 1 .. l /\ z \in 1 .. l
    BY <1>1, <1>8, <2>1 DEF Unique
  <2>2. CASE y \in 1 .. l /\ z \in l + 1 .. p
    BY <1>1, <1>3, <1>4, <2>2
  <2>3. CASE y \in l + 1 .. p /\ z \in 1 .. l
    BY <1>1, <1>3, <1>4, <2>3
  <2>4. CASE y \in l + 1 .. p /\ z \in l + 1 .. p
    BY <1>3, <1>8, <2>4
  <2> QED  BY <1>4, <2>1, <2>2, <2>3, <2>4
<1>9. Unique(g, sh)
  BY <1>1, <1>4, <1>6, <1>7, <1>8 DEF Unique
<1> QED  BY <1>1, <1>5, <1>9 DEF l, p

\* The copy constructor goes on until each variable of the copy has had its turn.
LEMMA CopiedCopying ==
  ASSUME NEW h \in Seq(Variables), Linked(h), NEW x \in DOMAIN h
  PROVE  Copying(h, MaxCopied, copied(h, x))
<1> DEFINE n == MaxCopied
           l == Len(h)
           first == Append(h, h[x])
           turn(g, i) == IF l + i <= Len(g) THEN withCopies(g, l + i) ELSE g
           Def(f) == [i \in 0 .. n |-> IF i = 0 THEN first ELSE turn(f[i - 1], i)]
           grown == CHOOSE f : f = Def(f)
           S == {g \in Seq(Variables) : Linked(g)}
           step == [p \in (1 .. n) \X S |-> turn(p[2], p[1])]
<1>1. n \in Nat /\ l \in Nat
  BY MessagesAssumption, HeapType
<1>2. Copying(h, 0, first)
  BY CopyingStarts
<1> HIDE DEF n, first
<1>3. first \in S
  BY <1>2 DEF Copying
<1>4. ASSUME NEW g \in S, NEW i \in 1 .. n PROVE turn(g, i) \in S
  <2>1. CASE l + i <= Len(g)
    <3>1. l + i \in DOMAIN g
      <4>1. Len(g) \in Nat /\ DOMAIN g = 1 .. Len(g)
        BY LenProperties
      <4> DEFINE p == Len(g)
      <4>2. p \in Nat /\ l + i <= p
        BY <2>1, <4>1
      <4> HIDE DEF l, p
      <4>3. l + i \in 1 .. p
        BY <1>1, <4>2
      <4> QED  BY <4>1, <4>3 DEF p
    <3> DEFINE j == l + i
    <3>2. j \in DOMAIN g /\ g \in Seq(Variables) /\ Linked(g) /\ turn(g, i) = withCopies(g, j)
      BY <2>1, <3>1
    <3> HIDE DEF j, turn
    <3>3. withCopies(g, j) \in Seq(Variables) /\ Linked(withCopies(g, j))
      BY <3>2, WithCopiesLinked
    <3> QED  BY <3>2, <3>3
  <2> QED  BY <2>1
<1> HIDE DEF turn, S
<1>5. step \in [(1 .. n) \X S -> S] /\ \A i \in 1 .. n, g \in S : step[<<i, g>>] = turn(g, i)
  BY <1>4
<1> HIDE DEF step
<1>6. PICK f \in [0 .. n -> S] : Iterates(f, n, first, step)
  BY <1>1, <1>3, <1>5, Iteration
<1>7. f = Def(f)
  <2>1. \A i \in 0 .. n : i = 0 \/ i \in 1 .. n
    BY <1>1
  <2>2. \A i \in 1 .. n : i - 1 \in 0 .. n
    BY <1>1
  <2>3. \A i \in 0 .. n : f[i] = IF i = 0 THEN first ELSE turn(f[i - 1], i)
    BY <1>5, <1>6, <2>1, <2>2 DEF Iterates
  <2> QED  BY <2>3
<1>8. grown = Def(grown)
  BY <1>7
<1> HIDE DEF grown
<1>9. grown[0] = first /\ \A i \in 1 .. n : grown[i] = turn(grown[i - 1], i)
  BY <1>1, <1>8
<1>10. copied(h, x) = grown[n]
  BY DEF copied, grown, turn, first, n
<1> DEFINE T == {i \in Nat : i <= n => Copying(h, i, grown[i])}
<1>11. 0 \in T
  BY <1>2, <1>9
<1>12. ASSUME NEW i \in Nat, i \in T PROVE i + 1 \in T
  <2>1. SUFFICES ASSUME i + 1 <= n PROVE Copying(h, i + 1, grown[i + 1])
    OBVIOUS
  <2> DEFINE g == grown[i]
  <2>2. i <= n /\ i + 1 \in 1 .. n /\ (i + 1) - 1 = i
    BY <1>1, <2>1
  <2>3. Copying(h, i, g) /\ grown[i + 1] = turn(g, i + 1)
    BY <1>9, <1>12, <2>2
  <2> HIDE DEF g
  <2>4. CASE l + (i + 1) <= Len(g)
    <3>1. turn(g, i + 1) = withCopies(g, l + (i + 1))
      BY <2>4 DEF turn
    <3> QED  BY <2>3, <2>4, <3>1, CopyingOn
  <2>5. CASE ~(l + (i + 1) <= Len(g))
    <3>1. turn(g, i + 1) = g
      BY <2>5 DEF turn
    <3> DEFINE p == Len(g)
    <3>2. p \in Nat
      BY <2>3, LenProperties DEF Copying
    <3>3. \A y \in l + 1 .. p : y <= l + i /\ y <= l + (i + 1)
      <4>1. ~(l + (i + 1) <= p)
        BY <2>5
      <4> HIDE DEF l, p
      <4> QED  BY <1>1, <3>2, <4>1
    <3>4. Copying(h, i + 1, g)
      BY <2>3, <3>3 DEF Copying
    <3> QED  BY <2>3, <3>1, <3>4
  <2> QED  BY <2>4, <2>5
<1> HIDE DEF T
<1>13. \A i \in Nat : i \in T
  BY <1>11, <1>12, NaturalInduction
<1>14. Copying(h, n, copied(h, x))
  BY <1>1, <1>10, <1>13 DEF T
<1> QED  BY <1>14 DEF n

LEMMA CopiedSound ==
  ASSUME NEW h \in Seq(Variables), Linked(h), NEW x \in DOMAIN h, NEW sh, Unique(h, sh),
         Len(copied(h, x)) <= Len(h) + MaxCopied
  PROVE  LET g == copied(h, x)
         IN /\ g \in Seq(Variables) /\ Linked(g) /\ Unique(g, sh)
            /\ Region(g, Len(h) + 1 .. Len(g)) /\ Len(h) + 1 <= Len(g)
            /\ \A y \in DOMAIN h : g[y] = h[y]
<1> DEFINE g == copied(h, x)
           n == MaxCopied
<1>1. n \in Nat
  BY MessagesAssumption
<1>2. Copying(h, n, g) /\ Len(g) <= Len(h) + n
  BY CopiedCopying
<1> HIDE DEF g, n
<1>3. /\ g \in Seq(Variables) /\ Linked(g) /\ Unique(g, sh)
      /\ Region(g, Len(h) + 1 .. Len(g)) /\ Len(h) + 1 <= Len(g)
      /\ \A y \in DOMAIN h : g[y] = h[y]
  BY <1>1, <1>2, CopyIsSound
<1> QED  BY <1>3 DEF g

-----------------------------------------------------------------------------
(* Paths and their strings *)

\* The string s with the element e behind it.
Written(s, e) ==
  CASE e.index             -> s \o <<Open>> \o e.name \o <<Close>>
    [] ~e.index /\ s = <<>> -> e.name
    [] ~e.index /\ s # <<>> -> s \o <<Dot>> \o e.name

\* f are the strings of the first 0, 1, 2, ... elements.
Writes(f, path) ==
  /\ f[0] = <<>> /\ f[Len(path)] = Render(path)
  /\ \A i \in 1 .. Len(path) : f[i] = Written(f[i - 1], path[i])

LEMMA RenderWrites ==
  ASSUME NEW path \in Seq(Parts)
  PROVE  \E f \in [0 .. Len(path) -> Seq(Nat)] : Writes(f, path)
<1> DEFINE n == Len(path)
           S == Seq(Nat)
           first == <<>>
           turn(s, i) == Written(s, path[i])
           Def(f) == [i \in 0 .. n |-> IF i = 0 THEN first ELSE turn(f[i - 1], i)]
           text == CHOOSE f : f = Def(f)
           step == [p \in (1 .. n) \X S |-> turn(p[2], p[1])]
<1>1. n \in Nat /\ first \in S /\ \A i \in 1 .. n : path[i].name \in S
  <2>1. n \in Nat /\ \A i \in 1 .. n : path[i] \in Parts
    BY LenProperties, ElementOfSeq
  <2> HIDE DEF n
  <2> QED  BY <2>1 DEF Parts
<1>2. ASSUME NEW s \in S, NEW i \in 1 .. n PROVE turn(s, i) \in S
  <2> DEFINE e == path[i]
             name == e.name
  <2>1. name \in Seq(Nat)
    BY <1>1
  <2>2. <<Open>> \in Seq(Nat) /\ <<Close>> \in Seq(Nat) /\ <<Dot>> \in Seq(Nat)
    BY DEF Open, Close, Dot
  <2> HIDE DEF name
  <2>3. s \o <<Open>> \in Seq(Nat) /\ s \o <<Dot>> \in Seq(Nat)
    BY <2>2, ConcatProperties
  <2>4. s \o <<Open>> \o name \in Seq(Nat) /\ s \o <<Dot>> \o name \in Seq(Nat)
    BY <2>1, <2>3, ConcatProperties
  <2>5. s \o <<Open>> \o name \o <<Close>> \in Seq(Nat)
    BY <2>2, <2>4, ConcatProperties
  <2> QED  BY <2>1, <2>4, <2>5 DEF name, Written
<1> HIDE DEF turn, S, first, n
<1>3. step \in [(1 .. n) \X S -> S] /\ \A i \in 1 .. n, s \in S : step[<<i, s>>] = turn(s, i)
  BY <1>2
<1> HIDE DEF step
<1>4. PICK f \in [0 .. n -> S] : Iterates(f, n, first, step)
  BY <1>1, <1>3, Iteration
<1>5. f[0] = first /\ \A i \in 1 .. n : f[i] = turn(f[i - 1], i)
  <2>1. \A i \in 1 .. n : i - 1 \in 0 .. n
    BY <1>1
  <2> QED  BY <1>3, <1>4, <2>1 DEF Iterates
<1>6. f = Def(f)
  <2>1. \A i \in 0 .. n : i = 0 \/ i \in 1 .. n
    BY <1>1
  <2>2. \A i \in 0 .. n : f[i] = IF i = 0 THEN first ELSE turn(f[i - 1], i)
    BY <1>5, <2>1
  <2> QED  BY <2>2
<1>7. text = Def(text)
  BY <1>6
<1> HIDE DEF text
<1>8. SameSteps(f, text, n)
  BY <1>1, <1>5, <1>7 DEF SameSteps
<1>9. text[n] = f[n] /\ n \in 0 .. n
  <2>1. n \in 0 .. n
    BY <1>1
  <2> QED  BY <1>1, <1>8, <2>1, IterationsAgree
<1>10. Render(path) = text[n]
  BY DEF Render, text, turn, Written, first, n
<1>11. Writes(f, path)
  BY <1>5, <1>9, <1>10 DEF Writes, turn, first, n
<1> QED  BY <1>4, <1>11 DEF S, n

LEMMA RenderType ==
  ASSUME NEW path \in Seq(Parts)
  PROVE  Render(path) \in Seq(Nat)
<1>1. Len(path) \in 0 .. Len(path)
  BY LenProperties
<1>2. PICK f \in [0 .. Len(path) -> Seq(Nat)] : Writes(f, path)
  BY RenderWrites
<1> QED  BY <1>1, <1>2 DEF Writes

\* Any string that a client passes is read as a sequence of names and indices.
LEMMA ParseType ==
  ASSUME NEW property \in Seq(Nat)
  PROVE  Parse(property) \in Seq(Parts)
<1> DEFINE n == Len(property)
           S == [property : Seq(Parts), current : Seq(Nat), inBrackets : BOOLEAN]
           first == [property |-> <<>>, current |-> <<>>, inBrackets |-> FALSE]
           turn(s, i) == read(s, property[i])
           Def(f) == [i \in 0 .. n |-> IF i = 0 THEN first ELSE turn(f[i - 1], i)]
           before == CHOOSE f : f = Def(f)
           step == [p \in (1 .. n) \X S |-> turn(p[2], p[1])]
<1>1. n \in Nat /\ first \in S /\ \A i \in 1 .. n : property[i] \in Nat
  BY LenProperties, ElementOfSeq
<1>a. ASSUME NEW elements \in Seq(Parts), NEW name \in Seq(Nat)
      PROVE  /\ AddName(elements, name) \in Seq(Parts)
             /\ Append(elements, Element(name, TRUE)) \in Seq(Parts)
  <2>1. Element(name, TRUE) \in Parts /\ Element(name, FALSE) \in Parts
    BY DEF Element, Parts
  <2> QED  BY <2>1, AppendProperties DEF AddName
<1>2. ASSUME NEW s \in S, NEW i \in 1 .. n PROVE turn(s, i) \in S
  <2> DEFINE c == property[i]
             elements == s.property
             name == s.current
             more == AddName(elements, name)
             index == Append(elements, Element(name, TRUE))
  <2>1. elements \in Seq(Parts) /\ name \in Seq(Nat) /\ c \in Nat /\ s.inBrackets \in BOOLEAN
    BY <1>1
  <2>2. more \in Seq(Parts) /\ index \in Seq(Parts)
    BY <1>a, <2>1
  <2>3. Append(name, c) \in Seq(Nat)
    BY <2>1, AppendProperties
  <2>4. CASE c = Open
    <3>1. turn(s, i) = [property |-> more, current |-> <<>>, inBrackets |-> TRUE]
      BY <2>4 DEF read, Open, Close, Dot
    <3> HIDE DEF more, turn
    <3> QED  BY <2>2, <3>1
  <2>5. CASE c = Close
    <3>1. turn(s, i) = [property |-> index, current |-> <<>>, inBrackets |-> FALSE]
      BY <2>5 DEF read, Open, Close, Dot
    <3> HIDE DEF index, turn
    <3> QED  BY <2>2, <3>1
  <2>6. CASE c = Dot /\ ~s.inBrackets
    <3>1. c # Open /\ c # Close
      BY <2>6 DEF Open, Close, Dot
    <3>2. turn(s, i) = [s EXCEPT !.property = more, !.current = <<>>]
      <4>1. turn(s, i) = read(s, c)
        OBVIOUS
      <4> HIDE DEF c, turn, more, index, elements, name
      <4>2. read(s, c) = [s EXCEPT !.property = AddName(@, s.current), !.current = <<>>]
        BY <2>6, <3>1 DEF read
      <4> QED  BY <4>1, <4>2 DEF more, elements, name
    <3> HIDE DEF more, turn, elements, name, index, c
    <3> DEFINE none == <<>>
    <3>3. none \in Seq(Nat) /\ more \in Seq(Parts)
      BY <2>2
    <3>4. turn(s, i) = [s EXCEPT !.property = more, !.current = none]
      BY <3>2
    <3> HIDE DEF none
    <3> QED  BY <3>3, <3>4
  <2>7. CASE c # Open /\ c # Close /\ ~(c = Dot /\ ~s.inBrackets)
    <3>1. turn(s, i) = [s EXCEPT !.current = Append(name, c)]
      BY <2>7 DEF read
    <3> HIDE DEF turn
    <3> QED  BY <2>3, <3>1
  <2> QED  BY <2>4, <2>5, <2>6, <2>7
<1> HIDE DEF turn, S, first, n
<1>3. step \in [(1 .. n) \X S -> S] /\ \A i \in 1 .. n, s \in S : step[<<i, s>>] = turn(s, i)
  BY <1>2
<1> HIDE DEF step
<1>4. PICK f \in [0 .. n -> S] : Iterates(f, n, first, step)
  BY <1>1, <1>3, Iteration
<1>5. f[0] = first /\ \A i \in 1 .. n : f[i] = turn(f[i - 1], i)
  <2>1. \A i \in 1 .. n : i - 1 \in 0 .. n
    BY <1>1
  <2> QED  BY <1>3, <1>4, <2>1 DEF Iterates
<1>6. f = Def(f)
  <2>1. \A i \in 0 .. n : i = 0 \/ i \in 1 .. n
    BY <1>1
  <2>2. \A i \in 0 .. n : f[i] = IF i = 0 THEN first ELSE turn(f[i - 1], i)
    BY <1>5, <2>1
  <2> QED  BY <2>2
<1>7. before = Def(before)
  BY <1>6
<1> HIDE DEF before
<1>8. SameSteps(f, before, n)
  BY <1>1, <1>5, <1>7 DEF SameSteps
<1>9. before[n] \in S
  <2>1. n \in 0 .. n
    BY <1>1
  <2>2. before[n] = f[n]
    BY <1>1, <1>8, <2>1, IterationsAgree
  <2> QED  BY <2>1, <2>2
<1>10. Parse(property) = AddName(before[n].property, before[n].current)
  BY DEF Parse, before, turn, first, n
<1>11. before[n].property \in Seq(Parts) /\ before[n].current \in Seq(Nat)
  BY <1>9 DEF S
<1> QED  BY <1>a, <1>10, <1>11

\* The numbers that std::stoll and stoull read, and the indices that come of them.
LEMMA NumeralType == ASSUME NEW s \in Seq(Nat) PROVE numeral(s) \in Int
<1> DEFINE n == Len(s)
           first == 0
           turn(d, i) == IF s[i] = Minus THEN d ELSE 10 * d + s[i] - 48
           Def(f) == [i \in 0 .. n |-> IF i = 0 THEN first ELSE turn(f[i - 1], i)]
           decimal == CHOOSE f : f = Def(f)
           step == [p \in (1 .. n) \X Int |-> turn(p[2], p[1])]
<1>1. n \in Nat /\ first \in Int /\ \A i \in 1 .. n : s[i] \in Nat
  BY LenProperties, ElementOfSeq
<1>2. ASSUME NEW d \in Int, NEW i \in 1 .. n PROVE turn(d, i) \in Int
  <2>1. s[i] \in Nat
    BY <1>1
  <2> QED  BY <2>1
<1> HIDE DEF turn, first, n
<1>3. step \in [(1 .. n) \X Int -> Int] /\ \A i \in 1 .. n, d \in Int : step[<<i, d>>] = turn(d, i)
  BY <1>2
<1> HIDE DEF step
<1>4. PICK f \in [0 .. n -> Int] : Iterates(f, n, first, step)
  BY <1>1, <1>3, Iteration
<1>5. f[0] = first /\ \A i \in 1 .. n : f[i] = turn(f[i - 1], i)
  <2>1. \A i \in 1 .. n : i - 1 \in 0 .. n
    BY <1>1
  <2> QED  BY <1>3, <1>4, <2>1 DEF Iterates
<1>6. f = Def(f)
  <2>1. \A i \in 0 .. n : i = 0 \/ i \in 1 .. n
    BY <1>1
  <2>2. \A i \in 0 .. n : f[i] = IF i = 0 THEN first ELSE turn(f[i - 1], i)
    BY <1>5, <2>1
  <2> QED  BY <2>2
<1>7. decimal = Def(decimal)
  BY <1>6
<1> HIDE DEF decimal
<1>8. SameSteps(f, decimal, n)
  BY <1>1, <1>5, <1>7 DEF SameSteps
<1>9. decimal[n] \in Int
  <2>1. n \in 0 .. n
    BY <1>1
  <2>2. decimal[n] = f[n]
    BY <1>1, <1>8, <2>1, IterationsAgree
  <2> QED  BY <2>1, <2>2
<1>10. numeral(s) = IF s # <<>> /\ s[1] = Minus THEN -decimal[n] ELSE decimal[n]
  BY DEF numeral, decimal, turn, first, n
<1> QED  BY <1>9, <1>10

LEMMA Square == ASSUME NEW r \in Nat, r >= 1 PROVE r * r \in Nat /\ r * r >= r
<1>1. r - 1 \in Nat
  OBVIOUS
<1>2. (r - 1) * r \in Nat
  BY <1>1
<1>3. (r - 1) * r = r * r - r
  OBVIOUS
<1> QED  BY <1>2, <1>3

LEMMA Ranges == Range32 \in Nat /\ Range64 \in Nat /\ Range32 >= 2 /\ Range64 >= 2 * Range32
<1>1. Radix \in Nat /\ Radix >= 2
  BY MessagesAssumption
<1> DEFINE q == Radix * Radix
<1>2. q \in Nat /\ q >= 2
  BY <1>1, Square
<1>3. Range32 = q * q
  <2>1. Radix * Radix * Radix * Radix = (Radix * Radix) * (Radix * Radix)
    BY <1>1
  <2> QED  BY <2>1 DEF Range32
<1> HIDE DEF q
<1> DEFINE r == q * q
<1>4. r \in Nat /\ r >= 2
  BY <1>2, Square
<1>5. Range32 = r
  BY <1>3
<1> HIDE DEF r
<1>6. r * r \in Nat /\ r * r >= 2 * r
  <2>1. (r - 2) * r \in Nat
    <3>1. r - 2 \in Nat
      BY <1>4
    <3> QED  BY <1>4, <3>1
  <2>2. (r - 2) * r = r * r - 2 * r
    BY <1>4
  <2>3. r * r \in Nat
    BY <1>4
  <2> QED  BY <1>4, <2>1, <2>2, <2>3
<1>7. Range64 = r * r
  BY <1>5 DEF Range64
<1> QED  BY <1>4, <1>5, <1>6, <1>7

LEMMA Indices ==
  ASSUME NEW s \in Seq(Nat)
  PROVE  /\ signedIndex(s) \in Nat /\ unsignedIndex(s) \in Nat
         /\ numeral(s) \in 0 .. Range32 - 1 => signedIndex(s) = unsignedIndex(s)
<1> DEFINE n == numeral(s)
           r == Range32
           q == Range64
<1>1. n \in Int /\ r \in Nat /\ q \in Nat /\ r >= 2 /\ q >= 2 * r
  BY NumeralType, Ranges
<1>2. /\ signedIndex(s) = IF -q <= 2 * n /\ 2 * n < q THEN n % q ELSE 0
      /\ unsignedIndex(s) = IF -q < n /\ n < q THEN n % r ELSE 0
  BY DEF signedIndex, unsignedIndex
<1> HIDE DEF n, r, q
<1>3. n % q \in Nat /\ n % r \in Nat
  <2>1. q > 0 /\ r > 0
    BY <1>1
  <2> QED  BY <1>1, <2>1
<1>4. ASSUME n \in 0 .. r - 1 PROVE signedIndex(s) = unsignedIndex(s)
  <2>1. 0 <= n /\ n < r /\ n < q
    BY <1>1, <1>4
  <2>2. n % q = n /\ n % r = n
    BY <1>1, <2>1
  <2>3. -q <= 2 * n /\ 2 * n < q /\ -q < n
    BY <1>1, <2>1
  <2> QED  BY <1>2, <2>1, <2>2, <2>3
<1> QED  BY <1>2, <1>3, <1>4 DEF n, r

\* What has been read is as long as the path, and the same for match as for erase and
\* set if the indices fit.
LEMMA ReadIndices ==
  ASSUME NEW path \in Seq(Parts)
  PROVE  /\ Matched(path) \in Seq(Elements) /\ Stored(path) \in Seq(Elements)
         /\ Len(Matched(path)) = Len(path) /\ Len(Stored(path)) = Len(path)
         /\ Fits(path) => Matched(path) = Stored(path)
<1>1. DOMAIN path = 1 .. Len(path) /\ Len(path) \in Nat
  BY LenProperties
<1>2. ASSUME NEW i \in DOMAIN path
      PROVE  /\ path[i] \in Parts /\ path[i].name \in Seq(Nat) /\ path[i].index \in BOOLEAN
             /\ Element(<<signedIndex(path[i].name)>>, TRUE) \in Elements
             /\ Element(<<unsignedIndex(path[i].name)>>, TRUE) \in Elements
             /\ ~path[i].index => path[i] \in Elements
  <2>1. path[i] \in Parts
    BY ElementOfSeq, <1>1
  <2>2. path[i].name \in Seq(Nat) /\ path[i].index \in BOOLEAN
    BY <2>1 DEF Parts
  <2>3. ASSUME NEW x \in Nat PROVE Element(<<x>>, TRUE) \in Elements
    <3>1. <<x>> \in Seq(Nat) /\ Len(<<x>>) = 1
      OBVIOUS
    <3> QED  BY <3>1 DEF Element, Elements, Parts
  <2>4. signedIndex(path[i].name) \in Nat /\ unsignedIndex(path[i].name) \in Nat
    BY <2>2, Indices
  <2>5. ~path[i].index => path[i] \in Elements
    BY <2>1 DEF Elements
  <2> QED  BY <2>1, <2>2, <2>3, <2>4, <2>5
<1>3. \A i \in 1 .. Len(path) :
        LET e == path[i]
        IN /\ (IF e.index THEN Element(<<signedIndex(e.name)>>, TRUE) ELSE e) \in Elements
           /\ (IF e.index THEN Element(<<unsignedIndex(e.name)>>, TRUE) ELSE e) \in Elements
  BY <1>1, <1>2
<1>4. /\ Matched(path) \in [1 .. Len(path) -> Elements]
      /\ Stored(path) \in [1 .. Len(path) -> Elements]
  BY <1>1, <1>3 DEF Matched, Stored
<1>5. /\ Matched(path) \in Seq(Elements) /\ Stored(path) \in Seq(Elements)
      /\ Len(Matched(path)) = Len(path) /\ Len(Stored(path)) = Len(path)
  BY <1>1, <1>4
<1>6. ASSUME Fits(path) PROVE Matched(path) = Stored(path)
  <2>1. ASSUME NEW i \in DOMAIN path, path[i].index
        PROVE  signedIndex(path[i].name) = unsignedIndex(path[i].name)
    <3>1. path[i].name \in Seq(Nat)
      BY <1>2
    <3>2. numeral(path[i].name) \in 0 .. Range32 - 1
      BY <1>6, <2>1 DEF Fits
    <3> QED  BY <3>1, <3>2, Indices
  <2> QED  BY <2>1 DEF Matched, Stored
<1> QED  BY <1>5, <1>6

LEMMA PathType ==
  ASSUME NEW path \in Paths
  PROVE  /\ Matched(Parse(Render(path))) \in Seq(Elements)
         /\ Stored(Parse(Render(path))) \in Seq(Elements)
         /\ path \in Seq(Parts)
<1>1. path \in Seq(Parts)
  BY MessagesAssumption DEF Parts
<1>2. Parse(Render(path)) \in Seq(Parts)
  BY <1>1, RenderType, ParseType
<1> QED  BY <1>1, <1>2, ReadIndices

-----------------------------------------------------------------------------
(* What can be reached *)

\* f are the variables that can be reached from x in 0, 1, 2, ... steps.
Spreads(f, h, x) ==
  /\ f[0] = {x} /\ f[Len(h)] = Reach(h, x)
  /\ \A i \in 1 .. Len(h) : f[i] = f[i - 1] \cup UNION {Children(h[y]) : y \in f[i - 1]}

LEMMA ReachSpreads ==
  ASSUME NEW h \in Seq(Variables), NEW R, Region(h, R), NEW x \in R
  PROVE  \E f \in [0 .. Len(h) -> SUBSET R] : Spreads(f, h, x)
<1> DEFINE n == Len(h)
           S == SUBSET R
           first == {x}
           turn(near, i) == near \cup UNION {Children(h[y]) : y \in near}
           Def(f) == [i \in 0 .. n |-> IF i = 0 THEN first ELSE turn(f[i - 1], i)]
           within == CHOOSE f : f = Def(f)
           step == [p \in (1 .. n) \X S |-> turn(p[2], p[1])]
<1>1. n \in Nat /\ first \in S
  BY LenProperties
<1>2. ASSUME NEW near \in S, NEW i \in 1 .. n PROVE turn(near, i) \in S
  BY DEF Region
<1> HIDE DEF turn, S, first, n
<1>3. step \in [(1 .. n) \X S -> S] /\ \A i \in 1 .. n, s \in S : step[<<i, s>>] = turn(s, i)
  BY <1>2
<1> HIDE DEF step
<1>4. PICK f \in [0 .. n -> S] : Iterates(f, n, first, step)
  BY <1>1, <1>3, Iteration
<1>5. f[0] = first /\ \A i \in 1 .. n : f[i] = turn(f[i - 1], i)
  <2>1. \A i \in 1 .. n : i - 1 \in 0 .. n
    BY <1>1
  <2> QED  BY <1>3, <1>4, <2>1 DEF Iterates
<1>6. f = Def(f)
  <2>1. \A i \in 0 .. n : i = 0 \/ i \in 1 .. n
    BY <1>1
  <2>2. \A i \in 0 .. n : f[i] = IF i = 0 THEN first ELSE turn(f[i - 1], i)
    BY <1>5, <2>1
  <2> QED  BY <2>2
<1>7. within = Def(within)
  BY <1>6
<1> HIDE DEF within
<1>8. SameSteps(f, within, n)
  BY <1>1, <1>5, <1>7 DEF SameSteps
<1>9. within[n] = f[n]
  <2>1. n \in 0 .. n
    BY <1>1
  <2> QED  BY <1>1, <1>8, <2>1, IterationsAgree
<1>10. Reach(h, x) = within[n]
  BY DEF Reach, within, turn, first, n
<1>11. Spreads(f, h, x)
  BY <1>5, <1>9, <1>10 DEF Spreads, turn, first, n
<1> QED  BY <1>4, <1>11 DEF S, n

LEMMA ReachStays ==
  ASSUME NEW h \in Seq(Variables), NEW R, Region(h, R), NEW x \in R
  PROVE  Reach(h, x) \subseteq R
<1>1. PICK f \in [0 .. Len(h) -> SUBSET R] : Spreads(f, h, x)
  BY ReachSpreads
<1>2. Len(h) \in 0 .. Len(h)
  BY LenProperties
<1> QED  BY <1>1, <1>2 DEF Spreads

\* Links tells whether a variable is in two places.
LEMMA LinksOnce ==
  ASSUME NEW h \in Seq(Variables), NEW sh, Unique(h, sh), NEW all \in SUBSET DOMAIN h,
         NEW y, y \notin sh
  PROVE  \A p, q \in Links(h, all, y) : p = q
<1>1. ASSUME NEW p \in Links(h, all, y)
      PROVE  \E x \in all :
               /\ y \in Children(h[x])
               /\ \/ \E i \in DOMAIN h[x].arrayValue : p = <<x, i, <<>>>> /\ h[x].arrayValue[i] = y
                  \/ \E n \in DOMAIN h[x].structValue : p = <<x, 0, n>> /\ h[x].structValue[n] = y
  <2>1. PICK x \in all :
          \/ \E i \in DOMAIN h[x].arrayValue : p = <<x, i, <<>>>> /\ h[x].arrayValue[i] = y
          \/ \E n \in DOMAIN h[x].structValue : p = <<x, 0, n>> /\ h[x].structValue[n] = y
    BY DEF Links
  <2>2. h[x] \in Variables
    BY HeapType
  <2> QED  BY <2>1, <2>2, ChildrenOf
<1>2. SUFFICES ASSUME NEW p \in Links(h, all, y), NEW q \in Links(h, all, y) PROVE p = q
  OBVIOUS
<1>3. PICK x \in all :
        /\ y \in Children(h[x])
        /\ \/ \E i \in DOMAIN h[x].arrayValue : p = <<x, i, <<>>>> /\ h[x].arrayValue[i] = y
           \/ \E n \in DOMAIN h[x].structValue : p = <<x, 0, n>> /\ h[x].structValue[n] = y
  BY <1>1
<1>4. PICK z \in all :
        /\ y \in Children(h[z])
        /\ \/ \E i \in DOMAIN h[z].arrayValue : q = <<z, i, <<>>>> /\ h[z].arrayValue[i] = y
           \/ \E n \in DOMAIN h[z].structValue : q = <<z, 0, n>> /\ h[z].structValue[n] = y
  BY <1>1
<1>5. x = z
  BY <1>3, <1>4 DEF Unique
<1>6. Distinct(h[x], sh)
  BY DEF Unique
<1> QED  BY <1>3, <1>4, <1>5, <1>6 DEF Distinct

LEMMA OnceUnique ==
  ASSUME NEW h \in Seq(Variables), Linked(h),
         \A y \in DOMAIN h : \A p, q \in Links(h, DOMAIN h, y) : p = q
  PROVE  Unique(h, {})
<1>1. ASSUME NEW x \in DOMAIN h, NEW i \in DOMAIN h[x].arrayValue
      PROVE  <<x, i, <<>>>> \in Links(h, DOMAIN h, h[x].arrayValue[i])
  BY DEF Links
<1>2. ASSUME NEW x \in DOMAIN h, NEW n \in DOMAIN h[x].structValue
      PROVE  <<x, 0, n>> \in Links(h, DOMAIN h, h[x].structValue[n])
  BY DEF Links
<1>3. \A x \in DOMAIN h :
        /\ h[x] \in Variables /\ Children(h[x]) \subseteq DOMAIN h
        /\ \A i \in DOMAIN h[x].arrayValue : i # 0
  <2>1. \A x \in DOMAIN h : h[x] \in Variables
    BY HeapType
  <2>2. \A v \in Variables : \A i \in DOMAIN v.arrayValue : i # 0
    <3>1. \A v \in Variables : DOMAIN v.arrayValue = 1 .. Len(v.arrayValue) /\ Len(v.arrayValue) \in Nat
      BY LenProperties DEF Variables
    <3> QED  BY <3>1
  <2> QED  BY <2>1, <2>2 DEF Linked
<1>4. ASSUME NEW x \in DOMAIN h PROVE Distinct(h[x], {})
  <2> DEFINE v == h[x]
  <2>1. /\ \A i \in DOMAIN v.arrayValue : v.arrayValue[i] \in DOMAIN h /\ i # 0
        /\ \A n \in DOMAIN v.structValue : v.structValue[n] \in DOMAIN h
    BY <1>3, ChildrenOf
  <2>2. ASSUME NEW i \in DOMAIN v.arrayValue, NEW j \in DOMAIN v.arrayValue,
               v.arrayValue[i] = v.arrayValue[j]
        PROVE  i = j
    <3> DEFINE y == v.arrayValue[i]
    <3>1. <<x, i, <<>>>> \in Links(h, DOMAIN h, y) /\ <<x, j, <<>>>> \in Links(h, DOMAIN h, y)
      BY <1>1, <2>2
    <3>2. <<x, i, <<>>>> = <<x, j, <<>>>>
      BY <2>1, <3>1
    <3> QED  BY <3>2
  <2>3. ASSUME NEW m \in DOMAIN v.structValue, NEW n \in DOMAIN v.structValue,
               v.structValue[m] = v.structValue[n]
        PROVE  m = n
    <3> DEFINE y == v.structValue[m]
    <3>1. <<x, 0, m>> \in Links(h, DOMAIN h, y) /\ <<x, 0, n>> \in Links(h, DOMAIN h, y)
      BY <1>2, <2>3
    <3>2. <<x, 0, m>> = <<x, 0, n>>
      BY <2>1, <3>1
    <3> QED  BY <3>2
  <2>4. ASSUME NEW i \in DOMAIN v.arrayValue, NEW n \in DOMAIN v.structValue,
               v.arrayValue[i] = v.structValue[n]
        PROVE  FALSE
    <3> DEFINE y == v.arrayValue[i]
    <3>1. <<x, i, <<>>>> \in Links(h, DOMAIN h, y) /\ <<x, 0, n>> \in Links(h, DOMAIN h, y)
      BY <1>1, <1>2, <2>4
    <3>2. <<x, i, <<>>>> = <<x, 0, n>>
      BY <2>1, <3>1
    <3> QED  BY <2>1, <3>2
  <2> QED  BY <2>2, <2>3, <2>4 DEF Distinct
<1>5. ASSUME NEW x \in DOMAIN h, NEW z \in DOMAIN h, NEW y \in Children(h[x]), y \in Children(h[z])
      PROVE  x = z
  <2>1. y \in DOMAIN h
    BY <1>3
  <2>2. ASSUME NEW k \in DOMAIN h, y \in Children(h[k])
        PROVE  \E i, n : <<k, i, n>> \in Links(h, DOMAIN h, y)
    <3>1. h[k] \in Variables
      BY <1>3
    <3>2. CASE \E i \in DOMAIN h[k].arrayValue : h[k].arrayValue[i] = y
      BY <1>1, <3>2
    <3>3. CASE \E n \in DOMAIN h[k].structValue : h[k].structValue[n] = y
      BY <1>2, <3>3
    <3> QED  BY <2>2, <3>1, <3>2, <3>3, ChildrenOf
  <2>3. PICK i, n : <<x, i, n>> \in Links(h, DOMAIN h, y)
    BY <2>2
  <2>4. PICK j, m : <<z, j, m>> \in Links(h, DOMAIN h, y)
    BY <1>5, <2>2
  <2>5. <<x, i, n>> = <<z, j, m>>
    BY <2>1, <2>3, <2>4
  <2> QED  BY <2>5
<1> QED  BY <1>4, <1>5 DEF Unique

-----------------------------------------------------------------------------
(* A message and its copy *)

\* R holds one of them, and Q the other.
Apart(h, R, Q, sh) == Sound(h, R, sh) /\ Region(h, Q) /\ R \cap Q = {}

LEMMA ApartSymmetric ==
  ASSUME NEW h, NEW R, NEW Q, NEW sh, Apart(h, R, Q, sh)
  PROVE  Apart(h, Q, R, sh)
BY DEF Apart, Sound

\* What is done to one of them leaves the other alone.
LEMMA StayApart ==
  ASSUME NEW h, NEW R, NEW Q, NEW sh, NEW g \in Seq(Variables), Apart(h, R, Q, sh), Grows(h, g, R, sh)
  PROVE  Apart(g, R \cup Added(h, g), Q, sh)
<1>1. h \in Seq(Variables) /\ DOMAIN h = 1 .. Len(h) /\ Len(h) \in Nat
  BY HeapType DEF Apart, Sound
<1>2. Q \subseteq DOMAIN h \ R /\ \A x \in Q : Children(h[x]) \subseteq Q
  BY DEF Apart, Region
<1>3. \A x \in Q : g[x] = h[x]
  BY <1>2 DEF Grows
<1>4. DOMAIN g = 1 .. Len(g) /\ Len(g) \in Nat /\ Len(h) <= Len(g)
  BY HeapType DEF Grows
<1>5. DOMAIN h \subseteq DOMAIN g
  BY <1>1, <1>4
<1>6. Region(g, Q)
  BY <1>2, <1>3, <1>5 DEF Region
<1>7. \A x \in DOMAIN h : x \notin Added(h, g)
  BY <1>1, <1>4 DEF Added
<1>8. (R \cup Added(h, g)) \cap Q = {}
  BY <1>2, <1>7
<1> QED  BY <1>6, <1>8 DEF Apart, Grows

\* A variable that nobody points to.
LEMMA NewValue ==
  ASSUME NEW h, NEW R, NEW sh, NEW x \in R, Sound(h, R, sh)
  PROVE  LET g == Append(h, Integer(1))
         IN /\ Grows(h, g, R, sh) /\ g \in Seq(Variables)
            /\ Len(h) + 1 \in Added(h, g) /\ Free(g, Len(h) + 1)
<1> DEFINE v == Integer(1)
           ext == <<v>>
           new == {}
           w == h[x]
           f == [h EXCEPT ![x] = w]
           g == f \o ext
           l == Len(h)
<1>1. /\ h \in Seq(Variables) /\ DOMAIN h = 1 .. l /\ l \in Nat /\ x \in DOMAIN h /\ w \in Variables
      /\ Distinct(w, sh)
  BY HeapType DEF Sound, Region, Unique
<1>2. v \in Variables /\ Children(v) = {} /\ Distinct(v, sh)
  <2>1. v \in Created
    BY DEF Created
  <2> HIDE DEF v
  <2> QED  BY <2>1, CreatedDistinct
<1> HIDE DEF v
<1>3. ext \in Seq(Variables) /\ Len(ext) = 1 /\ DOMAIN ext = {1} /\ ext[1] = v
  BY <1>2
<1>4. /\ \A i \in DOMAIN ext : Children(ext[i]) = {} /\ Distinct(ext[i], sh)
      /\ Children(w) \subseteq Children(h[x]) \cup new
      /\ new \subseteq R \cup (Len(h) + 1 .. Len(h) + Len(ext))
      /\ \A y \in new : y \in sh \/ Free(h, y)
  BY <1>2, <1>3
<1>5. Append(h, v) = g
  <2>1. f = h
    <3>1. h = [y \in 1 .. l |-> h[y]]
      BY <1>1, LenProperties
    <3> QED  BY <1>1, <3>1
  <2>2. Append(h, v) = h \o <<v>>
    BY <1>1, <1>2, AppendIsConcat
  <2> QED  BY <2>1, <2>2
<1> HIDE DEF ext, new, w
<1>6. /\ Grows(h, g, R, sh) /\ g[x] = w /\ x \in DOMAIN g /\ g \in Seq(Variables)
      /\ Len(g) = Len(h) + Len(ext)
      /\ \A y : Free(h, y) /\ y \notin new => Free(g, y)
  <2>1. w \in Variables /\ ext \in Seq(Variables) /\ Distinct(w, sh)
    BY <1>1, <1>3
  <2> QED  BY <1>4, <2>1, Change
<1> HIDE DEF g
<1>7. l + 1 \notin 1 .. l
  BY <1>1
<1>8. Free(h, l + 1)
  BY <1>1, <1>7 DEF Sound, Linked, Free
<1>9. l + 1 \in Added(h, g)
  <2>1. Len(g) = l + 1
    BY <1>3, <1>6
  <2> QED  BY <1>1, <2>1 DEF Added
<1>10. Free(g, l + 1)
  BY <1>6, <1>8 DEF new
<1> QED  BY <1>5, <1>6, <1>9, <1>10 DEF l, v

\* The inductive invariant: the variables of the message and those of the copy are two
\* parts of the heap that no pointer leaves.
IInv ==
  /\ heap \in Seq(Variables) /\ copy \in Nat \cup {Null}
  /\ \E R, Q : Apart(heap, R, Q, shared) /\ message \in R /\ copy \in Q \cup {Null}

LEMMA InitialHeap ==
  ASSUME NEW h \in Heaps
  PROVE  /\ h \in Seq(Variables) /\ h # <<>>
         /\ Linked(h) /\ Unique(h, {})
<1>1. /\ h \in Seq(ToSet(h)) /\ h # <<>>
      /\ \A x \in DOMAIN h :
           /\ h[x] = [member \in Members |-> h[x][member]]
           /\ h[x].arrayValue \in Seq(DOMAIN h)
           /\ h[x].structValue \in [DOMAIN h[x].structValue -> DOMAIN h]
           /\ IsFiniteSet(DOMAIN h[x].structValue) /\ DOMAIN h[x].structValue \subseteq Seq(Nat)
      /\ \A y \in DOMAIN h : \A p, q \in Links(h, DOMAIN h, y) : p = q
  BY HeapsAssumption DEF Members
<1>2. DOMAIN h = 1 .. Len(h) /\ Len(h) \in Nat
  BY <1>1, LenProperties
<1>3. ASSUME NEW x \in DOMAIN h
      PROVE  h[x] \in Variables /\ Children(h[x]) \subseteq DOMAIN h
  <2> DEFINE v == h[x]
  <2>1. v \in Plain
    BY DEF Plain, ToSet
  <2>2. v.arrayValue \in Seq(Nat) /\ ToSet(v.arrayValue) \subseteq DOMAIN h
    <3> DEFINE a == v.arrayValue
               D == DOMAIN h
    <3>1. a \in Seq(D)
      BY <1>1
    <3>2. D \subseteq Nat
      BY <1>2
    <3> HIDE DEF a, D
    <3>3. \A i \in 1 .. Len(a) : a[i] \in D
      BY <3>1, ElementOfSeq
    <3>4. DOMAIN a = 1 .. Len(a)
      BY <3>1, LenProperties
    <3>5. a \in Seq(Nat)
      <4>1. a \in [1 .. Len(a) -> D] /\ Len(a) \in Nat
        BY <3>1, LenProperties
      <4>2. a \in [1 .. Len(a) -> Nat]
        BY <3>2, <4>1
      <4> QED  BY <4>1, <4>2
    <3>6. ToSet(a) \subseteq D
      BY <3>3, <3>4 DEF ToSet
    <3> QED  BY <3>5, <3>6 DEF a, D
  <2>3. v.structValue \in Structs /\ Range(v.structValue) \subseteq DOMAIN h
    <3> DEFINE s == v.structValue
    <3>1. s \in [DOMAIN s -> DOMAIN h] /\ IsFiniteSet(DOMAIN s) /\ DOMAIN s \in SUBSET Seq(Nat)
      BY <1>1
    <3>2. DOMAIN h \subseteq Nat
      BY <1>2
    <3> HIDE DEF s
    <3> QED  BY <3>1, <3>2 DEF s, Structs, Range
  <2>4. v \in [Members -> Anything]
    <3>1. v = [member \in Members |-> v[member]]
      BY <1>1
    <3>2. \A f \in Members : v[f] \in Range(v)
      BY <3>1 DEF Range
    <3>3. \A f \in Members : v[f] \in Anything
      BY <2>1, <3>2 DEF Anything
    <3> HIDE DEF v
    <3> QED  BY <3>1, <3>3
  <2> QED  BY <2>2, <2>3, <2>4 DEF Variables, Children
<1>4. h \in Seq(Variables)
  <2>1. h \in [1 .. Len(h) -> Variables]
    BY <1>1, <1>2, <1>3, LenProperties
  <2> QED  BY <1>2, <2>1
<1>5. Linked(h)
  BY <1>3 DEF Linked
<1> QED  BY <1>1, <1>4, <1>5, OnceUnique

LEMMA InitIInv == Init => IInv
<1> SUFFICES ASSUME Init PROVE IInv
  OBVIOUS
<1> DEFINE R == DOMAIN heap
           Q == {}
<1>1. heap \in Heaps /\ message = 1 /\ copy = Null /\ shared = {}
  BY DEF Init
<1>2. heap \in Seq(Variables) /\ heap # <<>> /\ Linked(heap) /\ Unique(heap, {})
  BY <1>1, InitialHeap
<1>3. message \in R
  <2>1. Len(heap) \in Nat /\ Len(heap) # 0 /\ DOMAIN heap = 1 .. Len(heap)
    BY <1>2, LenProperties, EmptySeq
  <2> QED  BY <1>1, <2>1
<1>4. Region(heap, R) /\ Region(heap, Q) /\ R \cap Q = {}
  BY <1>2 DEF Region, Linked
<1> HIDE DEF R, Q
<1> QED  BY <1>1, <1>2, <1>3, <1>4 DEF IInv, Apart, Sound

-----------------------------------------------------------------------------
(* Steps *)

LEMMA SetNewIInv ==
  ASSUME IInv, NEW path \in Paths, NEW m \in {message, copy}, SetNew(m, path)
  PROVE  IInv'
<1> DEFINE elements == Stored(Parse(Render(path)))
           y == Len(heap) + 1
           k == Append(heap, Integer(1))
           g == assigned(k, m, elements, y)
<1>1. PICK R, Q : Apart(heap, R, Q, shared) /\ message \in R /\ copy \in Q \cup {Null}
  BY DEF IInv
<1>2. /\ m # Null /\ heap' = g /\ message' = message /\ copy' = copy /\ shared' = shared
      /\ copy \in Nat \cup {Null}
  BY DEF SetNew, IInv
<1>3. elements \in Seq(Elements)
  BY PathType
<1> HIDE DEF elements
<1>4. ASSUME NEW S, NEW T, Apart(heap, S, T, shared), m \in S
      PROVE  Apart(g, S \cup Added(heap, g), T, shared) /\ g \in Seq(Variables)
  <2>1. Sound(heap, S, shared) /\ heap \in Seq(Variables)
    BY <1>4 DEF Apart, Sound
  <2> DEFINE U == S \cup Added(heap, k)
  <2>2. Grows(heap, k, S, shared) /\ k \in Seq(Variables) /\ y \in Added(heap, k) /\ Free(k, y)
    BY <1>4, <2>1, NewValue
  <2> HIDE DEF k, y
  <2>3. Sound(k, U, shared) /\ m \in U /\ y \in U
    BY <1>4, <2>2 DEF Grows
  <2> HIDE DEF U
  <2>4. Grows(k, g, U, shared) /\ g \in Seq(Variables)
    BY <1>3, <2>2, <2>3, AssignedGrows
  <2> HIDE DEF g
  <2>5. Grows(heap, g, S, shared)
    BY <2>1, <2>2, <2>4, GrowsTwice DEF U
  <2> QED  BY <1>4, <2>4, <2>5, StayApart
<1> HIDE DEF g
<1>5. CASE m = message
  <2>1. Apart(g, R \cup Added(heap, g), Q, shared) /\ g \in Seq(Variables)
    BY <1>1, <1>4, <1>5
  <2> QED  BY <1>1, <1>2, <2>1 DEF IInv
<1>6. CASE m = copy
  <2>1. Apart(heap, Q, R, shared) /\ m \in Q
    BY <1>1, <1>2, <1>6, ApartSymmetric
  <2>2. Apart(g, Q \cup Added(heap, g), R, shared) /\ g \in Seq(Variables)
    BY <1>4, <2>1
  <2>3. Apart(g, R, Q \cup Added(heap, g), shared)
    BY <2>2, ApartSymmetric
  <2> QED  BY <1>1, <1>2, <2>2, <2>3 DEF IInv
<1> QED  BY <1>5, <1>6

LEMMA SetFoundIInv ==
  ASSUME IInv, NEW from \in Paths, NEW path \in Paths, SetFound(from, path)
  PROVE  IInv'
<1> DEFINE elements == Stored(Parse(Render(path)))
           start == Matched(Parse(Render(from)))
           found == match(heap, message, start)
           sh == shared \cup {found}
           g == assigned(heap, message, elements, found)
<1>1. PICK R, Q : Apart(heap, R, Q, shared) /\ message \in R /\ copy \in Q \cup {Null}
  BY DEF IInv
<1>2. /\ found # Null /\ heap' = g /\ message' = message /\ copy' = copy /\ shared' = sh
      /\ copy \in Nat \cup {Null}
  BY DEF SetFound, IInv
<1>3. elements \in Seq(Elements) /\ start \in Seq(Elements)
  BY PathType
<1> HIDE DEF elements, start
<1>4. found \in R
  <2>1. found \in R \cup {Null}
    BY <1>1, <1>3, MatchStays DEF Apart
  <2> QED  BY <1>2, <2>1
<1> HIDE DEF found
<1>5. Apart(heap, R, Q, sh) /\ found \in sh
  BY <1>1 DEF Apart, Sound, Unique, Distinct
<1> HIDE DEF sh
<1>6. Grows(heap, g, R, sh) /\ g \in Seq(Variables)
  BY <1>1, <1>3, <1>4, <1>5, AssignedGrows DEF Apart
<1> HIDE DEF g
<1>7. Apart(g, R \cup Added(heap, g), Q, sh)
  BY <1>5, <1>6, StayApart
<1> QED  BY <1>1, <1>2, <1>6, <1>7 DEF IInv

LEMMA EraseIInv ==
  ASSUME IInv, NEW path \in Paths, NEW m \in {message, copy}, Erase(m, path)
  PROVE  IInv'
<1> DEFINE elements == Stored(Parse(Render(path)))
           g == erased(heap, m, elements)
<1>1. PICK R, Q : Apart(heap, R, Q, shared) /\ message \in R /\ copy \in Q \cup {Null}
  BY DEF IInv
<1>2. /\ m # Null /\ heap' = g /\ message' = message /\ copy' = copy /\ shared' = shared
      /\ copy \in Nat \cup {Null}
  BY DEF Erase, IInv
<1>3. elements \in Seq(Elements)
  BY PathType
<1> HIDE DEF elements
<1>4. ASSUME NEW S, NEW T, Apart(heap, S, T, shared), m \in S
      PROVE  Apart(g, S \cup Added(heap, g), T, shared) /\ g \in Seq(Variables)
  <2>1. Sound(heap, S, shared)
    BY <1>4 DEF Apart
  <2>2. Grows(heap, g, S, shared) /\ Len(g) = Len(heap) /\ g \in Seq(Variables)
    BY <1>3, <1>4, <2>1, ErasedGrows
  <2> HIDE DEF g
  <2> QED  BY <1>4, <2>2, StayApart
<1> HIDE DEF g
<1>5. CASE m = message
  <2>1. Apart(g, R \cup Added(heap, g), Q, shared) /\ g \in Seq(Variables)
    BY <1>1, <1>4, <1>5
  <2> QED  BY <1>1, <1>2, <2>1 DEF IInv
<1>6. CASE m = copy
  <2>1. Apart(heap, Q, R, shared) /\ m \in Q
    BY <1>1, <1>2, <1>6, ApartSymmetric
  <2>2. Apart(g, Q \cup Added(heap, g), R, shared) /\ g \in Seq(Variables)
    BY <1>4, <2>1
  <2>3. Apart(g, R, Q \cup Added(heap, g), shared)
    BY <2>2, ApartSymmetric
  <2> QED  BY <1>1, <1>2, <2>2, <2>3 DEF IInv
<1> QED  BY <1>5, <1>6

LEMMA CopyIInv ==
  ASSUME IInv, Copy
  PROVE  IInv'
<1> DEFINE g == copied(heap, message)
           l == Len(heap)
           T == l + 1 .. Len(g)
<1>1. PICK R, Q : Apart(heap, R, Q, shared) /\ message \in R
  BY DEF IInv
<1>2. /\ heap' = g /\ Len(g) <= Len(heap) + MaxCopied
      /\ copy' = l + 1 /\ message' = message /\ shared' = shared
  BY DEF Copy
<1>3. heap \in Seq(Variables) /\ Linked(heap) /\ Unique(heap, shared) /\ message \in DOMAIN heap
  BY <1>1 DEF Apart, Sound, Region
<1>4. /\ g \in Seq(Variables) /\ Linked(g) /\ Unique(g, shared)
      /\ Region(g, Len(heap) + 1 .. Len(g)) /\ Len(heap) + 1 <= Len(g)
      /\ \A y \in DOMAIN heap : g[y] = heap[y]
  BY <1>2, <1>3, CopiedSound
<1> HIDE DEF g
<1>5. DOMAIN heap = 1 .. l /\ l \in Nat /\ DOMAIN g = 1 .. Len(g) /\ Len(g) \in Nat
  BY <1>3, <1>4, HeapType
<1>6. DOMAIN heap \subseteq DOMAIN g /\ \A y \in DOMAIN heap : y \notin T
  BY <1>4, <1>5
<1>7. l + 1 \in T /\ l + 1 \in Nat
  BY <1>4, <1>5
<1>8. Region(g, T)
  BY <1>4
<1> HIDE DEF T
<1>9. Region(g, R) /\ R \cap T = {}
  BY <1>1, <1>4, <1>6 DEF Apart, Sound, Region
<1>10. Apart(g, R, T, shared)
  BY <1>4, <1>8, <1>9 DEF Apart, Sound
<1> QED  BY <1>1, <1>2, <1>4, <1>7, <1>10 DEF IInv

LEMMA StepIInv == IInv /\ [Next]_vars => IInv'
<1> SUFFICES ASSUME IInv, [Next]_vars PROVE IInv'
  OBVIOUS
<1>1. ASSUME NEW from \in Paths, NEW path \in Paths, SetFound(from, path) PROVE IInv'
  BY <1>1, SetFoundIInv
<1>2. ASSUME NEW path \in Paths, NEW m \in {message, copy}, SetNew(m, path) PROVE IInv'
  BY <1>2, SetNewIInv
<1>3. ASSUME NEW path \in Paths, NEW m \in {message, copy}, Erase(m, path) PROVE IInv'
  BY <1>3, EraseIInv
<1>4. CASE Copy
  BY <1>4, CopyIInv
<1>5. CASE UNCHANGED vars
  BY <1>5 DEF vars, IInv
<1> QED  BY <1>1, <1>2, <1>3, <1>4, <1>5 DEF Next

-----------------------------------------------------------------------------
(* Theorems *)

\* No call of set, erase or the copy constructor leaves a pointer in a message that
\* match, erase, set and the copy constructor could not follow.
THEOREM TypeCorrect == Spec => []TypeOK
<1>1. IInv => TypeOK
  BY DEF IInv, Apart, Sound, Linked, Region, TypeOK
<1> QED  BY <1>1, InitIInv, StepIInv, PTL DEF Spec

\* set puts a value into one place of a message: two paths lead to one variable only if
\* a client has set that variable twice.
THEOREM SharedByClients == Spec => []OnlyClientsShare
<1>1. IInv => OnlyClientsShare
  <2> SUFFICES ASSUME IInv PROVE OnlyClientsShare
    OBVIOUS
  <2> DEFINE all == UNION {Reach(heap, m) : m \in Roots}
  <2>1. PICK R, Q : Apart(heap, R, Q, shared) /\ message \in R /\ copy \in Q \cup {Null}
    BY DEF IInv
  <2>2. heap \in Seq(Variables) /\ Region(heap, R) /\ Region(heap, Q) /\ Unique(heap, shared)
    BY <2>1 DEF Apart, Sound
  <2>3. \A m \in Roots : Reach(heap, m) \subseteq DOMAIN heap
    <3>1. ASSUME NEW m \in Roots PROVE Reach(heap, m) \subseteq DOMAIN heap
      <4>1. m \in R \/ m \in Q
        BY <2>1 DEF Roots
      <4> QED  BY <2>2, <4>1, ReachStays DEF Region
    <3> QED  BY <3>1
  <2>4. all \in SUBSET DOMAIN heap
    BY <2>3
  <2> HIDE DEF all
  <2>5. \A y \in all \ shared : \A p, q \in Links(heap, all, y) : p = q
    BY <2>2, <2>4, LinksOnce
  <2> QED  BY <2>5 DEF OnlyClientsShare, all
<1> QED  BY <1>1, InitIInv, StepIInv, PTL DEF Spec

\* A copy of a message stays apart from it: nothing that set or erase does to one of
\* them can be seen in the other.
THEOREM CopiesAreDeep == Spec => []CopyIsDeep
<1>1. IInv => CopyIsDeep
  <2> SUFFICES ASSUME IInv, copy # Null PROVE Reach(heap, message) \cap Reach(heap, copy) = {}
    BY DEF CopyIsDeep
  <2>1. PICK R, Q : Apart(heap, R, Q, shared) /\ message \in R /\ copy \in Q
    BY DEF IInv
  <2>2. heap \in Seq(Variables) /\ Region(heap, R) /\ Region(heap, Q) /\ R \cap Q = {}
    BY <2>1 DEF Apart, Sound
  <2>3. Reach(heap, message) \subseteq R /\ Reach(heap, copy) \subseteq Q
    BY <2>1, <2>2, ReachStays
  <2> QED  BY <2>2, <2>3
<1> QED  BY <1>1, InitIInv, StepIInv, PTL DEF Spec
=============================================================================
