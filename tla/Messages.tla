------------------------------ MODULE Messages ------------------------------
(***************************************************************************)
(* Messages are variables that point to variables.  Nodes change them      *)
(* through MessageProperty (src/src/MessageProperty.cpp): a string such as *)
(* "a.b[1]" names an element that match() finds, set() replaces or creates *)
(* and erase() removes.  Copies are made by the copy constructor of        *)
(* Variable, which assigns each element to a new variable.                 *)
(*                                                                         *)
(* heap is a sequence of variables; the pointers in arrayValue and         *)
(* structValue are positions in it.  Variables that nobody points to stay  *)
(* where they are.                                                         *)
(***************************************************************************)
EXTENDS Variable, SequencesExt, FiniteSetsExt

CONSTANTS
  Paths,     \* what clients name: sequences of names and indices
  Heaps,     \* what a message consists of when it reaches the node
  MaxCalls,  \* of set and erase
  MaxCopied  \* variables in a message that is copied

ASSUME MessagesAssumption ==
  /\ Paths \subseteq Seq([name : Seq(Nat), index : BOOLEAN])
  /\ \A path \in Paths : \A i \in DOMAIN path :
       LET name == path[i].name
       IN IF path[i].index    \* decimal digits, perhaps behind a minus
          THEN \A k \in DOMAIN name : name[k] \in Digits \/ (k = 1 /\ name[k] = 45)
          ELSE name # <<>> /\ ToSet(name) \cap {46, 91, 93} = {}
  /\ Null \notin Nat /\ MaxCopied \in Nat /\ Radix \in Nat \ {0, 1}

VARIABLES
  heap,     \* every variable there has been
  message,  \* the message of a node
  copy,     \* a copy of it, or Null
  shared,   \* variables found in message that were set in it once more
  calls     \* the calls of set and erase: of what message, path and value

vars == <<heap, message, copy, shared, calls>>

Open  == 91     \* [
Close == 93     \* ]
Dot   == 46
Minus == 45

\* The string that names a path.
Render(path) ==
  LET text[i \in 0 .. Len(path)] ==
        IF i = 0 THEN <<>>
        ELSE LET s == text[i - 1]  e == path[i]
             IN CASE e.index             -> s \o <<Open>> \o e.name \o <<Close>>
                  [] ~e.index /\ s = <<>> -> e.name
                  [] ~e.index /\ s # <<>> -> s \o <<Dot>> \o e.name
  IN text[Len(path)]

-----------------------------------------------------------------------------
(* MessageProperty *)

Element(name, index) == [name |-> name, index |-> index]
AddName(elements, name) == IF name = <<>> THEN elements ELSE Append(elements, Element(name, FALSE))

\* What the constructor makes of one character.
read(s, c) ==
  CASE c = Open  -> [property |-> AddName(s.property, s.current), current |-> <<>>,
                     inBrackets |-> TRUE]
    [] c = Close -> [property |-> Append(s.property, Element(s.current, TRUE)),
                     current |-> <<>>, inBrackets |-> FALSE]
    [] c = Dot /\ ~s.inBrackets ->
         [s EXCEPT !.property = AddName(@, s.current), !.current = <<>>]
    [] OTHER     -> [s EXCEPT !.current = Append(@, c)]

Parse(property) ==
  LET before[i \in 0 .. Len(property)] ==
        IF i = 0 THEN [property |-> <<>>, current |-> <<>>, inBrackets |-> FALSE]
        ELSE read(before[i - 1], property[i])
      end == before[Len(property)]
  IN AddName(end.property, end.current)

\* What std::stoll and stoull read: the number that the text between two brackets
\* stands for.
numeral(s) ==
  LET decimal[i \in 0 .. Len(s)] ==
        IF i = 0 THEN 0
        ELSE IF s[i] = Minus THEN decimal[i - 1] ELSE 10 * decimal[i - 1] + s[i] - 48
      n == decimal[Len(s)]
  IN IF s # <<>> /\ s[1] = Minus THEN -n ELSE n

\* Math::getNumber64, which match casts to uint64_t (line 69).
signedIndex(s) ==
  LET n == numeral(s)
  IN IF -Range64 <= 2 * n /\ 2 * n < Range64 THEN n % Range64 ELSE 0

\* Math::getUnsignedNumber64, which erase and set use (lines 86, 104): stoull negates
\* without a sign, and the result is cut to a uint32_t.
unsignedIndex(s) ==
  LET n == numeral(s)
  IN IF -Range64 < n /\ n < Range64 THEN n % Range32 ELSE 0

\* The elements, with the indices that match reads, and those that erase and set read.
Matched(elements) ==
  [i \in DOMAIN elements |-> LET e == elements[i] IN
     IF e.index THEN Element(<<signedIndex(e.name)>>, TRUE) ELSE e]

Stored(elements) ==
  [i \in DOMAIN elements |-> LET e == elements[i] IN
     IF e.index THEN Element(<<unsignedIndex(e.name)>>, TRUE) ELSE e]

\* The element e of variable v, and the pointer to it; e.name holds the index.
arrayIndex(e) == e.name[1] + 1
Has(v, e)     == IF e.index THEN arrayIndex(e) <= Len(v.arrayValue) ELSE e.name \in DOMAIN v.structValue
Get(v, e)     == IF e.index THEN v.arrayValue[arrayIndex(e)] ELSE v.structValue[e.name]

match(h, m, elements) ==
  LET found[i \in 0 .. Len(elements)] ==
        IF i = 0 THEN m
        ELSE LET x == found[i - 1]  e == elements[i]
             IN IF x # Null /\ Has(h[x], e) THEN Get(h[x], e) ELSE Null
  IN found[Len(elements)]

\* What erase and set do to the variable v that holds the last element.
removed(v, e) ==
  IF e.index THEN [v EXCEPT !.arrayValue = RemoveAt(@, arrayIndex(e))]
  ELSE [v EXCEPT !.structValue = [n \in DOMAIN @ \ {e.name} |-> @[n]]]

\* Mutant of put: a member that the struct has is kept.
putNew(v, e, x) ==
  IF e.index THEN [v EXCEPT !.arrayValue[arrayIndex(e)] = x]
  ELSE [v EXCEPT !.structValue =
          [n \in DOMAIN @ \cup {e.name} |-> IF n \in DOMAIN @ THEN @[n] ELSE x]]

put(v, e, x) ==
  IF e.index THEN [v EXCEPT !.arrayValue[arrayIndex(e)] = x]
  ELSE [v EXCEPT !.structValue = [n \in DOMAIN @ \cup {e.name} |-> IF n = e.name THEN x ELSE @[n]]]

\* Mutant of erased: an array loses its last element.
erasedLast(h, m, elements) ==
  LET x == match(h, m, Front(elements))  e == Last(elements)
  IN IF elements = <<>> \/ match(h, m, elements) = Null THEN h
     ELSE IF e.index THEN [h EXCEPT ![x].arrayValue = Front(@)]
     ELSE [h EXCEPT ![x] = removed(@, e)]

\* Lines 81-98.
erased(h, m, elements) ==
  IF elements = <<>> \/ match(h, m, elements) = Null THEN h
  ELSE [h EXCEPT ![match(h, m, Front(elements))] = removed(@, Last(elements))]

\* Mutant of filled: all elements point to the same new variable.
filledOnce(h, x, e, v) ==
  LET missing == arrayIndex(e) - Len(h[x].arrayValue)
      new == [i \in 1 .. missing |-> Len(h) + 1]
  IN Append([h EXCEPT ![x].arrayValue = @ \o new], v)

\* Mutant of filled: the array is resized, with null pointers.
filledNull(h, x, e, v) ==
  LET missing == arrayIndex(e) - Len(h[x].arrayValue)
      new == [i \in 1 .. missing |-> IF i = missing THEN Len(h) + 1 ELSE Null]
  IN Append([h EXCEPT ![x].arrayValue = @ \o new], v)

\* A variable like v for each element that is missing, up to index e.
filled(h, x, e, v) ==
  LET missing == arrayIndex(e) - Len(h[x].arrayValue)
      new == [i \in 1 .. missing |-> Len(h) + i]
  IN [h EXCEPT ![x].arrayValue = @ \o new] \o [i \in 1 .. missing |-> v]

\* Mutant of next: a variable of another type is replaced on the way.
nextOfType(h, x, e, t) ==
  IF Has(h[x], e) /\ h[Get(h[x], e)].type = t THEN h
  ELSE IF Has(h[x], e) \/ ~e.index
       THEN Append([h EXCEPT ![x] = put(@, e, Len(h) + 1)], OfType(t))
  ELSE filled(h, x, e, OfType(t))

\* Lines 106-113, 122, 128-131 and 134: the heap once variable x has element e, and t is
\* the type of the element if it is missing.
next(h, x, e, t) ==
  CASE Has(h[x], e)                -> h
    [] ~Has(h[x], e) /\ e.index    -> filled(h, x, e, OfType(t))
    [] ~Has(h[x], e) /\ ~e.index   -> Append([h EXCEPT ![x] = put(@, e, Len(h) + 1)], OfType(t))

\* Lines 114-119, 123, 132 and 135; the value lands behind the index if it is past
\* the end.
last(h, x, e, value) ==
  IF e.index /\ ~Has(h[x], e)
  THEN [filled(h, x, e, Void) EXCEPT ![x].arrayValue = Append(@, value)]
  ELSE [h EXCEPT ![x] = put(@, e, value)]

\* Lines 100-140: the heap and currentMessage before the loop comes to each element.
assigned(h, m, elements, value) ==
  LET n == Len(elements)
      before[i \in 0 .. n - 1] ==
        IF i = 0 THEN [heap |-> h, current |-> m]
        ELSE LET s == before[i - 1]
                 t == IF elements[i + 1].index THEN "tArray" ELSE "tStruct"
                 g == next(s.heap, s.current, elements[i], t)
             IN [heap |-> g, current |-> Get(g[s.current], elements[i])]
      end == before[n - 1]
  IN IF n = 0 THEN h ELSE last(end.heap, end.current, elements[n], value)

-----------------------------------------------------------------------------
(* Variable *)

\* Mutant of copied: the children are shared.
copiedShallow(h, x) == Append(h, h[x])

\* The children of variable i are copied behind the end of the heap.
withCopies(h, i) ==
  LET v == h[i]
      n == Len(v.arrayValue)
      names == SetToSeq(DOMAIN v.structValue)
      children == v.arrayValue \o [k \in DOMAIN names |-> v.structValue[names[k]]]
      Place(name) == n + CHOOSE k \in DOMAIN names : names[k] = name
      w == [v EXCEPT !.arrayValue = [k \in 1 .. n |-> Len(h) + k],
                     !.structValue = [name \in DOMAIN @ |-> Len(h) + Place(name)]]
  IN [h EXCEPT ![i] = w] \o [k \in DOMAIN children |-> h[children[k]]]

\* The copy constructor, and operator= to each new variable, which copies the children
\* of the next one in turn; the code finishes a child before it goes on, which gives
\* the variables other places in memory.
copied(h, x) ==
  LET grown[n \in 0 .. MaxCopied] ==
        IF n = 0 THEN Append(h, h[x])
        ELSE LET g == grown[n - 1]
             IN IF Len(h) + n <= Len(g) THEN withCopies(g, Len(h) + n) ELSE g
  IN grown[MaxCopied]

-----------------------------------------------------------------------------
(* Clients *)

Children(v) == ToSet(v.arrayValue) \cup Range(v.structValue)

\* The elements of the variables all that point to y.
Links(h, all, y) ==
  LET Indices(v) == {i \in DOMAIN v.arrayValue : v.arrayValue[i] = y}
      Names(v)   == {n \in DOMAIN v.structValue : v.structValue[n] = y}
  IN UNION {{<<x, i, <<>>>> : i \in Indices(h[x])} \cup {<<x, 0, n>> : n \in Names(h[x])} : x \in all}

\* The variables that can be reached from x, in no more steps than there are variables.
Reach(h, x) ==
  LET within[n \in 0 .. Len(h)] ==
        IF n = 0 THEN {x}
        ELSE LET near == within[n - 1] IN near \cup UNION {Children(h[y]) : y \in near}
  IN within[Len(h)]

\* A message that a node gets is one that a decoder has made: nothing in it is null,
\* no variable is in it twice, and none is part of itself.
ASSUME HeapsAssumption ==
  \A h \in Heaps :
    /\ h \in Seq(ToSet(h)) /\ h # <<>>
    /\ \A x \in DOMAIN h : LET v == h[x] IN
         /\ v = [member \in DOMAIN Void |-> v[member]]
         /\ v.arrayValue \in Seq(DOMAIN h)
         /\ v.structValue \in [DOMAIN v.structValue -> DOMAIN h]
         /\ IsFiniteSet(DOMAIN v.structValue) /\ DOMAIN v.structValue \subseteq Seq(Nat)
    /\ \A y \in DOMAIN h : \A p, q \in Links(h, DOMAIN h, y) : p = q
    /\ \A x \in DOMAIN h : \A y \in Children(h[x]) : x \notin Reach(h, y)

\* The variables that set() passes on its way to the element.
Way(h, m, path) == {match(h, m, SubSeq(path, 1, i)) : i \in 0 .. Len(path) - 1} \ {Null}

Init ==
  /\ heap \in Heaps /\ message = 1
  /\ copy = Null /\ shared = {} /\ calls = <<>>

\* The constructor finds in a string the path that it has been made of.
Readable == \A path \in Paths : Parse(Render(path)) = path

Call(m, path, value) ==
  calls' = Append(calls, [message |-> m, path |-> path, value |-> value])

\* A new value is set in the message or its copy.
SetNew(m, path) ==
  /\ m # Null
  /\ Call(m, path, Len(heap) + 1)
  /\ heap' = assigned(Append(heap, Integer(1)), m, Stored(Parse(Render(path))), Len(heap) + 1)
  /\ UNCHANGED <<message, copy, shared>>

\* A part of the message that match() has found is set in it once more, but never
\* below itself.
SetFound(from, path) ==
  LET found == match(heap, message, Matched(Parse(Render(from)))) IN
  /\ found # Null
  /\ Reach(heap, found) \cap Way(heap, message, Stored(path)) = {}
  /\ Call(message, path, found)
  /\ heap' = assigned(heap, message, Stored(Parse(Render(path))), found)
  /\ shared' = shared \cup {found}
  /\ UNCHANGED <<message, copy>>

Erase(m, path) ==
  /\ m # Null
  /\ Call(m, path, Null)
  /\ heap' = erased(heap, m, Stored(Parse(Render(path))))
  /\ UNCHANGED <<message, copy, shared>>

Copy ==
  /\ copy = Null
  /\ heap' = copied(heap, message) /\ Len(heap') <= Len(heap) + MaxCopied
  /\ copy' = Len(heap) + 1
  /\ UNCHANGED <<message, shared, calls>>

Next ==
  \/ /\ Len(calls) < MaxCalls
     /\ \/ \E from, path \in Paths : SetFound(from, path)
        \/ \E path \in Paths, m \in {message, copy} : SetNew(m, path) \/ Erase(m, path)
  \/ Copy

Spec == Init /\ [][Next]_vars

-----------------------------------------------------------------------------
(* Properties *)

Roots == {message, copy} \ {Null}

\* Every pointer in a message can be followed, as match, erase, set and the copy
\* constructor do without looking.
TypeOK ==
  /\ message \in DOMAIN heap /\ copy \in DOMAIN heap \cup {Null}
  /\ \A x \in DOMAIN heap : Children(heap[x]) \subseteq DOMAIN heap

\* Two paths lead to one variable only if a client has set it twice: a value
\* that is set in one place never shows up in another.
OnlyClientsShare ==
  LET all == UNION {Reach(heap, m) : m \in Roots} IN
  \A y \in all \ shared : \A p, q \in Links(heap, all, y) : p = q

\* A copy and its original have no variable in common, whatever is done to them.
CopyIsDeep == copy # Null => Reach(heap, message) \cap Reach(heap, copy) = {}

\* The element of an array behind the one that path names.
Behind(h, m, path) ==
  LET x == match(h, m, Front(path))
      i == arrayIndex(Last(path)) + 1
  IN IF x # Null /\ i <= Len(h[x].arrayValue) THEN h[x].arrayValue[i] ELSE Null

\* The indices of path fit into 32 bits.  Otherwise match and set need not mean the
\* same element: an index of 2^32 is 0 to set.
Fits(path) ==
  \A i \in DOMAIN path : path[i].index => numeral(path[i].name) \in 0 .. Range32 - 1

\* A step that calls set or erase for path in message m satisfies P, for the elements
\* that match would look for.  With an empty property none of them does anything.
Calling(P(_, _, _)) ==
  calls' # calls /\ Last(calls').path # <<>> /\ Fits(Last(calls').path) =>
    LET c == Last(calls') IN P(c.message, Matched(c.path), c.value)

\* After set, match finds the value at the same property, if it names a member of a
\* struct or an element of an array that was there before.
Found(m, path, value) ==
  value # Null /\ (Last(path).index => match(heap, m, path) # Null) =>
    match(heap', m, path) = value

SetThenMatch == [][Calling(Found)]_vars

\* set and erase take nothing out of a message but what they replace or remove.
Others(m, path, value) ==
  LET x == match(heap, m, path)
      all == Reach(heap, m) \ (IF x = Null THEN {} ELSE Reach(heap, x))
  IN all \subseteq Reach(heap', m)

LosesNothing == [][Calling(Others)]_vars

\* erase removes the element that match finds, and no other: the next element of
\* an array takes its place.
Gone(m, path, value) ==
  value = Null =>
    match(heap', m, path) =
      (IF Last(path).index THEN Behind(heap, m, path) ELSE Null)

EraseRemoves == [][Calling(Gone)]_vars
=============================================================================
