---------------------------- MODULE MessageValues ----------------------------
(***************************************************************************)
(* The values of messages: operator== of Variable (src/src/Variable.cpp),  *)
(* and whether a copy is equal to its original.                            *)
(***************************************************************************)
EXTENDS Messages

\* Mutant of equal: structs are equal if they have the same names.
RECURSIVE equalNames(_, _, _)
equalNames(h, x, y) ==
  LET v == h[x]  w == h[y] IN
  /\ v.type = w.type /\ v.type # "tVoid"
  /\ DOMAIN v.structValue = DOMAIN w.structValue
  /\ DOMAIN v.arrayValue = DOMAIN w.arrayValue
  /\ \A i \in DOMAIN v.arrayValue : equalNames(h, v.arrayValue[i], w.arrayValue[i])

\* The member that operator== compares, of each type that has one.
Compared ==
  [tBoolean |-> "booleanValue", tInteger |-> "integerValue", tInteger64 |-> "integerValue64",
   tString |-> "stringValue", tFloat |-> "floatValue", tBase64 |-> "stringValue",
   tBinary |-> "binaryValue"]

\* operator==: of two void variables none is equal to the other.
RECURSIVE equal(_, _, _)
equal(h, x, y) ==
  LET v == h[x]  w == h[y]
      Same(S, a, b) == \A k \in S : equal(h, a[k], b[k])
  IN
  /\ v.type = w.type
  /\ CASE v.type \in DOMAIN Compared -> v[Compared[v.type]] = w[Compared[v.type]]
       [] v.type = "tArray"   -> Len(v.arrayValue) = Len(w.arrayValue)
                                 /\ Same(DOMAIN v.arrayValue, v.arrayValue, w.arrayValue)
       [] v.type = "tStruct"  -> DOMAIN v.structValue = DOMAIN w.structValue
                                 /\ Same(DOMAIN v.structValue, v.structValue, w.structValue)
       [] OTHER -> FALSE

-----------------------------------------------------------------------------
(* Properties *)

\* A variable without its place in memory.
RECURSIVE Tree(_, _)
Tree(h, x) ==
  [h[x] EXCEPT !.arrayValue = [i \in DOMAIN @ |-> Tree(h, @[i])],
               !.structValue = [n \in DOMAIN @ |-> Tree(h, @[n])]]

\* The variables that are part of the value of x: an element that set() puts into a
\* variable of another type is not.
RECURSIVE Visible(_, _)
Visible(h, x) ==
  LET v == h[x]
      children == CASE v.type = "tArray"  -> ToSet(v.arrayValue)
                    [] v.type = "tStruct" -> Range(v.structValue)
                    [] OTHER -> {}
  IN {x} \cup UNION {Visible(h, c) : c \in children}

\* A copy looks like its original; operator== says so unless there is a void in it.
CopyIsEqual ==
  [][Copy =>
       /\ Tree(heap', copy') = Tree(heap, message)
       /\ equal(heap', message, copy')
            <=> \A x \in Visible(heap, message) : heap[x].type # "tVoid"]_vars
=============================================================================
