---------------------------- MODULE MCRpcChannel ----------------------------
(* Instances of RpcReencoding for TLC: digits of base 4, so that an int32_t has *)
(* 256 values and a packet fewer than 128 bytes.                             *)
EXTENDS RpcReencoding

V == INSTANCE Variable  \* not of Codec, whose constant Levels is made of these

Build(bytes, signed, force, inPlace) ==
  [bytes |-> bytes, signedChar |-> signed, forceInteger64 |-> force, inPlace |-> inPlace]

X86  == Build("char", TRUE, FALSE, FALSE)
X64  == Build("char", TRUE, TRUE, FALSE)
ARM  == Build("uint8_t", FALSE, FALSE, FALSE)
Own  == Build("uint8_t", TRUE, TRUE, TRUE)
MCBuilds == {X86, X64, ARM, Own}

One(n, v) == [x \in {n} |-> v]
Two(n, v, m, w) == [x \in {n, m} |-> IF x = n THEN v ELSE w]
Name == <<97>>

Scalars ==
  {V!Void, V!Integer(0), V!Integer(-128), V!Integer(200), V!Integer64(300),
   V!Integer64(-1), V!Float(<<3, -1>>), V!Float(<<-5, 3>>), V!Float(<<0, 0>>),
   V!Boolean(TRUE), V!Boolean(FALSE), V!String(<<>>), V!String(<<55>>),
   V!String(V!False), V!Base64(<<98, 99>>), V!Binary(<<>>), V!Binary(<<1, 2>>),
   V!Binary(<<1, 2, 3, 255>>),
   [V!Integer(0) EXCEPT !.integerValue = 7]}

Arrays  == {V!Array(a) : a \in {<<>>, <<V!Integer(1), V!String(<<120, 121>>)>>,
                               <<Null, V!Array(<<V!Boolean(TRUE)>>)>>}}
Structs ==
  {V!Struct(s) : s \in {V!NoStruct, One(Name, V!Integer(3)), One(<<>>, Null),
                        Two(<<>>, V!Integer(1), V!Undefined, V!Integer(2)),
                        One(V!FaultCode, V!Integer(4)),
                        Two(V!FaultCode, V!Integer(4), V!FaultString, V!String(Name)),
                        Two(Name, V!Array(<<V!Void>>), <<98>>, V!Struct(One(Name, V!Void)))}}
Errors  == {V!createError(-1, Name)}

Responses == {Response(v, a) : v \in Scalars \cup Arrays \cup Structs, a \in {Null, <<120>>}}
               \cup {Response(e, Null) : e \in Errors} \cup {Response(Null, Null)}
Requests  == {Request(Name, p, a) :
                p \in {Null, <<>>, <<V!Integer(1), Null>>,
                       <<V!Void, V!Void, V!Boolean(TRUE)>>, <<V!Void, V!Void, V!Void, V!Void>>},
                a \in {Null, <<120>>, <<120, 121, 122>>}}

\* Parameters that are used again: integers whose members have been assigned one
\* by one, and what has pointers to null and to such integers in it.
Assigned(v, i, j) == [v EXCEPT !.integerValue = i, !.integerValue64 = j]
Fresh(i, j) == Assigned(V!Integer(0), i, j)
Elements    == {Fresh(7, 0), Fresh(7, 7), V!Void, Null}
Nested      == {V!Array(<<p, q>>) : p \in {Null, V!Void}, q \in {Fresh(7, 0), Fresh(7, 7)}}
                 \cup {V!Struct(One(Name, p)) : p \in Elements}
Reused      == {<<Fresh(i, j), p>> : i \in {0, 5}, j \in {0, 300},
                  p \in {Null, V!Array(<<Null, Fresh(7, 0)>>), V!Struct(One(Name, Null)),
                         V!Struct(One(Name, Fresh(7, 0)))}}
MCIntegers  == {0, -9}

Pairs     == {<<Request(<<>>, <<V!Integer(1)>>, <<120>>), Response(V!Void, Null)>>,
              <<Response(V!createError(1, <<>>), Null), Request(Name, Null, Null)>>,
              <<Response(V!String(Name), <<120>>), Response(V!Array(<<>>), <<121>>)>>}
Again     == {<<Request(Name, p, Null)>> : p \in Reused}
MCConversations == {<<m>> : m \in Responses \cup Requests} \cup Pairs \cup Again

\* All variables of all messages: no more than two variables are nested in one.
VariablesOf(m) == IF m.kind = "request" THEN IF m.parameters = Null THEN {} ELSE ToSet(m.parameters)
           ELSE {m.variable}
Inside(variables) ==
  UNION {ToSet(v.arrayValue) \cup ToSet(v.structValue) : v \in variables} \ {Null}
Kept == Nested \cup {Assigned(v, i, j) : v \in {V!Integer(0), V!Integer(1)},
                        i \in {0, 1, 5, -9}, j \in {0, 1, 5, -9, 300}}
Outermost ==
  (Kept \cup UNION {UNION {VariablesOf(m) : m \in ToSet(c)} : c \in MCConversations}) \ {Null}
MCLevels == <<Inside(Inside(Outermost)), Inside(Outermost), Outermost>>

\* The doubles here have few digits.
MCRoundDigits(f) == f

StreamsOf(conversations) ==
  {[i \in DOMAIN c |-> encode(c[i], b)] : c \in conversations, b \in MCBuilds}
MCStreams == StreamsOf(MCConversations)

\* The messages are such that the theorems of RpcChannelProofs speak of them.
ASSUME MCRpcChannelAssumption ==
  AllSendable(MCConversations) /\ AllValuesSendable(MCConversations)

\* Headers without authorization.
EmptyHeaders == {<<Request(n, Null, <<>>)>> : n \in {<<>>, Name, Name \o Name}}
                  \cup {<<Request(Name, <<V!Integer(1)>>, <<>>)>>}
EmptyHeaderStreams == StreamsOf(EmptyHeaders)
=============================================================================
