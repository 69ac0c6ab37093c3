---------------------------- MODULE MCBinaryRpc ----------------------------
(* Instances of BinaryRpc for TLC: bytes of sizes have two values, so that a *)
(* size has four digits of base 2 and is at most 15.                         *)
EXTENDS BinaryRpc

Bits(n)    == <<(n \div 8) % 2, (n \div 4) % 2, (n \div 2) % 2, n % 2>>
Payload(n) == [i \in 1 .. n |-> i]

Plain(kind, n)     == Magic \o <<kind>> \o Bits(n) \o Payload(n)
Headed(kind, h, n) == Magic \o <<kind>> \o Bits(h) \o Payload(h) \o Bits(n) \o Payload(n)

Good == {Plain(0, 1), Plain(1, 5), Headed(64, 2, 1), Headed(65, 1, 0)}

\* A header whose size and that of the data wrap to no more than the limit.
Huge == Magic \o <<64>> \o Bits(2) \o Payload(2) \o Bits(15)

\* Wrong magic, no size, a header without size, and sizes over each limit.
Malformed ==
  {<<66, 105, 111, 0>> \o Bits(1) \o Payload(1), Plain(0, 0), Headed(64, 0, 1),
   Headed(64, 4, 0), Plain(0, 10), Headed(64, 3, 3), Huge}

Some == {<<g>> : g \in Good} \cup {<<g, h>> : g, h \in Good}
MCStreams ==
  {<<>>} \cup Some \cup {<<g, h, Plain(0, 1)>> : g, h \in Good}
    \cup {<<m>> : m \in Malformed} \cup {s \o <<m>> : s \in Some, m \in Malformed}
    \cup {<<Plain(0, 1), m, Plain(0, 1)>> : m \in Malformed}

\* The theorems of RpcChannelProofs about ProperStreams speak of these.
ASSUME MCBinaryRpcAssumption == ProperStreams
=============================================================================
