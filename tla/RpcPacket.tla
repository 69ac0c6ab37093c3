------------------------------ MODULE RpcPacket ------------------------------
(***************************************************************************)
(* The packets that RpcEncoder puts around what it encodes                 *)
(* (src/src/RpcEncoder.cpp): start, type, header and sizes.                *)
(***************************************************************************)
EXTENDS Integers, Sequences

CONSTANTS
  Null,   \* no RpcHeader
  Radix   \* values of one byte of a size, 256 in the code

Start == <<66, 105, 110>>          \* "Bin"
Request  == 0
Response == 1
Error    == 255                    \* 0xFF
Flag     == 64                     \* 0x40
Flagged == {Flag, Flag + 1}
AuthorizationName == <<206>>       \* "Authorization"

Insert(packet, n, bytes) == SubSeq(packet, 1, n) \o bytes \o SubSeq(packet, n + 1, Len(packet))

\* memcpyBigEndian of an integer of 4 bytes.
encodeInteger(i) ==
  LET j == i \div Radix
      k == j \div Radix
      l == k \div Radix
  IN <<l % Radix, k % Radix, j % Radix, i % Radix>>

encodeString(s) == encodeInteger(Len(s)) \o s

-----------------------------------------------------------------------------

\* The authorization is the only field of a header.
fields(authorization) ==
  encodeInteger(1) \o encodeString(AuthorizationName) \o encodeString(authorization)

\* Mutant of encodeHeader: the size counts its own 4 bytes.
encodeHeaderLong(authorization) ==
  IF authorization = <<>> THEN <<>>
  ELSE encodeInteger(Len(fields(authorization)) + 4) \o fields(authorization)

\* A header without fields is not there at all.
encodeHeader(authorization) ==
  IF authorization = <<>> THEN <<>>
  ELSE encodeInteger(Len(fields(authorization))) \o fields(authorization)

\* What encodeHeader returns: the size in the header, without its own 4 bytes.
headerLength(header) == IF header = <<>> THEN 0 ELSE Len(header) - 4

\* Mutant of sizeAt: the size field is placed behind the type byte.
sizeAtFront(headerSize) == 4

sizeAt(headerSize) == 4 + headerSize

\* Lines 72-96; header is Null or an authorization, body what is encoded.
requestPacket(body, header) ==
  LET encoded    == IF header = Null THEN <<>> ELSE encodeHeader(header)
      headerSize == IF header = Null THEN 0 ELSE headerLength(encoded) + 4
      type       == IF headerSize > 0 THEN Request + Flag ELSE Request
      all        == Start \o <<type>> \o encoded \o body
      dataSize   == Len(all) - 4 - headerSize
  IN Insert(all, sizeAt(headerSize), encodeInteger(dataSize))

\* Lines 168-181.
responsePacket(body, errorStruct) ==
  LET all == Start \o <<IF errorStruct THEN Error ELSE Response>> \o body
  IN Insert(all, 4, encodeInteger(Len(all) - 4))

\* Lines 198-214; of the type bytes, 0xFF is not changed by |= 0x40.
insertHeader(packet, authorization) ==
  LET header == encodeHeader(authorization)
      type   == IF packet[4] = Error \/ packet[4] \in Flagged THEN packet[4] ELSE packet[4] + Flag
  IN IF headerLength(header) = 0 THEN packet
     ELSE Insert([packet EXCEPT ![4] = type], 4, header)
=============================================================================
