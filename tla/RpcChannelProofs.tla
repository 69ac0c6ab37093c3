-------------------------- MODULE RpcChannelProofs --------------------------
(***************************************************************************)
(* The binary RPC protocol, from bytes to messages.                        *)
(*                                                                         *)
(* What BinaryRpc keeps for every stream, well-formed or not, every way of *)
(* cutting it into buffers and any limits: no size over its limit is       *)
(* worked with, a packet has the length that it says, and no byte is lost. *)
(* The well-formed packets that a stream begins with arrive, whatever      *)
(* follows them; if a packet that is refused follows, nothing behind it is *)
(* ever taken for a packet.                                                *)
(*                                                                         *)
(* The packets of RpcEncoder and BinaryRpc fit together: every message     *)
(* that can be sent is received, once, in its place, as the message of its *)
(* kind that the decoder makes of the very packet the encoder made.        *)
(*                                                                         *)
(* And what the decoder makes of it is the message that was sent, with     *)
(* values of any nesting: what RpcCodecProofs says of the bytes, carried   *)
(* over the channel.                                                       *)
(***************************************************************************)
EXTENDS RpcMessages, FlattenProofs

Types ==
  /\ data \in Seq(Nat) /\ chunk \in Seq(Nat) /\ rest \in Seq(Nat)
  /\ headerSize \in 0 .. Width - 1 /\ dataSize \in 0 .. Width - 1
  /\ sent \in Seq(Seq(Nat)) /\ delivered \in Seq(Seq(Nat))

\* An exception ends the stream, and the sizes are kept within their limits.
Limits == error = "none" => headerSize <= MaxHeader /\ dataSize <= MaxData

\* A finished packet has exactly the bytes that its size, added up in 32 bits, says.
Complete == error = "none" /\ finished => Len(data) = dataSize + 8

IInv == Types /\ Limits /\ Complete

\* The bytes that the client has received or will receive and not delivered yet.
Ahead == data \o chunk \o rest

-----------------------------------------------------------------------------

LEMMA Constants == {Radix, MaxHeader, MaxData, MaxChunk, Width} \subseteq Nat \ {0}
<1>1. Radix \in Nat \ {0} /\ Radix * Radix \in Nat \ {0}
  BY BinaryRpcAssumption
<1>2. Radix * Radix * Radix \in Nat \ {0}
  BY <1>1
<1>3. Width \in Nat \ {0}
  BY <1>1, <1>2 DEF Width
<1> QED  BY <1>3, BinaryRpcAssumption

\* A number of 32 bits.
LEMMA Remainders ==
  ASSUME NEW w \in Nat \ {0}, NEW n \in Nat
  PROVE  n % w \in 0 .. w - 1 /\ (n < w => n % w = n) /\ (n >= w => n % w <= n - w)
<1>1. n % w \in 0 .. w - 1
  OBVIOUS
<1>2. ASSUME n < w PROVE n % w = n
  BY <1>2
<1>3. ASSUME n >= w PROVE n % w <= n - w
  BY <1>3
<1> QED  BY <1>1, <1>2, <1>3

LEMMA Remainder ==
  /\ \A n \in Nat : n % Width \in 0 .. Width - 1
  /\ \A n \in 0 .. Width - 1 : n % Width = n
  /\ \A n \in Nat : n >= Width => n % Width <= n - Width
<1>1. \A n \in 0 .. Width - 1 : n \in Nat /\ n < Width
  BY Constants
<1> QED  BY <1>1, Constants, Remainders

\* Four bytes that are there make one.
LEMMA WordType ==
  ASSUME NEW s \in Seq(Nat), NEW n \in Nat, n + 4 <= Len(s)
  PROVE  Word(s, n) \in 0 .. Width - 1 /\ Word(s, n) \in Nat
<1>1. s[n + 1] \in Nat /\ s[n + 2] \in Nat /\ s[n + 3] \in Nat /\ s[n + 4] \in Nat
  <2>1. Len(s) \in Nat
    BY LenProperties
  <2> DEFINE length == Len(s)
  <2>2. length \in Nat /\ n + 4 <= length
    BY <2>1
  <2> HIDE DEF length
  <2>3. n + 1 \in 1 .. length /\ n + 2 \in 1 .. length /\ n + 3 \in 1 .. length /\ n + 4 \in 1 .. length
    BY <2>2
  <2>4. \A i \in 1 .. length : s[i] \in Nat
    BY ElementOfSeq DEF length
  <2> QED  BY <2>3, <2>4
<1>2. \A a, b \in Nat : a * Radix + b \in Nat
  BY Constants, SMTT(60)
<1>3. s[n + 1] * Radix + s[n + 2] \in Nat
  BY <1>1, <1>2
<1>4. (s[n + 1] * Radix + s[n + 2]) * Radix + s[n + 3] \in Nat
  BY <1>1, <1>2, <1>3
<1>5. ((s[n + 1] * Radix + s[n + 2]) * Radix + s[n + 3]) * Radix + s[n + 4] \in Nat
  BY <1>1, <1>2, <1>4
<1>6. Word(s, n) \in 0 .. Width - 1
  BY <1>5, Remainder DEF Word
<1> QED  BY <1>6

\* What one call works with.
LEMMA AvailableType == ASSUME Types PROVE /\ available \in Seq(Nat) /\ Len(available) \in Nat
                                          /\ Len(available) = Len(data) + Len(chunk)
                                          /\ Len(data) \in Nat /\ Len(chunk) \in Nat
<1>1. available \in Seq(Nat) /\ Len(available) = Len(data) + Len(chunk)
  BY ConcatProperties DEF Types, available
<1> QED  BY <1>1, LenProperties DEF Types

LEMMA SizeTypes ==
  ASSUME Types, Len(available) >= 8
  PROVE  /\ header \in 0 .. Width - 1 /\ size \in 0 .. Width - 1
         /\ header \in Nat /\ size \in Nat /\ prefix \in 0 .. Len(available)
         /\ Sized => total \in 0 .. Width - 1 /\ total \in Nat
<1>1. Word(available, 4) \in 0 .. Width - 1
  BY AvailableType, WordType
<1>2. header \in 0 .. Width - 1 /\ size \in 0 .. Width - 1
  BY <1>1 DEF header, size, Types
<1>3. prefix \in 0 .. Len(available)
  BY AvailableType DEF prefix
<1>4. ASSUME Sized PROVE total \in 0 .. Width - 1
  <2>1. CASE size # 0
    BY <1>2, <2>1 DEF total
  <2>2. CASE size = 0
    <3>1. Len(available) >= 8 + header + 4
      BY <1>4, <2>2 DEF Sized
    <3>2. Word(available, 8 + header) \in Nat
      BY <1>2, <3>1, AvailableType, WordType
    <3>3. Word(available, 8 + header) + header + 4 \in Nat
      BY <1>2, <3>2
    <3>4. (Word(available, 8 + header) + header + 4) % Width \in 0 .. Width - 1
      BY <3>3, Remainder
    <3> QED  BY <2>2, <3>4 DEF total
  <2> QED  BY <2>1, <2>2
<1> QED  BY <1>2, <1>3, <1>4

\* A finished packet ends within the bytes that are there.
LEMMA EndOfPacket ==
  ASSUME Types, Len(available) >= 8, Sized, Len(available) >= total + 8
  PROVE  total + 8 \in 0 .. Len(available) /\ total + 9 = (total + 8) + 1
<1>1. total \in Nat /\ Len(available) \in Nat
  BY SizeTypes, AvailableType
<1> DEFINE t == total
           length == Len(available)
<1>2. t \in Nat /\ length \in Nat /\ length >= t + 8
  BY <1>1
<1> HIDE DEF t, length
<1>3. t + 8 \in 0 .. length /\ t + 9 = (t + 8) + 1
  BY <1>2
<1> QED  BY <1>3 DEF t, length

\* And so do the header and the size behind it.
LEMMA EndOfHeader ==
  ASSUME Types, Len(available) >= 8, Sized, size = 0
  PROVE  8 + header + 4 \in 0 .. Len(available)
<1>1. header \in Nat /\ Len(available) \in Nat
  BY SizeTypes, AvailableType
<1> DEFINE h == header
           length == Len(available)
<1>2. h \in Nat /\ length \in Nat /\ length >= 8 + h + 4
  BY <1>1 DEF Sized
<1> HIDE DEF h, length
<1>3. 8 + h + 4 \in 0 .. length
  BY <1>2
<1> QED  BY <1>3 DEF h, length

LEMMA Closed == \A s, t \in Seq(Nat) : s \o t \in Seq(Nat)
BY ConcatProperties

LEMMA Associative == \A s, t, u \in Seq(Nat) : (s \o t) \o u = s \o (t \o u)
<1>1. ASSUME NEW s \in Seq(Nat), NEW t \in Seq(Nat), NEW u \in Seq(Nat)
      PROVE  (s \o t) \o u = s \o (t \o u)
  BY ConcatAssociative, SMTT(60)
<1> QED  BY <1>1

LEMMA Prefix ==
  ASSUME NEW s \in Seq(Nat), NEW n \in 0 .. Len(s)
  PROVE  /\ SubSeq(s, 1, n) \in Seq(Nat) /\ SubSeq(s, n + 1, Len(s)) \in Seq(Nat)
         /\ Len(SubSeq(s, 1, n)) = n
         /\ SubSeq(s, 1, n) \o SubSeq(s, n + 1, Len(s)) = s
<1>1. Len(s) \in Nat /\ \A i \in 1 .. Len(s) : s[i] \in Nat
  BY LenProperties, ElementOfSeq
<1>2. SubSeq(s, 1, n) \in Seq(Nat) /\ Len(SubSeq(s, 1, n)) = n
  BY <1>1, SubSeqProperties
<1>3. SubSeq(s, n + 1, Len(s)) \in Seq(Nat)
  BY <1>1, SubSeqProperties
<1>4. SubSeq(s, 1, n) \o SubSeq(s, n + 1, Len(s)) = SubSeq(s, 1, Len(s))
  <2> DEFINE first == 1
             full == Len(s)
  <2>1. first \in 1 .. Len(s) + 1 /\ n \in first - 1 .. Len(s) /\ full \in n .. Len(s)
    BY <1>1
  <2> HIDE DEF first, full
  <2>2. SubSeq(s, first, n) \o SubSeq(s, n + 1, full) = SubSeq(s, first, full)
    BY <2>1, ConcatAdjacentSubSeq
  <2> QED  BY <2>2 DEF first, full
<1> QED  BY <1>2, <1>3, <1>4, SubSeqFull

-----------------------------------------------------------------------------

LEMMA InvInit == Init => IInv
<1>1. Init => sent \in Seq(Seq(Nat)) /\ rest \in Seq(Nat)
  BY BinaryRpcAssumption, FlattenType DEF Init
<1> QED  BY <1>1, Constants, EmptySeq DEF Init, IInv, Types, Limits, Complete

\* A step of process that collects all there is.
LEMMA CollectKeeps ==
  ASSUME IInv, Collect
  PROVE  data' \in Seq(Nat) /\ chunk' \in Seq(Nat) /\ data' \o chunk' = data \o chunk
<1>1. available \in Seq(Nat)
  BY AvailableType DEF IInv
<1>2. data' = available /\ chunk' = <<>>
  BY DEF Collect
<1> QED  BY <1>1, <1>2, ConcatEmptySeq, EmptySeq DEF available

LEMMA InvNext == ASSUME IInv, [Next]_vars PROVE IInv'
<1> USE DEF IInv, packet
<1>1. CASE UNCHANGED vars
  BY <1>1 DEF vars, Types, Limits, Complete
<1>2. CASE Receive
  <2>1. PICK n \in 1 .. MaxChunk : /\ n <= Len(rest) /\ chunk' = SubSeq(rest, 1, n)
                                   /\ rest' = SubSeq(rest, n + 1, Len(rest))
    BY <1>2 DEF Receive
  <2>2. n \in 0 .. Len(rest)
    BY <2>1, Constants, LenProperties DEF Types
  <2>3. chunk' \in Seq(Nat) /\ rest' \in Seq(Nat)
    BY <2>1, <2>2, Prefix DEF Types
  <2> QED  BY <1>2, <2>3 DEF Receive, Types, Limits, Complete
<1>3. CASE CollectPrefix
  BY <1>3, CollectKeeps DEF CollectPrefix, Processing, Collect, Types, Limits, Complete
<1>4. CASE RejectMagic
  <2>1. Len(available) >= 8 /\ data' = SubSeq(available, 1, prefix) /\ error' # "none"
    BY <1>4 DEF RejectMagic, Throw
  <2>2. data' \in Seq(Nat)
    BY <2>1, SizeTypes, Prefix, AvailableType
  <2> QED  BY <1>4, <2>1, <2>2 DEF RejectMagic, Throw, Types, Limits, Complete
<1>5. CASE RejectSize \/ RejectEmpty
  <2>1. /\ Len(available) >= 8 /\ data' = SubSeq(available, 1, prefix) /\ error' # "none"
        /\ headerSize' = header /\ dataSize' = size /\ UNCHANGED <<chunk, rest, sent, delivered>>
    BY <1>5 DEF RejectSize, RejectEmpty, Typed, Throw
  <2>2. data' \in Seq(Nat) /\ header \in 0 .. Width - 1 /\ size \in 0 .. Width - 1
    BY <2>1, SizeTypes, Prefix, AvailableType
  <2> QED  BY <2>1, <2>2 DEF Types, Limits, Complete
<1>6. CASE RejectTotal \/ RejectWrapped
  <2>1. /\ Len(available) >= 8 /\ Sized /\ size = 0
        /\ data' = SubSeq(available, 1, 8 + header + 4) /\ error' # "none"
        /\ headerSize' = header /\ dataSize' = total /\ UNCHANGED <<chunk, rest, sent, delivered>>
    BY <1>6 DEF RejectTotal, RejectWrapped, Wrapped, Typed, Throw
  <2>2. 8 + header + 4 \in 0 .. Len(available) /\ header \in 0 .. Width - 1 /\ total \in 0 .. Width - 1
    BY <2>1, SizeTypes, EndOfHeader
  <2>3. data' \in Seq(Nat)
    BY <2>1, <2>2, Prefix, AvailableType
  <2> QED  BY <2>1, <2>2, <2>3 DEF Types, Limits, Complete
<1>7. ASSUME CollectHeader \/ CollectData PROVE IInv'
  <2>1. /\ Len(available) >= 8 /\ Fits /\ Collect /\ headerSize' = header /\ UNCHANGED <<rest, error, sent, delivered>>
        /\ (dataSize' = size /\ size = 0) \/ (dataSize' = total /\ Sized /\ total <= MaxData)
        /\ error = "none" /\ ~finished /\ UNCHANGED finished
    BY <1>7 DEF CollectHeader, CollectData, Typed, Processing, Collect
  <2>2. header \in 0 .. Width - 1 /\ size \in 0 .. Width - 1 /\ (Sized => total \in 0 .. Width - 1)
    BY <2>1, SizeTypes
  <2>3. header <= MaxHeader
    BY <2>1 DEF Fits, header, Limits
  <2>4. data' \in Seq(Nat) /\ chunk' \in Seq(Nat)
    BY <2>1, CollectKeeps
  <2>5. dataSize' \in 0 .. Width - 1 /\ dataSize' <= MaxData
    BY <2>1, <2>2, Constants
  <2> QED  BY <2>1, <2>2, <2>3, <2>4, <2>5 DEF Types, Limits, Complete
<1>8. CASE Finish
  <2>1. /\ Len(available) >= 8 /\ Fits /\ Sized /\ total <= MaxData /\ Len(available) >= total + 8
        /\ data' = SubSeq(available, 1, total + 8)
        /\ chunk' = SubSeq(available, total + 9, Len(available))
        /\ headerSize' = header /\ dataSize' = total /\ UNCHANGED <<rest, error, sent, delivered>> /\ error = "none"
    BY <1>8 DEF Finish, Typed, Processing
  <2>2. header \in 0 .. Width - 1 /\ total \in 0 .. Width - 1 /\ header \in Nat /\ total \in Nat
    BY <2>1, SizeTypes
  <2>3. header <= MaxHeader
    BY <2>1 DEF Fits, header, Limits
  <2>4. total + 8 \in 0 .. Len(available) /\ total + 9 = (total + 8) + 1
    BY <2>1, <2>2, AvailableType
  <2>5. data' \in Seq(Nat) /\ chunk' \in Seq(Nat) /\ Len(data') = total + 8
    BY <2>1, <2>4, Prefix, AvailableType
  <2> QED  BY <2>1, <2>2, <2>3, <2>5 DEF Types, Limits, Complete
<1>9. CASE Deliver
  <2>1. delivered' \in Seq(Seq(Nat))
    BY <1>9, AppendProperties DEF Deliver, Types
  <2> QED  BY <1>9, <2>1, Constants, EmptySeq DEF Deliver, Types, Limits, Complete
<1> QED  BY <1>1, <1>2, <1>3, <1>4, <1>5, <1>6, <1>7, <1>8, <1>9 DEF Next, process

LEMMA Invariance == Spec => []IInv
BY InvInit, InvNext, PTL DEF Spec

-----------------------------------------------------------------------------

\* Whatever arrives, no size that process() goes on with is over its limit: not
\* one that it reads again from the bytes collected, nor the sum of two of them
\* (lines 84, 87 and 106).
THEOREM SizesWithinLimits == Spec => [](error = "none" => headerSize <= MaxHeader /\ dataSize <= MaxData)
<1>1. IInv => (error = "none" => headerSize <= MaxHeader /\ dataSize <= MaxData)
  BY DEF IInv, Limits
<1> QED  BY <1>1, Invariance, PTL

\* A packet that the client takes is exactly as long as its sizes say, however
\* much more the buffer holds (lines 113-118).
THEOREM PacketIsComplete == Spec => [](error = "none" /\ finished => Len(data) = dataSize + 8)
<1>1. IInv => (error = "none" /\ finished => Len(data) = dataSize + 8)
  BY DEF IInv, Complete
<1> QED  BY <1>1, Invariance, PTL

\* The flags and the names, which depend on nothing else.
Kinds ==
  /\ hasHeader \in BOOLEAN /\ finished \in BOOLEAN /\ started \in BOOLEAN
  /\ type \in {"unknown", "request", "response"}
  /\ error \in {"none", "magic", "size", "format", "length"}

LEMMA KindsNext == ASSUME Kinds, [Next]_vars PROVE Kinds'
<1> USE DEF Kinds
<1>1. CASE UNCHANGED vars
  BY <1>1 DEF vars, packet
<1>2. CASE Receive \/ Deliver
  BY <1>2 DEF Receive, Deliver, packet
<1>3. CASE CollectPrefix \/ RejectMagic
  BY <1>3 DEF CollectPrefix, RejectMagic, Processing, Collect, Throw, packet
<1>4. ASSUME Typed PROVE hasHeader' \in BOOLEAN /\ started' \in BOOLEAN /\ type' \in {"unknown", "request", "response"}
  <2>1. HasHeader \in BOOLEAN
    BY DEF HasHeader
  <2>2. hasHeader' = (hasHeader \/ HasHeader) /\ started' = TRUE
    BY <1>4 DEF Typed, Processing
  <2>3. type' \in {"request", "response"}
    BY <1>4 DEF Typed
  <2> QED  BY <2>1, <2>2, <2>3
<1>5. CASE RejectSize \/ RejectEmpty \/ RejectTotal \/ RejectWrapped
  <2>1. Typed /\ error' \in {"size", "format", "length"} /\ finished' \in BOOLEAN
    BY <1>5 DEF RejectSize, RejectEmpty, RejectTotal, RejectWrapped, Throw
  <2> QED  BY <1>4, <2>1
<1>6. CASE CollectHeader \/ CollectData \/ Finish
  <2>1. Typed /\ UNCHANGED error /\ finished' \in BOOLEAN
    BY <1>6 DEF CollectHeader, CollectData, Finish, Collect
  <2> QED  BY <1>4, <2>1
<1> QED  BY <1>1, <1>2, <1>3, <1>5, <1>6 DEF Next, process

\* Every member keeps its type, whatever arrives: the sizes are numbers of 32 bits,
\* and within their limits as long as no exception is thrown.
THEOREM TypeCorrect == Spec => []TypeOK
<1>1. Init => Kinds
  BY DEF Init, Kinds
<1>2. Spec => []Kinds
  BY <1>1, KindsNext, PTL DEF Spec
<1>3. IInv /\ Kinds => TypeOK
  BY DEF IInv, Types, Limits, Kinds, TypeOK
<1> QED  BY <1>2, <1>3, Invariance, PTL

-----------------------------------------------------------------------------
(* Bytes *)

\* A step that throws nothing only moves bytes, but that the packet the client
\* takes is removed in front.
LEMMA AheadStep ==
  ASSUME IInv, Next, error' = "none"
  PROVE  \/ Ahead' = Ahead /\ UNCHANGED delivered
         \/ Deliver /\ Ahead = data \o Ahead' /\ Ahead' \in Seq(Nat)
<1>1. CASE Receive
  <2>1. PICK n \in 1 .. MaxChunk : /\ n <= Len(rest) /\ chunk' = SubSeq(rest, 1, n)
                                   /\ rest' = SubSeq(rest, n + 1, Len(rest))
    BY <1>1 DEF Receive
  <2>2. n \in 0 .. Len(rest)
    BY <2>1, Constants, LenProperties DEF IInv, Types
  <2>3. chunk' \o rest' = rest
    BY <2>1, <2>2, Prefix DEF IInv, Types
  <2>4. chunk' \in Seq(Nat) /\ rest' \in Seq(Nat)
    BY <2>1, <2>2, Prefix DEF IInv, Types
  <2>5. chunk = <<>> /\ data' = data
    BY <1>1 DEF Receive
  <2>6. data \o chunk = data
    BY <2>5, ConcatEmptySeq DEF IInv, Types
  <2>7. Ahead' = data \o (chunk' \o rest')
    <3>1. data \in Seq(Nat)
      BY DEF IInv, Types
    <3>2. (data \o chunk') \o rest' = data \o (chunk' \o rest')
      BY <2>4, <3>1, Associative
    <3> QED  BY <2>5, <3>2 DEF Ahead
  <2>8. UNCHANGED delivered
    BY <1>1 DEF Receive
  <2> QED  BY <2>3, <2>6, <2>7, <2>8 DEF Ahead
<1>2. CASE CollectPrefix \/ CollectHeader \/ CollectData
  <2>1. Collect /\ UNCHANGED <<rest, delivered>>
    BY <1>2 DEF CollectPrefix, CollectHeader, CollectData, Typed
  <2> QED  BY <2>1, CollectKeeps DEF Ahead
<1>3. CASE RejectMagic \/ RejectSize \/ RejectEmpty \/ RejectTotal \/ RejectWrapped
  BY <1>3 DEF RejectMagic, RejectSize, RejectEmpty, RejectTotal, RejectWrapped, Throw
<1>4. CASE Finish
  <2>1. /\ Len(available) >= 8 /\ Sized /\ Len(available) >= total + 8 /\ UNCHANGED <<rest, delivered>>
        /\ data' = SubSeq(available, 1, total + 8)
        /\ chunk' = SubSeq(available, total + 9, Len(available))
    BY <1>4 DEF Finish, Typed
  <2>2. total + 8 \in 0 .. Len(available) /\ total + 9 = (total + 8) + 1
    BY <2>1, EndOfPacket DEF IInv
  <2>3. data' \o chunk' = available
    BY <2>1, <2>2, Prefix, AvailableType DEF IInv
  <2> QED  BY <2>1, <2>3 DEF Ahead, available
<1>5. CASE Deliver
  <2>1. data' = <<>> /\ UNCHANGED <<chunk, rest>>
    BY <1>5 DEF Deliver
  <2>2. Ahead' = chunk \o rest
    BY <2>1, ConcatEmptySeq DEF IInv, Types, Ahead
  <2>3. Ahead = data \o (chunk \o rest) /\ chunk \o rest \in Seq(Nat)
    <3>1. data \in Seq(Nat) /\ chunk \in Seq(Nat) /\ rest \in Seq(Nat)
      BY DEF IInv, Types
    <3>2. (data \o chunk) \o rest = data \o (chunk \o rest)
      BY <3>1, Associative
    <3> QED  BY <3>1, <3>2, Closed DEF Ahead
  <2> QED  BY <1>5, <2>2, <2>3
<1> QED  BY <1>1, <1>2, <1>3, <1>4, <1>5 DEF Next, process

\* The bytes delivered and those ahead are those that were sent.
Conserved == error = "none" => FlattenSeq(delivered) \o Ahead = FlattenSeq(sent)

LEMMA ConservedInit == Init => Conserved
<1>1. Init => sent \in Seq(Seq(Nat)) /\ FlattenSeq(sent) \in Seq(Nat)
  BY BinaryRpcAssumption, FlattenType DEF Init
<1> QED  BY <1>1, FlattenEmpty, EmptySeq, ConcatEmptySeq DEF Init, Conserved, Ahead

LEMMA ConservedNext == ASSUME IInv, Conserved, [Next]_vars PROVE Conserved'
<1>1. CASE UNCHANGED vars
  BY <1>1 DEF vars, Conserved, Ahead
<1>2. ASSUME Next, error' = "none" PROVE FlattenSeq(delivered') \o Ahead' = FlattenSeq(sent')
  <2>1. error = "none" /\ UNCHANGED sent
    BY <1>2 DEF Next, process, Receive, Deliver, CollectPrefix, CollectHeader, CollectData, Finish,
       RejectMagic, RejectSize, RejectEmpty, RejectTotal, RejectWrapped, Typed, Processing
  <2>2. CASE Ahead' = Ahead /\ UNCHANGED delivered
    BY <2>1, <2>2 DEF Conserved
  <2>3. CASE Deliver /\ Ahead = data \o Ahead' /\ Ahead' \in Seq(Nat)
    <3>1. FlattenSeq(delivered') = FlattenSeq(delivered) \o data
      BY <2>3, FlattenAppend DEF Deliver, IInv, Types
    <3>2. (FlattenSeq(delivered) \o data) \o Ahead' = FlattenSeq(delivered) \o (data \o Ahead')
      <4>1. FlattenSeq(delivered) \in Seq(Nat) /\ data \in Seq(Nat)
        BY FlattenType DEF IInv, Types
      <4> QED  BY <2>3, <4>1, Associative
    <3> QED  BY <2>1, <2>3, <3>1, <3>2 DEF Conserved
  <2> QED  BY <1>2, <2>2, <2>3, AheadStep
<1> QED  BY <1>1, <1>2 DEF Conserved

LEMMA Conservation == Spec => [](IInv /\ Conserved)
<1>1. IInv /\ Conserved /\ [Next]_vars => (IInv /\ Conserved)'
  BY InvNext, ConservedNext
<1> QED  BY <1>1, InvInit, ConservedInit, PTL DEF Spec

\* No byte is lost, doubled or moved, whatever is sent and however it is cut
\* into buffers (all insertions of process, and lines 115-118).
THEOREM NoByteIsLost == Spec => []NothingLost
<1>1. ASSUME IInv, Conserved PROVE NothingLost
  <2>1. FlattenSeq(delivered) \in Seq(Nat) /\ data \in Seq(Nat) /\ chunk \in Seq(Nat) /\ rest \in Seq(Nat)
    BY <1>1, FlattenType DEF IInv, Types
  <2> DEFINE both == data \o chunk
  <2>2. (FlattenSeq(delivered) \o data) \o chunk = FlattenSeq(delivered) \o both
    BY <2>1, Associative, SMTT(60)
  <2>3. both \in Seq(Nat)
    BY <2>1, Closed
  <2> HIDE DEF both
  <2>4. (FlattenSeq(delivered) \o both) \o rest = FlattenSeq(delivered) \o (both \o rest)
    BY <2>1, <2>3, Associative, SMTT(60)
  <2> QED  BY <1>1, <2>2, <2>4 DEF both, Conserved, NothingLost, Ahead
<1> QED  BY <1>1, Conservation, PTL

-----------------------------------------------------------------------------
(* The packets of a stream *)

\* The sum of the sizes of a well-formed packet does not wrap (lines 104 and 113).
NoWrap == MaxData < Width

\* The stream begins with n well-formed packets.
Upright(n) == n <= Len(sent) /\ \A i \in 1 .. n : WellFormed(sent[i])

\* There is a packet that has not been delivered yet, and this is it.
Arriving == Len(delivered) < Len(sent)
Current  == sent[Len(delivered) + 1]

Headed(p) == p[4] \in WithHeader

\* The well-formed packets in front are delivered as they are sent.
LeadArrives ==
  \A n \in 1 .. Len(sent) : Upright(n) /\ n <= Len(delivered) => delivered[n] = sent[n]

\* The sizes read so far are those of the packet.
SizesRead ==
  IF Len(data) < 8
  THEN headerSize = 0 /\ dataSize = 0
  ELSE IF Headed(Current)
       THEN /\ headerSize = Word(Current, 4)
            /\ dataSize = 0 \/ (WellFormed(Current) /\ dataSize = Len(Current) - 8)
       ELSE headerSize = 0 /\ WellFormed(Current) /\ dataSize = Len(Current) - 8

\* A finished packet is the one that was sent, an unfinished one is shorter.
Progress ==
  IF finished
  THEN WellFormed(Current) /\ data = Current
  ELSE (data # <<>> => Len(data) < Len(Current)) /\ SizesRead

\* As long as no packet was taken for another one, an exception is thrown for a
\* malformed packet only, and process() is in the middle of the current one.
StreamInv ==
  /\ IInv /\ Conserved
  /\ sent \in Streams
  /\ LeadArrives
  /\ Upright(Len(delivered)) =>
       /\ error # "none" => Arriving /\ ~WellFormed(Current)
       /\ error = "none" /\ Arriving /\ (WellFormed(Current) \/ Refused(Current)) => Progress

OnTrack == StreamInv /\ error = "none" /\ Upright(Len(delivered))

-----------------------------------------------------------------------------

\* Of the numbers of well-formed packets in front, every smaller one is one, too.
LEMMA UprightBelow ==
  ASSUME NEW n \in Nat, NEW m \in Nat, Upright(n), m <= n, Len(sent) \in Nat
  PROVE  Upright(m)
BY DEF Upright

\* If the next packet is well-formed, there is one more.
LEMMA UprightNext ==
  ASSUME NEW n \in Nat, Upright(n), n < Len(sent), WellFormed(sent[n + 1]), Len(sent) \in Nat
  PROVE  Upright(n + 1)
BY DEF Upright

\* The two kinds of packets exclude each other.
LEMMA NeverBoth == ASSUME NEW p \in Seq(Nat), WellFormed(p) PROVE ~Refused(p)
<1>1. Len(p) \in Nat /\ Len(p) > 8 /\ SubSeq(p, 1, 3) = Magic
  BY LenProperties DEF WellFormed
<1>2. CASE p[4] \notin WithHeader
  BY <1>1, <1>2 DEF WellFormed, Refused
<1>3. CASE p[4] \in WithHeader
  <2> DEFINE h == Word(p, 4)
             w == Word(p, 8 + h)
             n == Len(p)
  <2>1. /\ h \in 1 .. MaxHeader /\ n >= 8 + h + 4 /\ n = 8 + h + 4 + w /\ n - 8 <= MaxData
        /\ n \in Nat
    BY <1>1, <1>3 DEF WellFormed
  <2>2. h \in Nat /\ 8 + h \in Nat /\ (8 + h) + 4 <= n
    <3> HIDE DEF h, w, n
    <3> QED  BY <2>1, Constants
  <2>3. w \in Nat
    BY <2>2, WordType
  <2> HIDE DEF w
  <2>4. ~(h + 4 + w > MaxData)
    <3> HIDE DEF h, n
    <3> QED  BY <2>1, <2>2, <2>3, Constants
  <2>5. Word(p, 4) \in 1 .. MaxHeader /\ ~(Word(p, 4) + 4 + Word(p, 8 + Word(p, 4)) > MaxData)
    BY <2>1, <2>4 DEF w
  <2> HIDE DEF h, n
  <2> QED  BY <1>1, <1>3, <2>5 DEF Refused
<1> QED  BY <1>2, <1>3

LEMMA InOrder ==
  ASSUME StreamInv, Upright(Len(delivered))
  PROVE  Starts(delivered, sent)
<1>1. Len(delivered) \in Nat /\ Len(sent) \in Nat
  BY LenProperties DEF StreamInv, IInv, Types
<1>2. Len(delivered) <= Len(sent)
  BY DEF Upright
<1>3. ASSUME NEW i \in 1 .. Len(delivered) PROVE delivered[i] = sent[i]
  <2>1. i \in 1 .. Len(sent) /\ i \in Nat /\ i <= Len(delivered)
    BY <1>1, <1>2
  <2>2. Upright(i)
    BY <1>1, <2>1, UprightBelow
  <2> QED  BY <2>1, <2>2 DEF StreamInv, LeadArrives
<1> QED  BY <1>2, <1>3 DEF Starts

LEMMA AheadType == ASSUME IInv PROVE Ahead \in Seq(Nat)
<1>1. data \o chunk \in Seq(Nat)
  BY Closed DEF IInv, Types
<1> QED  BY <1>1, Closed DEF IInv, Types, Ahead

\* What the client has not taken yet begins with the packet that is being received.
LEMMA StartsWithCurrent ==
  ASSUME OnTrack, Arriving
  PROVE  Ahead \in Seq(Nat) /\ Current \in Seq(Nat) /\ Starts(Current, Ahead)
<1> USE DEF OnTrack
<1>0. Starts(delivered, sent)
  BY InOrder
<1>1. /\ delivered \in Seq(Seq(Nat)) /\ sent \in Seq(Seq(Nat))
      /\ Len(delivered) \in Nat /\ Len(sent) \in Nat
  BY LenProperties DEF StreamInv, IInv, Types
<1>2. /\ FlattenSeq(delivered) \in Seq(Nat) /\ FlattenSeq(sent) \in Seq(Nat)
      /\ FlattenSeq(delivered) \o Ahead = FlattenSeq(sent)
  BY <1>1, FlattenType DEF StreamInv, Conserved
<1>3. Ahead \in Seq(Nat)
  BY AheadType DEF StreamInv
<1>5. Len(delivered) + 1 \in 1 .. Len(sent)
  BY <1>1 DEF Arriving
<1>6. Current \in Seq(Nat)
  BY <1>1, <1>5, ElementOfSeq DEF Current
<1> DEFINE t == Append(delivered, Current)
<1>7. /\ t \in Seq(Seq(Nat)) /\ Len(t) = Len(delivered) + 1
      /\ \A i \in 1 .. Len(delivered) : t[i] = delivered[i]
      /\ t[Len(delivered) + 1] = Current
  BY <1>1, <1>6, AppendProperties
<1>8. FlattenSeq(t) = FlattenSeq(delivered) \o Current
  BY <1>1, <1>6, FlattenAppend
<1> HIDE DEF t
<1>9. Starts(t, sent)
  <2>1. \A i \in 1 .. Len(t) : t[i] = sent[i]
    <3>1. \A i \in 1 .. Len(delivered) : delivered[i] = sent[i]
      BY <1>0 DEF Starts
    <3>2. sent[Len(delivered) + 1] = Current
      BY DEF Current
    <3>3. \A i \in 1 .. Len(t) : i \in 1 .. Len(delivered) \/ i = Len(delivered) + 1
      BY <1>1, <1>7
    <3> QED  BY <1>7, <3>1, <3>2, <3>3
  <2> QED  BY <1>1, <1>7, <2>1 DEF Starts, Arriving
<1>10. Starts(FlattenSeq(t), FlattenSeq(sent))
  BY <1>1, <1>7, <1>9, FlattenStarts
<1>11. Starts(FlattenSeq(delivered) \o Current, FlattenSeq(delivered) \o Ahead)
  BY <1>2, <1>8, <1>10
<1>12. Starts(Current, Ahead)
  BY <1>2, <1>3, <1>6, <1>11, StartsBehind
<1> QED  BY <1>3, <1>6, <1>12

\* As long as there are such bytes, there is such a packet.
LEMMA AheadIsCurrent ==
  ASSUME OnTrack, Ahead # <<>>
  PROVE  Arriving /\ Current \in Seq(Nat) /\ Starts(Current, Ahead)
<1> USE DEF OnTrack
<1>0. Starts(delivered, sent)
  BY InOrder
<1>1. /\ delivered \in Seq(Seq(Nat)) /\ sent \in Seq(Seq(Nat))
      /\ Len(delivered) \in Nat /\ Len(sent) \in Nat
  BY LenProperties DEF StreamInv, IInv, Types
<1>2. /\ FlattenSeq(delivered) \in Seq(Nat) /\ FlattenSeq(sent) \in Seq(Nat)
      /\ FlattenSeq(delivered) \o Ahead = FlattenSeq(sent)
  BY <1>1, FlattenType DEF StreamInv, Conserved
<1>3. Ahead \in Seq(Nat)
  BY AheadType DEF StreamInv
<1>4. Len(delivered) < Len(sent)
  <2>1. SUFFICES ASSUME Len(delivered) = Len(sent) PROVE FALSE
    BY <1>0, <1>1 DEF Starts
  <2>2. delivered = sent
    BY <1>0, <1>1, <2>1, SeqEqual DEF StreamInv, IInv, Types, Starts
  <2>3. FlattenSeq(sent) \o Ahead = FlattenSeq(sent)
    BY <1>2, <2>2
  <2>4. Len(FlattenSeq(sent)) + Len(Ahead) = Len(FlattenSeq(sent))
    BY <1>2, <1>3, <2>3, ConcatProperties
  <2>5. Len(Ahead) = 0
    BY <1>2, <1>3, <2>4, LenProperties
  <2> QED  BY <1>3, <2>5, EmptySeq
<1>5. Arriving
  BY <1>4 DEF Arriving
<1> QED  BY <1>5, StartsWithCurrent

\* What a call to process sees.
LEMMA Seen ==
  ASSUME OnTrack, chunk # <<>>
  PROVE  /\ Arriving /\ Current \in Seq(Nat) /\ Len(Current) \in Nat
         /\ available \in Seq(Nat) /\ Len(available) \in Nat
         /\ \A i \in 1 .. Len(available) : i <= Len(Current) => available[i] = Current[i]
<1>1. /\ available \in Seq(Nat) /\ Len(available) \in Nat /\ rest \in Seq(Nat) /\ Len(rest) \in Nat
      /\ Len(available) # 0
  <2>1. Len(chunk) # 0
    BY EmptySeq DEF OnTrack, StreamInv, IInv, Types
  <2> QED  BY <2>1, AvailableType, LenProperties DEF OnTrack, StreamInv, IInv, Types
<1>2. /\ Ahead = available \o rest
      /\ Len(Ahead) = Len(available) + Len(rest)
      /\ \A i \in 1 .. Len(available) : Ahead[i] = available[i]
  <2>1. Ahead = available \o rest
    BY DEF Ahead, available
  <2> QED  BY <1>1, <2>1, ConcatProperties
<1>3. Ahead # <<>>
  BY <1>1, <1>2, EmptySeq
<1>4. Arriving /\ Current \in Seq(Nat) /\ Starts(Current, Ahead) /\ Len(Current) \in Nat
  BY <1>3, AheadIsCurrent, LenProperties
<1>5. \A i \in 1 .. Len(available) : i <= Len(Current) => available[i] = Current[i]
  BY <1>1, <1>2, <1>4 DEF Starts
<1> QED  BY <1>1, <1>4, <1>5

\* Of two sequences that agree as far as both go, both have the same numbers.
LEMMA SameWord ==
  ASSUME NEW s \in Seq(Nat), NEW t \in Seq(Nat), NEW n \in Nat, n + 4 <= Len(s), n + 4 <= Len(t),
         \A i \in 1 .. Len(s) : i <= Len(t) => s[i] = t[i]
  PROVE  Word(s, n) = Word(t, n)
<1> DEFINE l == Len(s)
           k == Len(t)
<1>1. l \in Nat /\ k \in Nat /\ n + 4 <= l /\ n + 4 <= k
  BY LenProperties
<1>2. \A i \in 1 .. l : i <= k => s[i] = t[i]
  OBVIOUS
<1> HIDE DEF l, k
<1>3. \A i \in {n + 1, n + 2, n + 3, n + 4} : i \in 1 .. l /\ i <= k
  BY <1>1
<1>4. \A i \in {n + 1, n + 2, n + 3, n + 4} : s[i] = t[i]
  BY <1>2, <1>3
<1>5. s[n + 1] = t[n + 1] /\ s[n + 2] = t[n + 2] /\ s[n + 3] = t[n + 3] /\ s[n + 4] = t[n + 4]
  BY <1>4
<1> QED  BY <1>5 DEF Word

Clear == WellFormed(Current) \/ Refused(Current)

\* What it reads of a packet of which at least 8 bytes are there.
LEMMA Glimpse ==
  ASSUME OnTrack, Clear, chunk # <<>>, ~finished, Len(available) >= 8
  PROVE  /\ Len(Current) >= 8
         /\ SubSeq(available, 1, 3) = SubSeq(Current, 1, 3)
         /\ HasHeader <=> Headed(Current)
         /\ header = IF Headed(Current) THEN Word(Current, 4) ELSE 0
         /\ Word(Current, 4) \in Nat
         /\ IF Headed(Current) THEN size = 0 \/ (WellFormed(Current) /\ size = Len(Current) - 8)
                               ELSE size = Word(Current, 4)
<1>1. /\ Current \in Seq(Nat) /\ Len(Current) \in Nat
      /\ available \in Seq(Nat) /\ Len(available) \in Nat
      /\ \A i \in 1 .. Len(available) : i <= Len(Current) => available[i] = Current[i]
  BY Seen
<1>2. Len(Current) >= 8
  BY <1>1 DEF Clear, WellFormed, Refused
<1>3. \A i \in 1 .. 8 : i \in 1 .. Len(available) /\ i \in 1 .. Len(Current) /\ i <= Len(Current)
  <2> DEFINE m == Len(available)
             n == Len(Current)
  <2>1. m \in Nat /\ n \in Nat /\ m >= 8 /\ n >= 8
    BY <1>1, <1>2
  <2> HIDE DEF m, n
  <2>2. \A i \in 1 .. 8 : i \in 1 .. m /\ i \in 1 .. n /\ i <= n
    BY <2>1
  <2> QED  BY <2>2 DEF m, n
<1>4. \A i \in 1 .. 8 : available[i] = Current[i] /\ available[i] \in Nat /\ Current[i] \in Nat
  BY <1>1, <1>3, ElementOfSeq
<1>5. SubSeq(available, 1, 3) = SubSeq(Current, 1, 3)
  <2>1. /\ SubSeq(available, 1, 3) \in Seq(Nat) /\ Len(SubSeq(available, 1, 3)) = 3
        /\ \A i \in 1 .. 3 : SubSeq(available, 1, 3)[i] = available[1 + i - 1]
    BY <1>4, SubSeqProperties
  <2>2. /\ SubSeq(Current, 1, 3) \in Seq(Nat) /\ Len(SubSeq(Current, 1, 3)) = 3
        /\ \A i \in 1 .. 3 : SubSeq(Current, 1, 3)[i] = Current[1 + i - 1]
    BY <1>4, SubSeqProperties
  <2> DEFINE a == SubSeq(available, 1, 3)
             c == SubSeq(Current, 1, 3)
  <2>3. /\ a \in Seq(Nat) /\ Len(a) = 3 /\ \A i \in 1 .. 3 : a[i] = available[1 + i - 1]
        /\ c \in Seq(Nat) /\ Len(c) = 3 /\ \A i \in 1 .. 3 : c[i] = Current[1 + i - 1]
    BY <2>1, <2>2
  <2> HIDE DEF a, c
  <2>4. \A i \in 1 .. 3 : i \in 1 .. 8 /\ 1 + i - 1 = i
    OBVIOUS
  <2>5. \A i \in 1 .. 3 : a[i] = c[i]
    BY <1>4, <2>3, <2>4
  <2>6. a = c
    BY <2>3, <2>5, SeqEqual
  <2> QED  BY <2>6 DEF a, c
<1>6. HasHeader <=> Headed(Current)
  <2>1. available[4] = Current[4]
    BY <1>4
  <2> QED  BY <2>1 DEF HasHeader, Headed
<1>7. Word(available, 4) = Word(Current, 4) /\ Word(Current, 4) \in Nat
  BY <1>1, <1>2, SameWord, WordType
<1>8. SizesRead /\ Len(data) \in Nat
  <2>1. Progress
    BY Seen DEF OnTrack, StreamInv, Clear
  <2>2. Len(data) \in Nat
    BY AvailableType DEF OnTrack, StreamInv, IInv
  <2> QED  BY <2>1, <2>2 DEF Progress
<1>9. header = IF Headed(Current) THEN Word(Current, 4) ELSE 0
  BY <1>6, <1>7, <1>8 DEF header, SizesRead
<1>10. IF Headed(Current) THEN size = 0 \/ (WellFormed(Current) /\ size = Len(Current) - 8)
                          ELSE size = Word(Current, 4)
  BY <1>6, <1>7, <1>8 DEF size, SizesRead
<1> QED  BY <1>2, <1>5, <1>6, <1>7, <1>9, <1>10

\* The size of the data behind a header, once it is there.
LEMMA SecondSize ==
  ASSUME OnTrack, Clear, chunk # <<>>, ~finished, Len(available) >= 8,
         Headed(Current), size = 0, Sized, Len(Current) >= 8 + header + 4
  PROVE  /\ header = Word(Current, 4) /\ header \in Nat
         /\ Word(Current, 8 + header) \in Nat
         /\ total = (Word(Current, 8 + header) + header + 4) % Width
<1>1. header = Word(Current, 4) /\ header \in Nat /\ Len(available) >= 8 + header + 4
  BY Glimpse DEF Sized
<1> DEFINE h == 8 + header
<1>2. h \in Nat /\ h + 4 <= Len(available) /\ h + 4 <= Len(Current)
  BY <1>1
<1> HIDE DEF h
<1>3. Word(available, h) = Word(Current, h) /\ Word(Current, h) \in Nat
  BY <1>2, Seen, SameWord, WordType
<1>4. total = (Word(available, h) + header + 4) % Width
  BY DEF total, h
<1> QED  BY <1>1, <1>3, <1>4 DEF h

\* What is read of a well-formed packet: sizes within their limits.
LEMMA Read ==
  ASSUME NoWrap, OnTrack, WellFormed(Current), chunk # <<>>, ~finished, Len(available) >= 8
  PROVE  /\ SubSeq(available, 1, 3) = Magic
         /\ Fits
         /\ size = 0 => Headed(Current) /\ header # 0 /\ 8 + header + 4 <= Len(Current)
         /\ Sized => total = Len(Current) - 8 /\ total <= MaxData /\ ~Wrapped
<1> DEFINE n == Len(Current)
<1>1. n \in Nat /\ n > 8 /\ header \in Nat /\ size \in Nat
  BY Seen, SizeTypes DEF WellFormed, OnTrack, StreamInv, IInv
<1>2. SubSeq(available, 1, 3) = Magic
  BY Glimpse DEF Clear, WellFormed
<1>3. CASE Headed(Current)
  <2>1. /\ header \in 1 .. MaxHeader /\ n >= 8 + header + 4
        /\ n = 8 + header + 4 + Word(Current, 8 + header) /\ n - 8 <= MaxData
    BY <1>3, Glimpse DEF WellFormed, Headed, Clear
  <2>2. HasHeader /\ size \in {0, n - 8}
    BY <1>3, Glimpse DEF Clear
  <2>3. Fits
    BY <1>1, <2>1, <2>2, Constants DEF Fits
  <2>4. header # 0 /\ 8 + header + 4 <= n
    BY <1>1, <2>1
  <2>5. ASSUME Sized PROVE total = n - 8 /\ ~Wrapped
    <3>1. CASE size # 0
      <4>1. size = n - 8
        BY <2>2, <3>1
      <4> QED  BY <3>1, <4>1 DEF total, Wrapped
    <3>2. CASE size = 0
      <4> DEFINE w == Word(Current, 8 + header)
      <4>1. w \in Nat /\ total = (w + header + 4) % Width
        BY <1>1, <1>3, <2>1, <2>5, <3>2, SecondSize DEF Clear
      <4>2. n = 8 + header + 4 + w
        BY <2>1
      <4> HIDE DEF w, n
      <4>3. w + header + 4 = n - 8 /\ n - 8 \in Nat
        BY <1>1, <4>1, <4>2
      <4>4. n - 8 \in 0 .. Width - 1
        BY <1>1, <2>1, <4>3, Constants, SMTT(30) DEF NoWrap
      <4>5. total = n - 8
        BY <4>1, <4>3, <4>4, Remainder
      <4>6. ~(n - 8 < header + 4)
        BY <1>1, <2>1
      <4> QED  BY <4>5, <4>6 DEF Wrapped
    <3> QED  BY <3>1, <3>2
  <2> QED  BY <1>2, <1>3, <2>1, <2>3, <2>4, <2>5
<1>4. CASE ~Headed(Current)
  <2>1. Word(Current, 4) \in 1 .. MaxData /\ n = 8 + Word(Current, 4) /\ Word(Current, 4) \in Nat
    BY <1>4, Glimpse DEF WellFormed, Headed, Clear
  <2>2. ~HasHeader /\ size = Word(Current, 4)
    BY <1>4, Glimpse DEF Clear
  <2>3. Fits
    BY <2>1, <2>2, Constants DEF Fits
  <2>4. size # 0 /\ size = n - 8 /\ size <= MaxData
    BY <2>1, <2>2, Constants
  <2>5. total = n - 8 /\ ~Wrapped /\ total <= MaxData
    BY <2>4 DEF total, Wrapped
  <2> QED  BY <1>2, <2>3, <2>4, <2>5
<1> QED  BY <1>3, <1>4

\* Of a packet that is refused: process() stops at the sizes.
LEMMA ReadRefused ==
  ASSUME OnTrack, Refused(Current), ~WellFormed(Current), chunk # <<>>, ~finished, Len(available) >= 8
  PROVE  /\ ~CollectData /\ ~Finish
         /\ CollectHeader => /\ Headed(Current) /\ size = 0
                             /\ 8 + header + 4 <= Len(Current)
<1>1. header \in Nat /\ size \in Nat /\ Len(Current) \in Nat
  BY Seen, SizeTypes DEF OnTrack, StreamInv, IInv
<1>2. ASSUME Typed, Fits, SubSeq(available, 1, 3) = Magic, size # 0 \/ header # 0
      PROVE  /\ Headed(Current) /\ size = 0 /\ 8 + header + 4 <= Len(Current)
             /\ header + 4 + Word(Current, 8 + header) > MaxData
  <2>1. SubSeq(Current, 1, 3) = Magic
    BY <1>2, Glimpse DEF Clear
  <2>2. CASE ~Headed(Current)
    <3>1. ~HasHeader /\ size = Word(Current, 4) /\ header = 0
      BY <2>2, Glimpse DEF Clear
    <3>2. size \notin 1 .. MaxData
      BY <2>1, <2>2, <3>1 DEF Refused, Headed
    <3>3. size <= MaxData
      BY <1>2, <3>1 DEF Fits
    <3> QED  BY <1>1, <1>2, <3>1, <3>2, <3>3, Constants
  <2>3. CASE Headed(Current)
    <3>1. HasHeader /\ size = 0 /\ header = Word(Current, 4)
      BY <2>3, Glimpse DEF Clear
    <3>2. header <= MaxHeader /\ header # 0
      BY <1>2, <3>1 DEF Fits
    <3>3. header \in 1 .. MaxHeader
      BY <1>1, <3>2, Constants
    <3>4. Len(Current) >= 8 + header + 4 /\ header + 4 + Word(Current, 8 + header) > MaxData
      BY <2>1, <2>3, <3>1, <3>3 DEF Refused, Headed
    <3> QED  BY <1>1, <2>3, <3>1, <3>4
  <2> QED  BY <2>2, <2>3
<1>3. CollectHeader => Headed(Current) /\ size = 0 /\ 8 + header + 4 <= Len(Current)
  BY <1>2 DEF CollectHeader, Typed
<1>4. ASSUME Typed, Fits, SubSeq(available, 1, 3) = Magic, Sized, total <= MaxData PROVE Wrapped /\ Len(available) >= total + 8
  <2>1. /\ Headed(Current) /\ size = 0 /\ 8 + header + 4 <= Len(Current)
        /\ header + 4 + Word(Current, 8 + header) > MaxData
    BY <1>2, <1>4 DEF Sized
  <2> DEFINE w == Word(Current, 8 + header)
  <2>2. w \in Nat /\ total = (w + header + 4) % Width /\ Len(available) >= 8 + header + 4
    BY <1>1, <1>4, <2>1, SecondSize DEF Clear, Sized
  <2>3. header + 4 + w > MaxData
    BY <2>1
  <2> HIDE DEF w
  <2>4. (w + header + 4) % Width < header + 4
    <3> DEFINE sum == w + header + 4
    <3>1. sum \in Nat /\ sum > MaxData /\ sum - (header + 4) = w
      BY <1>1, <2>2, <2>3
    <3>2. sum % Width <= MaxData
      BY <1>4, <2>2
    <3>3. sum \notin 0 .. Width - 1
      <4>1. sum \in 0 .. Width - 1 => sum % Width = sum
        BY Remainder
      <4> QED  BY <3>1, <3>2, <4>1, Constants
    <3>4. w < Width
      <4>1. 8 + header \in Nat /\ (8 + header) + 4 <= Len(Current)
        BY <1>1, <2>1
      <4>2. w \in 0 .. Width - 1
        BY <4>1, Seen, WordType DEF w
      <4> QED  BY <4>2, Constants
    <3> HIDE DEF sum
    <3>5. sum % Width <= sum - Width
      <4>1. sum >= Width
        BY <3>1, <3>3, Constants
      <4> QED  BY <3>1, <4>1, Remainder
    <3>6. sum - Width < header + 4
      BY <1>1, <2>2, <3>1, <3>4, Constants
    <3>7. sum % Width \in Nat
      BY <3>1, Remainder
    <3> QED  BY <1>1, <3>1, <3>5, <3>6, <3>7, Constants DEF sum
  <2>5. total < header + 4 /\ total \in Nat
    BY <1>1, <1>4, <2>2, <2>4, SizeTypes DEF OnTrack, StreamInv, IInv
  <2>6. Len(available) \in Nat
    BY Seen
  <2> QED  BY <1>1, <2>1, <2>2, <2>5, <2>6 DEF Wrapped
<1>5. ~CollectData
  <2>1. SUFFICES ASSUME CollectData PROVE FALSE
    OBVIOUS
  <2>2. /\ Typed /\ Fits /\ SubSeq(available, 1, 3) = Magic /\ Sized /\ total <= MaxData
        /\ Len(available) < total + 8
    BY <2>1 DEF CollectData, Typed
  <2>3. Len(available) >= total + 8 /\ Len(available) \in Nat /\ total \in Nat
    BY <1>4, <2>2, Seen, SizeTypes DEF OnTrack, StreamInv, IInv
  <2> QED  BY <2>2, <2>3
<1>6. ~Finish
  BY <1>4 DEF Finish, Typed
<1> QED  BY <1>3, <1>5, <1>6

-----------------------------------------------------------------------------

LEMMA StreamInit == Init => StreamInv
<1> SUFFICES ASSUME Init PROVE StreamInv
  OBVIOUS
<1>1. IInv /\ Conserved
  BY InvInit, ConservedInit
<1>2. Len(delivered) = 0 /\ Len(data) = 0 /\ Len(sent) \in Nat
  BY <1>1, EmptySeq, LenProperties DEF Init, IInv, Types
<1>3. LeadArrives
  BY <1>2 DEF LeadArrives
<1>4. Progress
  BY <1>2 DEF Init, Progress, SizesRead
<1> QED  BY <1>1, <1>3, <1>4 DEF StreamInv, Init

\* No well-formed packet is refused.
LEMMA NothingThrown ==
  ASSUME NoWrap, OnTrack, WellFormed(Current)
  PROVE  ~(RejectMagic \/ RejectSize \/ RejectEmpty \/ RejectTotal \/ RejectWrapped)
<1>1. ~RejectMagic
  BY Read DEF RejectMagic, Processing
<1>2. ~RejectSize
  <2>1. SUFFICES ASSUME RejectSize PROVE FALSE
    OBVIOUS
  <2>2. Len(available) >= 8 /\ chunk # <<>> /\ ~finished
        /\ IF HasHeader THEN header > MaxHeader ELSE size > MaxData
    BY <2>1 DEF RejectSize, Typed, Processing
  <2>3. Fits /\ header \in Nat /\ size \in Nat
    BY <2>2, Read, SizeTypes DEF OnTrack, StreamInv, IInv
  <2> QED  BY <2>2, <2>3, Constants DEF Fits
<1>3. ~RejectEmpty
  BY Read DEF RejectEmpty, Typed, Processing
<1>4. ~RejectTotal
  <2>1. SUFFICES ASSUME RejectTotal PROVE FALSE
    OBVIOUS
  <2>2. Len(available) >= 8 /\ chunk # <<>> /\ ~finished /\ Sized /\ total > MaxData
    BY <2>1 DEF RejectTotal, Typed, Processing
  <2>3. total <= MaxData /\ total \in Nat
    BY <2>2, Read, SizeTypes DEF OnTrack, StreamInv, IInv
  <2> QED  BY <2>2, <2>3, Constants
<1>5. ~RejectWrapped
  BY Read DEF RejectWrapped, Typed, Processing
<1> QED  BY <1>1, <1>2, <1>3, <1>4, <1>5

\* A call that collects all bytes leaves the packet shorter than it is.
LEMMA ProgressCollect ==
  ASSUME NoWrap, OnTrack, Clear, CollectPrefix \/ CollectHeader \/ CollectData
  PROVE  Progress'
<1>1. /\ chunk # <<>> /\ ~finished /\ data' = available
      /\ UNCHANGED <<finished, sent, delivered>>
  BY DEF CollectPrefix, CollectHeader, CollectData, Typed, Processing, Collect
<1>2. /\ Arriving /\ Len(Current) \in Nat /\ Len(Current) >= 8
      /\ Len(available) \in Nat /\ Len(data) <= Len(available) /\ Len(data) \in Nat
  BY <1>1, Seen, AvailableType DEF OnTrack, StreamInv, IInv, Clear, WellFormed, Refused
<1>3. UNCHANGED Current
  BY <1>1 DEF Current
<1>4. UNCHANGED WellFormed(Current) /\ UNCHANGED Headed(Current)
  BY <1>3 DEF WellFormed, Headed, Word, Width
<1>5. CASE CollectPrefix
  <2>1. Len(available) < 8 /\ UNCHANGED <<headerSize, dataSize>>
    BY <1>5 DEF CollectPrefix, packet
  <2>2. headerSize = 0 /\ dataSize = 0
    <3>1. Progress
      BY <1>2 DEF OnTrack, StreamInv, Clear
    <3> QED  BY <1>1, <1>2, <2>1, <3>1 DEF Progress, SizesRead
  <2>3. Len(available) < Len(Current)
    BY <1>2, <2>1
  <2> QED  BY <1>1, <1>2, <1>3, <2>1, <2>2, <2>3 DEF Progress, SizesRead
<1>6. CASE CollectHeader \/ CollectData
  <2>1. /\ Len(available) >= 8 /\ headerSize' = header
        /\ \/ CollectHeader /\ size = 0 /\ dataSize' = size /\ Len(available) < 8 + header + 4
           \/ CollectData /\ Sized /\ dataSize' = total /\ Len(available) < total + 8
    BY <1>6 DEF CollectHeader, CollectData, Typed
  <2>2. header = IF Headed(Current) THEN Word(Current, 4) ELSE 0
    BY <1>1, <2>1, Glimpse
  <2>3. \/ Headed(Current) /\ dataSize' = 0 /\ Len(available) < Len(Current)
        \/ WellFormed(Current) /\ dataSize' = Len(Current) - 8 /\ Len(available) < Len(Current)
    <3>1. header \in Nat
      BY <2>1, SizeTypes DEF OnTrack, StreamInv, IInv
    <3>2. CASE WellFormed(Current)
      BY <1>1, <1>2, <2>1, <3>1, <3>2, Read
    <3>3. CASE Refused(Current) /\ ~WellFormed(Current)
      <4>1. CollectHeader /\ size = 0 /\ dataSize' = 0 /\ Len(available) < 8 + header + 4
        BY <1>1, <2>1, <3>3, ReadRefused
      <4>2. Headed(Current) /\ 8 + header + 4 <= Len(Current)
        BY <1>1, <2>1, <3>3, <4>1, ReadRefused
      <4> QED  BY <1>2, <3>1, <4>1, <4>2
    <3> QED  BY <3>2, <3>3 DEF Clear
  <2>4. Len(data') >= 8 /\ headerSize' = header /\ Word(Current, 4)' = Word(Current, 4)
        /\ Len(Current)' = Len(Current)
    BY <1>1, <1>3, <2>1 DEF Word, Width
  <2>5. SizesRead'
    BY <1>2, <1>4, <2>2, <2>3, <2>4 DEF SizesRead
  <2> QED  BY <1>1, <1>3, <2>3, <2>5 DEF Progress
<1> QED  BY <1>5, <1>6

\* A finished packet is the one that was sent.
LEMMA ProgressFinish ==
  ASSUME NoWrap, OnTrack, Clear, Finish
  PROVE  Progress'
<1>1. /\ chunk # <<>> /\ ~finished /\ Len(available) >= 8 /\ Sized /\ Len(available) >= total + 8
      /\ data' = SubSeq(available, 1, total + 8) /\ finished' = TRUE
      /\ UNCHANGED <<sent, delivered>>
  BY DEF Finish, Typed, Processing
<1>2. WellFormed(Current)
  BY <1>1, ReadRefused DEF Clear
<1>3. total = Len(Current) - 8
  BY <1>1, <1>2, Read
<1>4. /\ Current \in Seq(Nat) /\ Len(Current) \in Nat
      /\ available \in Seq(Nat) /\ Len(available) \in Nat
      /\ \A i \in 1 .. Len(available) : i <= Len(Current) => available[i] = Current[i]
  BY <1>1, Seen
<1> DEFINE n == Len(Current)
<1>5. n \in 0 .. Len(available) /\ data' = SubSeq(available, 1, n)
  BY <1>1, <1>3, <1>4
<1>6. \A i \in 1 .. n : available[i] \in Nat /\ available[i] = Current[i]
  BY <1>4, <1>5, ElementOfSeq
<1> HIDE DEF n
<1>7. /\ data' \in Seq(Nat) /\ Len(data') = n
      /\ \A i \in 1 .. n - 1 + 1 : data'[i] = available[1 + i - 1]
  BY <1>5, <1>6, SubSeqProperties
<1>8. \A i \in 1 .. n : data'[i] = Current[i]
  BY <1>5, <1>6, <1>7
<1>9. data' = Current
  <2> DEFINE d == data'
  <2>1. d \in Seq(Nat) /\ Len(d) = Len(Current) /\ \A i \in 1 .. Len(d) : d[i] = Current[i]
    BY <1>7, <1>8 DEF n
  <2> HIDE DEF d
  <2>2. d = Current
    BY <1>4, <2>1, SeqEqual
  <2> QED  BY <2>2 DEF d
<1>10. UNCHANGED Current
  BY <1>1 DEF Current
<1>11. WellFormed(Current)'
  BY <1>2, <1>10 DEF WellFormed, Word, Width
<1> QED  BY <1>1, <1>9, <1>10, <1>11 DEF Progress

\* What the steps that deliver nothing leave alone.
LEMMA SameCurrent ==
  ASSUME UNCHANGED <<sent, delivered>>
  PROVE  /\ (Upright(Len(delivered)))' <=> Upright(Len(delivered))
         /\ Arriving' <=> Arriving
         /\ WellFormed(Current)' <=> WellFormed(Current)
         /\ Refused(Current)' <=> Refused(Current)
         /\ LeadArrives => LeadArrives'
<1>1. Current' = Current
  BY DEF Current
<1>2. WellFormed(Current)' <=> WellFormed(Current)
  BY <1>1 DEF WellFormed, Word, Width
<1>3. Refused(Current)' <=> Refused(Current)
  BY <1>1 DEF Refused, Word, Width
<1>4. (Upright(Len(delivered)))' <=> Upright(Len(delivered))
  BY DEF Upright
<1>5. LeadArrives => LeadArrives'
  BY DEF LeadArrives, Upright
<1> QED  BY <1>2, <1>3, <1>4, <1>5 DEF Arriving

LEMMA StreamDeliver == ASSUME NoWrap, StreamInv, Deliver, IInv', Conserved' PROVE StreamInv'
<1>1. /\ error = "none" /\ finished /\ delivered' = Append(delivered, data) /\ data' = <<>> /\ ~finished'
      /\ headerSize' = 0 /\ dataSize' = 0 /\ UNCHANGED <<sent, error>>
  BY DEF Deliver
<1>2. /\ Len(delivered) \in Nat /\ Len(sent) \in Nat /\ Len(delivered') = Len(delivered) + 1
      /\ \A i \in 1 .. Len(delivered) : delivered'[i] = delivered[i]
      /\ delivered'[Len(delivered) + 1] = data
  BY <1>1, AppendProperties, LenProperties DEF StreamInv, IInv, Types
<1>3. ASSUME NEW n \in 1 .. Len(sent), Upright(n), n <= Len(delivered')
      PROVE  delivered'[n] = sent[n]
  <2>1. CASE n <= Len(delivered)
    <3>1. delivered[n] = sent[n]
      BY <1>3, <2>1 DEF StreamInv, LeadArrives
    <3>2. n \in 1 .. Len(delivered)
      BY <1>2, <2>1
    <3> QED  BY <1>2, <3>1, <3>2
  <2>2. CASE n = Len(delivered) + 1
    <3>1. Upright(Len(delivered))
      BY <1>2, <1>3, <2>2, UprightBelow
    <3>2. WellFormed(Current) /\ Arriving
      BY <1>2, <1>3, <2>2 DEF Upright, Current, Arriving
    <3>3. Progress
      BY <1>1, <3>1, <3>2 DEF StreamInv
    <3>4. data = sent[n]
      BY <1>1, <2>2, <3>3 DEF Progress, Current
    <3> QED  BY <1>2, <2>2, <3>4
  <2> QED  BY <1>2, <1>3, <2>1, <2>2
<1>4. LeadArrives'
  <2>1. \A n \in 1 .. Len(sent') : (Upright(n))' <=> Upright(n)
    BY <1>1 DEF Upright
  <2> QED  BY <1>1, <1>3, <2>1 DEF LeadArrives
<1>5. Progress'
  <2>1. Len(data') = 0
    BY <1>1, EmptySeq
  <2> QED  BY <1>1, <2>1 DEF Progress, SizesRead
<1>6. sent' \in Streams /\ error' = "none"
  BY <1>1 DEF StreamInv
<1> QED  BY <1>4, <1>5, <1>6 DEF StreamInv

LEMMA StreamNext == ASSUME NoWrap, StreamInv, [Next]_vars PROVE StreamInv'
<1>1. IInv' /\ Conserved'
  BY InvNext, ConservedNext DEF StreamInv
<1>2. ASSUME UNCHANGED <<sent, delivered>>,
             OnTrack => IF error' = "none" THEN Arriving /\ Clear => Progress'
                                           ELSE Arriving /\ ~WellFormed(Current),
             error # "none" => UNCHANGED error
      PROVE  StreamInv'
  <2>1. LeadArrives' /\ sent' \in Streams
    BY <1>2, SameCurrent DEF StreamInv
  <2>2. ASSUME Upright(Len(delivered)), error' # "none"
        PROVE  Arriving /\ ~WellFormed(Current)
    BY <1>2, <2>2 DEF StreamInv, OnTrack
  <2>3. ASSUME Upright(Len(delivered)), error' = "none", Arriving, WellFormed(Current) \/ Refused(Current)
        PROVE  Progress'
    BY <1>2, <2>3 DEF StreamInv, OnTrack, Clear
  <2> QED  BY <1>1, <1>2, <2>1, <2>2, <2>3, SameCurrent DEF StreamInv
<1>3. CASE UNCHANGED vars \/ Receive
  <2>1. UNCHANGED <<sent, delivered, data, headerSize, dataSize, finished, error>>
    BY <1>3 DEF vars, packet, Receive
  <2>2. Progress => Progress'
    <3>1. Current' = Current
      BY <2>1 DEF Current
    <3> QED  BY <2>1, <3>1 DEF Progress, SizesRead, WellFormed, Headed, Word, Width
  <2>3. OnTrack => error' = "none" /\ (Arriving /\ Clear => Progress')
    BY <2>1, <2>2 DEF OnTrack, StreamInv, Clear
  <2> QED  BY <1>2, <2>1, <2>3
<1>4. CASE CollectPrefix \/ CollectHeader \/ CollectData
  <2>1. UNCHANGED <<sent, delivered, error>>
    BY <1>4 DEF CollectPrefix, CollectHeader, CollectData, Typed, Collect
  <2>2. OnTrack => error' = "none" /\ (Clear => Progress')
    BY <1>4, <2>1, ProgressCollect DEF OnTrack
  <2> QED  BY <1>2, <2>1, <2>2
<1>5. CASE Finish
  <2>1. UNCHANGED <<sent, delivered, error>>
    BY <1>5 DEF Finish, Typed
  <2>2. OnTrack => error' = "none" /\ (Clear => Progress')
    BY <1>5, <2>1, ProgressFinish DEF OnTrack
  <2> QED  BY <1>2, <2>1, <2>2
<1>6. CASE RejectMagic \/ RejectSize \/ RejectEmpty \/ RejectTotal \/ RejectWrapped
  <2>1. UNCHANGED <<sent, delivered>> /\ error' # "none" /\ chunk # <<>> /\ error = "none"
    BY <1>6 DEF RejectMagic, RejectSize, RejectEmpty, RejectTotal, RejectWrapped, Typed, Processing, Throw
  <2>2. OnTrack => Arriving /\ ~WellFormed(Current)
    BY <1>6, <2>1, NothingThrown, Seen
  <2> QED  BY <1>2, <2>1, <2>2
<1>7. CASE Deliver
  BY <1>1, <1>7, StreamDeliver
<1> QED  BY <1>3, <1>4, <1>5, <1>6, <1>7 DEF Next, process

LEMMA StreamInvariance == ASSUME NoWrap PROVE Spec => []StreamInv
BY StreamInit, StreamNext, PTL DEF Spec

-----------------------------------------------------------------------------

\* What the first n packets of a stream find if all of them are well-formed: there is
\* no exception before them, packet n is delivered as it was sent, and it is not
\* held back once all of it has been received.
Arrives(n) ==
  /\ error # "none" => n <= Len(delivered)
  /\ n <= Len(delivered) => delivered[n] = sent[n]
  /\ error = "none" /\ ~finished /\ data # <<>> /\ n = Len(delivered) + 1 => Len(data) < Len(sent[n])

\* Whatever a stream holds, the well-formed packets it begins with arrive: neither
\* the way they are cut into buffers nor what follows them disturbs them.
THEOREM LeadingPacketsArrive ==
  ASSUME NoWrap
  PROVE  Spec => [](\A n \in 1 .. Len(sent) : Upright(n) => Arrives(n))
<1>1. ASSUME StreamInv, NEW n \in 1 .. Len(sent), Upright(n)
      PROVE  Arrives(n)
  <2>1. Len(delivered) \in Nat /\ Len(sent) \in Nat
    BY <1>1, LenProperties DEF StreamInv, IInv, Types
  <2>2. ASSUME ~(n <= Len(delivered)) PROVE Upright(Len(delivered)) /\ WellFormed(Current) /\ Arriving
    <3>1. Upright(Len(delivered))
      BY <1>1, <2>1, <2>2, UprightBelow
    <3>2. Len(delivered) + 1 \in 1 .. n
      BY <2>1, <2>2
    <3> QED  BY <1>1, <2>1, <3>1, <3>2 DEF Upright, Current, Arriving
  <2>3. error # "none" => n <= Len(delivered)
    BY <1>1, <2>2 DEF StreamInv
  <2>4. n <= Len(delivered) => delivered[n] = sent[n]
    BY <1>1 DEF StreamInv, LeadArrives
  <2>5. ASSUME error = "none", ~finished, data # <<>>, n = Len(delivered) + 1 PROVE Len(data) < Len(sent[n])
    <3>1. Progress /\ Current = sent[n]
      BY <1>1, <2>1, <2>2, <2>5 DEF StreamInv, Current
    <3> QED  BY <2>5, <3>1 DEF Progress
  <2> QED  BY <2>3, <2>4, <2>5 DEF Arrives
<1> DEFINE AllArrive == \A n \in 1 .. Len(sent) : Upright(n) => Arrives(n)
<1>2. StreamInv => AllArrive
  BY <1>1
<1> HIDE DEF AllArrive
<1>3. Spec => []AllArrive
  BY <1>2, StreamInvariance, PTL
<1> QED  BY <1>3 DEF AllArrive

\* If what follows them is refused, it is never taken for a packet, and neither is
\* anything behind it.
ProperStream ==
  \A i \in DOMAIN sent : WellFormed(sent[i]) \/ \E j \in 1 .. i : Refused(sent[j])

OnlyUpright == StreamInv /\ ProperStream /\ Upright(Len(delivered))

LEMMA CurrentIsClear ==
  ASSUME OnlyUpright, Arriving
  PROVE  Clear
<1>1. Len(delivered) \in Nat /\ Len(sent) \in Nat /\ sent \in Streams
  BY LenProperties DEF OnlyUpright, StreamInv, IInv, Types
<1> DEFINE c == Len(delivered) + 1
<1>2. c \in 1 .. Len(sent) /\ c \in DOMAIN sent
  <2>1. DOMAIN sent = 1 .. Len(sent)
    BY LenProperties DEF OnlyUpright, StreamInv, IInv, Types
  <2> QED  BY <1>1, <2>1 DEF Arriving
<1>3. WellFormed(sent[c]) \/ \E j \in 1 .. c : Refused(sent[j])
  BY <1>1, <1>2 DEF OnlyUpright, ProperStream
<1>4. ASSUME NEW j \in 1 .. c, Refused(sent[j]) PROVE j = c
  <2>1. SUFFICES ASSUME j # c PROVE FALSE
    OBVIOUS
  <2>2. j \in 1 .. Len(delivered)
    BY <1>1, <2>1
  <2>3. WellFormed(sent[j])
    BY <2>2 DEF OnlyUpright, Upright
  <2>4. sent[j] \in Seq(Nat)
    <3>1. j \in 1 .. Len(sent)
      BY <1>1, <1>2, <2>2
    <3> QED  BY <3>1, ElementOfSeq DEF OnlyUpright, StreamInv, IInv, Types
  <2> QED  BY <1>4, <2>3, <2>4, NeverBoth
<1> QED  BY <1>3, <1>4 DEF Clear, Current

LEMMA OnlyUprightInit == ASSUME Init, ProperStream PROVE OnlyUpright
<1>1. StreamInv
  BY StreamInit
<1>2. Len(delivered) = 0 /\ Len(sent) \in Nat
  BY <1>1, EmptySeq, LenProperties DEF Init, StreamInv, IInv, Types
<1> QED  BY <1>1, <1>2 DEF OnlyUpright, Upright

LEMMA OnlyUprightNext == ASSUME NoWrap, OnlyUpright, [Next]_vars PROVE OnlyUpright'
<1>1. StreamInv /\ StreamInv'
  BY StreamNext DEF OnlyUpright
<1>2. UNCHANGED <<sent, delivered>> \/ Deliver
  BY DEF Next, vars, process, Receive, CollectPrefix, CollectHeader, CollectData, Finish,
     RejectMagic, RejectSize, RejectEmpty, RejectTotal, RejectWrapped, Typed
<1>3. ProperStream'
  <2>1. UNCHANGED sent
    BY <1>2 DEF Deliver
  <2> QED  BY <2>1 DEF OnlyUpright, ProperStream
<1>4. CASE UNCHANGED <<sent, delivered>>
  BY <1>1, <1>3, <1>4, SameCurrent DEF OnlyUpright
<1>5. CASE Deliver
  <2>1. /\ error = "none" /\ finished /\ delivered' = Append(delivered, data) /\ UNCHANGED sent
    BY <1>5 DEF Deliver
  <2>2. Len(delivered) \in Nat /\ Len(sent) \in Nat /\ Len(delivered') = Len(delivered) + 1 /\ Len(data) \in Nat
    BY <1>1, <2>1, AppendProperties, LenProperties DEF StreamInv, IInv, Types
  <2>3. Arriving
    <3>1. Len(data) # 0
      BY <1>1, <2>1, Constants DEF StreamInv, IInv, Types, Complete
    <3>2. Len(Ahead) = Len(data) + Len(chunk) + Len(rest) /\ Len(chunk) \in Nat /\ Len(rest) \in Nat
      BY <1>1, Closed, ConcatProperties, LenProperties DEF StreamInv, IInv, Types, Ahead
    <3>3. Len(Ahead) # 0
      BY <2>2, <3>1, <3>2
    <3>4. Ahead # <<>>
      BY <3>3, EmptySeq
    <3> QED  BY <2>1, <3>4, AheadIsCurrent DEF OnTrack, OnlyUpright
  <2>4. WellFormed(Current)
    <3>1. Progress
      BY <1>1, <2>1, <2>3, CurrentIsClear DEF OnlyUpright, StreamInv, Clear
    <3> QED  BY <2>1, <3>1 DEF Progress
  <2>5. Upright(Len(delivered) + 1)
    BY <2>2, <2>3, <2>4, UprightNext DEF OnlyUpright, Arriving, Current
  <2>6. (Upright(Len(delivered)))'
    BY <2>1, <2>2, <2>5 DEF Upright
  <2> QED  BY <1>1, <1>3, <2>6 DEF OnlyUpright
<1> QED  BY <1>2, <1>4, <1>5

LEMMA OnlyUprightInvariance == ASSUME ProperStreams PROVE Spec => []OnlyUpright
<1>1. NoWrap
  BY DEF ProperStreams, NoWrap
<1>2. Init => OnlyUpright
  BY OnlyUprightInit DEF ProperStreams, ProperStream, Init
<1>3. OnlyUpright /\ [Next]_vars => OnlyUpright'
  BY <1>1, OnlyUprightNext
<1> QED  BY <1>2, <1>3, PTL DEF Spec

\* No well-formed packet raises an exception, wherever a buffer ends: the sizes
\* that are read again from incomplete packets are never mistaken.
THEOREM NoFalseAlarm == ASSUME ProperStreams PROVE Spec => []RejectsOnlyMalformed
<1>1. OnlyUpright => RejectsOnlyMalformed
  BY DEF OnlyUpright, StreamInv, RejectsOnlyMalformed, Arriving, Current
<1> QED  BY <1>1, OnlyUprightInvariance, PTL

LEMMA DeliveredInOrder ==
  ASSUME StreamInv, Upright(Len(delivered))
  PROVE  Len(delivered) <= Len(sent) /\ delivered = SubSeq(sent, 1, Len(delivered))
<1>1. /\ delivered \in Seq(Seq(Nat)) /\ sent \in Seq(Seq(Nat))
      /\ Len(delivered) \in Nat /\ Len(sent) \in Nat /\ Len(delivered) <= Len(sent)
      /\ \A i \in 1 .. Len(delivered) : delivered[i] = sent[i]
  BY InOrder, LenProperties DEF StreamInv, IInv, Types, Starts
<1> DEFINE n == Len(delivered)
           s == SubSeq(sent, 1, n)
<1>2. \A i \in 1 .. n : sent[i] \in Seq(Nat)
  BY <1>1, ElementOfSeq
<1>3. n \in Nat
  BY <1>1
<1> HIDE DEF n
<1>4. s \in Seq(Seq(Nat)) /\ Len(s) = n /\ \A i \in 1 .. n - 1 + 1 : s[i] = sent[1 + i - 1]
  BY <1>2, <1>3, SubSeqProperties
<1> HIDE DEF s
<1>5. Len(delivered) = Len(s) /\ \A i \in 1 .. Len(delivered) : delivered[i] = s[i]
  BY <1>1, <1>3, <1>4 DEF n
<1>6. delivered = s
  BY <1>1, <1>4, <1>5, SeqEqual
<1> QED  BY <1>1, <1>6 DEF s, n

\* The client takes exactly the packets that were sent, in order.
THEOREM PacketsArriveInOrder == ASSUME ProperStreams PROVE Spec => []DeliveredAsSent
<1>1. OnlyUpright => DeliveredAsSent
  BY DeliveredInOrder DEF OnlyUpright, DeliveredAsSent
<1> QED  BY <1>1, OnlyUprightInvariance, PTL

LEMMA LacksBytes ==
  ASSUME OnlyUpright, error = "none", ~finished, data # <<>>
  PROVE  Arriving /\ Len(data) < Len(Current)
<1>1. Arriving
  <2>1. Len(data) # 0 /\ Len(data) \in Nat
    BY EmptySeq, LenProperties DEF OnlyUpright, StreamInv, IInv, Types
  <2>2. Len(Ahead) = Len(data) + Len(chunk) + Len(rest) /\ Len(chunk) \in Nat /\ Len(rest) \in Nat
    BY Closed, ConcatProperties, LenProperties DEF OnlyUpright, StreamInv, IInv, Types, Ahead
  <2>3. Len(Ahead) # 0
    BY <2>1, <2>2
  <2>4. Ahead # <<>>
    BY <2>3, EmptySeq
  <2> QED  BY <2>4, AheadIsCurrent DEF OnTrack, OnlyUpright
<1>2. Progress
  BY <1>1, CurrentIsClear DEF OnlyUpright, StreamInv, Clear
<1> QED  BY <1>1, <1>2 DEF Progress

\* When all received bytes are used and no packet is finished, the packet at
\* hand really lacks bytes: it is not held back until the next one comes.
THEOREM CompletePacketIsFinished == ASSUME ProperStreams PROVE Spec => []NotHeldBack
<1>1. OnlyUpright => NotHeldBack
  BY LacksBytes DEF NotHeldBack, Arriving, Current
<1> QED  BY <1>1, OnlyUprightInvariance, PTL

-----------------------------------------------------------------------------
(* Sizes: what Word reads is what encodeInteger has written.  *)

LEMMA IntegerType ==
  ASSUME NEW n \in Nat
  PROVE  P!encodeInteger(n) \in Seq(Nat) /\ Len(P!encodeInteger(n)) = 4
<1> DEFINE j == n \div Radix
           k == j \div Radix
           l == k \div Radix
<1>1. Radix \in Nat \ {0}
  BY Constants
<1>2. j \in Nat /\ n % Radix \in Nat
  BY <1>1, QuotientType
<1> HIDE DEF j
<1>3. k \in Nat /\ j % Radix \in Nat
  BY <1>1, <1>2, QuotientType
<1> HIDE DEF k
<1>4. l \in Nat /\ k % Radix \in Nat
  BY <1>1, <1>3, QuotientType
<1> HIDE DEF l
<1>5. l % Radix \in Nat
  BY <1>1, <1>4, QuotientType
<1>6. P!encodeInteger(n) = <<l % Radix, k % Radix, j % Radix, n % Radix>>
  BY DEF P!encodeInteger, l, k, j
<1>7. ASSUME NEW a \in Nat, NEW b \in Nat, NEW c \in Nat, NEW d \in Nat
      PROVE  <<a, b, c, d>> \in Seq(Nat) /\ Len(<<a, b, c, d>>) = 4
  OBVIOUS
<1> QED  BY <1>2, <1>3, <1>4, <1>5, <1>6, <1>7

LEMMA WordOfInteger ==
  ASSUME NEW n \in 0 .. Width - 1
  PROVE  Word(P!encodeInteger(n), 0) = n
<1> DEFINE j == n \div Radix
           k == j \div Radix
           l == k \div Radix
<1>1. Radix \in Nat \ {0} /\ Width \in Nat \ {0}
  BY Constants
<1>2. /\ n \in Nat /\ n % Radix \in Nat /\ n = j * Radix + (n % Radix) /\ j \in Nat
      /\ j < (Radix * Radix) * Radix
  <2>1. n \in Nat /\ n < ((Radix * Radix) * Radix) * Radix
    BY <1>1 DEF Width
  <2>2. (Radix * Radix) * Radix \in Nat
    BY <1>1
  <2> QED  BY <1>1, <2>1, <2>2, DigitBounds
<1> HIDE DEF j
<1>3. j % Radix \in Nat /\ j = k * Radix + (j % Radix) /\ k \in Nat /\ k < Radix * Radix
  <2>1. Radix * Radix \in Nat
    BY <1>1
  <2> QED  BY <1>1, <1>2, <2>1, DigitBounds
<1> HIDE DEF k
<1>4. k % Radix \in Nat /\ k = l * Radix + (k % Radix) /\ l \in Nat /\ l < Radix
  BY <1>1, <1>3, DigitBounds
<1> HIDE DEF l
<1>5. l % Radix = l
  BY <1>1, <1>4, Remainders
<1>6. P!encodeInteger(n) = <<l, k % Radix, j % Radix, n % Radix>>
  BY <1>5 DEF P!encodeInteger, l, k, j
<1>7. ((l * Radix + (k % Radix)) * Radix + (j % Radix)) * Radix + (n % Radix) = n
  BY <1>2, <1>3, <1>4
<1>8. Word(P!encodeInteger(n), 0)
        = (((l * Radix + (k % Radix)) * Radix + (j % Radix)) * Radix + (n % Radix)) % Width
  <2> DEFINE s == <<l, k % Radix, j % Radix, n % Radix>>
  <2>1. s[1] = l /\ s[2] = k % Radix /\ s[3] = j % Radix /\ s[4] = n % Radix
    OBVIOUS
  <2>2. 0 + 1 = 1 /\ 0 + 2 = 2 /\ 0 + 3 = 3 /\ 0 + 4 = 4
    OBVIOUS
  <2> QED  BY <1>6, <2>1, <2>2 DEF Word
<1>9. n % Width = n
  BY Remainder
<1> QED  BY <1>7, <1>8, <1>9

-----------------------------------------------------------------------------
(* Packets: where the sizes are.  *)

LEMMA Halves ==
  ASSUME NEW s \in Seq(Nat), NEW u \in Seq(Nat)
  PROVE  SubSeq(s \o u, 1, Len(s)) = s /\ SubSeq(s \o u, Len(s) + 1, Len(s \o u)) = u
<1> DEFINE t == s \o u
           n == Len(s)
           first == SubSeq(t, 1, n)
           second == SubSeq(t, n + 1, Len(t))
<1>1. /\ t \in Seq(Nat) /\ n \in Nat /\ Len(t) = n + Len(u) /\ Len(u) \in Nat
      /\ \A i \in 1 .. n : t[i] = s[i]
  BY ConcatProperties, LenProperties
<1>2. n \in 0 .. Len(t) /\ \A i \in 1 .. n : t[i] \in Nat
  <2>1. \A i \in 1 .. n : s[i] \in Nat
    BY ElementOfSeq
  <2> QED  BY <1>1, <2>1
<1> HIDE DEF n, t
<1>3. first \in Seq(Nat) /\ second \in Seq(Nat) /\ Len(first) = n /\ first \o second = t
  BY <1>1, <1>2, Prefix
<1>4. \A i \in 1 .. n : first[i] = t[i]
  <2>1. \A i \in 1 .. n - 1 + 1 : first[i] = t[1 + i - 1]
    BY <1>1, <1>2, SubSeqProperties
  <2>2. n - 1 + 1 = n /\ \A i \in 1 .. n : 1 + i - 1 = i
    BY <1>1
  <2> QED  BY <2>1, <2>2
<1> HIDE DEF first, second
<1>5. first = s
  BY <1>1, <1>3, <1>4, SeqEqual DEF n
<1>6. second = u
  BY <1>3, <1>5, ConcatSimplifications DEF t
<1> QED  BY <1>5, <1>6 DEF first, second, n, t

Between(s, t, u) == s \o t \o u

LEMMA BetweenType ==
  ASSUME NEW s \in Seq(Nat), NEW t \in Seq(Nat), NEW u \in Seq(Nat)
  PROVE  /\ Between(s, t, u) \in Seq(Nat) /\ Len(Between(s, t, u)) = Len(s) + Len(t) + Len(u)
         /\ Len(s) \in Nat /\ Len(t) \in Nat /\ Len(u) \in Nat
<1>1. s \o t \in Seq(Nat) /\ Len(s \o t) = Len(s) + Len(t)
  BY ConcatProperties
<1>2. (s \o t) \o u \in Seq(Nat) /\ Len((s \o t) \o u) = Len(s \o t) + Len(u)
  BY <1>1, ConcatProperties
<1>3. Len(s) \in Nat /\ Len(t) \in Nat /\ Len(u) \in Nat
  BY LenProperties
<1> QED  BY <1>1, <1>2, <1>3 DEF Between

LEMMA BetweenInside ==
  ASSUME NEW o \in Seq(Nat), NEW t \in Seq(Nat), NEW f \in Seq(Nat), NEW w \in Seq(Nat),
         NEW u \in Seq(Nat)
  PROVE  /\ Between(Between(o, t, f), w, u) = Between(o, t, Between(f, w, u))
         /\ Between(Between(o, t, f), w, u) = Between(o, t \o f, w \o u)
<1> DEFINE a == o \o t
           g == a \o f
           v == w \o u
           h == t \o f
<1>1. a \in Seq(Nat) /\ v \in Seq(Nat) /\ h \in Seq(Nat)
  BY Closed
<1>2. g = o \o h
  BY Associative, ZenonT(60)
<1>3. f \o v = f \o w \o u
  BY Associative, ZenonT(60)
<1> HIDE DEF a, h
<1>4. g \in Seq(Nat)
  BY <1>1, Closed
<1> HIDE DEF g
<1>5. g \o w \o u = g \o v
  BY <1>4, Associative, ZenonT(60)
<1> HIDE DEF v
<1>6. (a \o f) \o v = a \o (f \o v)
  <2>1. \A r \in Seq(Nat), q \in Seq(Nat) : r \o f \o q = r \o (f \o q)
    BY Associative, ZenonT(60)
  <2> QED  BY <1>1, <2>1, ZenonT(60)
<1>7. g \o v = o \o t \o (f \o v) /\ g \o v = o \o h \o v
  BY <1>2, <1>6 DEF g, a
<1> QED  BY <1>3, <1>5, <1>7 DEF Between, g, a, v, h

LEMMA InsertBetween ==
  ASSUME NEW s \in Seq(Nat), NEW t \in Seq(Nat), NEW u \in Seq(Nat)
  PROVE  P!Insert(s \o u, Len(s), t) = Between(s, t, u)
BY Halves DEF P!Insert, Between

LEMMA ElementBetween ==
  ASSUME NEW s \in Seq(Nat), NEW t \in Seq(Nat), NEW u \in Seq(Nat), NEW i \in 1 .. Len(t)
  PROVE  (s \o t \o u)[Len(s) + i] = t[i]
<1>1. /\ s \o t \in Seq(Nat) /\ Len(s \o t) = Len(s) + Len(t)
      /\ Len(s) \in Nat /\ Len(t) \in Nat /\ Len(u) \in Nat
  BY ConcatProperties, LenProperties
<1> DEFINE n == Len(s) + i
<1>2. n \in 1 .. Len(s) + Len(t) /\ n \in 1 .. Len(s \o t) + Len(u) /\ n <= Len(s \o t)
      /\ ~(n <= Len(s)) /\ n - Len(s) = i
  BY <1>1
<1> HIDE DEF n
<1>3. (s \o t \o u)[n] = (s \o t)[n]
  BY <1>1, <1>2, ConcatProperties
<1>4. (s \o t)[n] = t[n - Len(s)]
  BY <1>2, ConcatProperties
<1> QED  BY <1>2, <1>3, <1>4 DEF n

LEMMA WordBetween ==
  ASSUME NEW s \in Seq(Nat), NEW n \in 0 .. Width - 1, NEW u \in Seq(Nat)
  PROVE  Word(Between(s, P!encodeInteger(n), u), Len(s)) = n
<1> DEFINE t == P!encodeInteger(n)
           p == Between(s, t, u)
<1>1. n \in Nat /\ t \in Seq(Nat) /\ Len(t) = 4
  BY IntegerType, Constants
<1>2. 1 \in 1 .. Len(t) /\ 2 \in 1 .. Len(t) /\ 3 \in 1 .. Len(t) /\ 4 \in 1 .. Len(t)
  BY <1>1
<1> HIDE DEF t
<1>3. p[Len(s) + 1] = t[1] /\ p[Len(s) + 2] = t[2] /\ p[Len(s) + 3] = t[3] /\ p[Len(s) + 4] = t[4]
  BY <1>1, <1>2, ElementBetween, ZenonT(60) DEF Between
<1> HIDE DEF p
<1>4. 0 + 1 = 1 /\ 0 + 2 = 2 /\ 0 + 3 = 3 /\ 0 + 4 = 4
  OBVIOUS
<1>5. Word(p, Len(s)) = Word(t, 0)
  BY <1>3, <1>4 DEF Word
<1> QED  BY <1>5, WordOfInteger DEF p, t

\* What the packets begin with.
Opening(b) == P!Start \o <<b>>

Plain(b, body) == Between(Opening(b), P!encodeInteger(Len(body)), body)

Full(b, f, body) ==
  Between(Between(Opening(b), P!encodeInteger(Len(f)), f), P!encodeInteger(Len(body)), body)

LEMMA OpeningProperties ==
  ASSUME NEW b \in Nat
  PROVE  /\ Opening(b) \in Seq(Nat) /\ Len(Opening(b)) = 4 /\ Opening(b)[4] = b
         /\ \A s \in Seq(Nat) : (Opening(b) \o s)[4] = b /\ SubSeq(Opening(b) \o s, 1, 3) = Magic
<1>1. P!Start \in Seq(Nat) /\ Len(P!Start) = 3 /\ <<b>> \in Seq(Nat) /\ Len(<<b>>) = 1
      /\ <<b>>[1] = b
  BY DEF P!Start
<1>2. Opening(b) \in Seq(Nat) /\ Len(Opening(b)) = 4 /\ Opening(b)[4] = b
  <2>1. Opening(b) = Append(P!Start, b)
    BY <1>1, AppendIsConcat DEF Opening
  <2>2. /\ Append(P!Start, b) \in Seq(Nat)
        /\ Len(Append(P!Start, b)) = Len(P!Start) + 1
        /\ Append(P!Start, b)[Len(P!Start) + 1] = b
    BY <1>1, AppendProperties, ZenonT(60)
  <2>3. Len(P!Start) + 1 = 4
    BY <1>1
  <2> HIDE DEF Opening
  <2> QED  BY <2>1, <2>2, <2>3
<1>3. ASSUME NEW s \in Seq(Nat) PROVE (Opening(b) \o s)[4] = b
  <2>1. Len(s) \in Nat
    BY LenProperties
  <2>2. 4 \in 1 .. Len(Opening(b)) + Len(s) /\ 4 <= Len(Opening(b))
    BY <1>2, <2>1
  <2> QED  BY <1>2, <2>2, ConcatProperties
<1>4. ASSUME NEW s \in Seq(Nat) PROVE SubSeq(Opening(b) \o s, 1, 3) = Magic
  <2>1. <<b>> \o s \in Seq(Nat) /\ Opening(b) \o s = P!Start \o (<<b>> \o s)
    BY <1>1, ConcatAssociative, ConcatProperties DEF Opening
  <2>2. SubSeq(P!Start \o (<<b>> \o s), 1, Len(P!Start)) = P!Start
    BY <1>1, <2>1, Halves
  <2> QED  BY <1>1, <2>1, <2>2 DEF P!Start, Magic
<1> QED  BY <1>2, <1>3, <1>4

LEMMA OpeningBetween ==
  ASSUME NEW b \in Nat, NEW t \in Seq(Nat), NEW u \in Seq(Nat)
  PROVE  Between(Opening(b), t, u)[4] = b /\ SubSeq(Between(Opening(b), t, u), 1, 3) = Magic
<1>1. t \o u \in Seq(Nat) /\ Opening(b) \in Seq(Nat)
  BY Closed, OpeningProperties
<1>2. Between(Opening(b), t, u) = Opening(b) \o (t \o u)
  <2> HIDE DEF Opening
  <2> QED  BY <1>1, Associative, ZenonT(60) DEF Between
<1> QED  BY <1>1, <1>2, OpeningProperties

LEMMA PlainLength ==
  ASSUME NEW b \in Nat, NEW body \in Seq(Nat)
  PROVE  Plain(b, body) \in Seq(Nat) /\ Len(Plain(b, body)) = 8 + Len(body)
<1> DEFINE o == Opening(b)
           t == P!encodeInteger(Len(body))
<1>1. o \in Seq(Nat) /\ Len(o) = 4 /\ Len(body) \in Nat
  BY OpeningProperties, LenProperties
<1>2. t \in Seq(Nat) /\ Len(t) = 4
  BY <1>1, IntegerType
<1> HIDE DEF o, t
<1>3. Between(o, t, body) \in Seq(Nat) /\ Len(Between(o, t, body)) = Len(o) + Len(t) + Len(body)
  BY <1>1, <1>2, BetweenType
<1>4. Len(Between(o, t, body)) = 8 + Len(body)
  BY <1>1, <1>2, <1>3
<1> QED  BY <1>3, <1>4 DEF Plain, o, t

LEMMA FullLength ==
  ASSUME NEW b \in Nat, NEW f \in Seq(Nat), NEW body \in Seq(Nat)
  PROVE  Full(b, f, body) \in Seq(Nat) /\ Len(Full(b, f, body)) = 8 + (Len(f) + 4 + Len(body))
<1> DEFINE o == Opening(b)
           t == P!encodeInteger(Len(f))
           w == P!encodeInteger(Len(body))
           g == Between(o, t, f)
<1>1. o \in Seq(Nat) /\ Len(o) = 4 /\ Len(f) \in Nat /\ Len(body) \in Nat
  BY OpeningProperties, LenProperties
<1>2. t \in Seq(Nat) /\ Len(t) = 4 /\ w \in Seq(Nat) /\ Len(w) = 4
  BY <1>1, IntegerType
<1> HIDE DEF o, t, w
<1>3. g \in Seq(Nat) /\ Len(g) = Len(o) + Len(t) + Len(f)
  BY <1>1, <1>2, BetweenType, ZenonT(60)
<1> HIDE DEF g
<1>4. Between(g, w, body) \in Seq(Nat) /\ Len(Between(g, w, body)) = Len(g) + Len(w) + Len(body)
  BY <1>2, <1>3, BetweenType
<1>5. Len(Between(g, w, body)) = 8 + (Len(f) + 4 + Len(body))
  BY <1>1, <1>2, <1>3, <1>4
<1> QED  BY <1>4, <1>5 DEF Full, g, o, t, w

LEMMA PlainIsWellFormed ==
  ASSUME NoWrap, NEW b \in Nat, b \notin WithHeader,
         NEW body \in Seq(Nat), body # <<>>, Len(body) <= MaxData
  PROVE  /\ Plain(b, body) \in Seq(Nat) /\ Len(Plain(b, body)) = 8 + Len(body)
         /\ Plain(b, body)[4] = b /\ WellFormed(Plain(b, body))
<1> DEFINE n == Len(body)
           o == Opening(b)
           t == P!encodeInteger(n)
           p == Between(o, t, body)
<1>1. n \in Nat /\ n \in 1 .. MaxData /\ n \in 0 .. Width - 1
  <2>1. n \in Nat /\ n # 0
    BY EmptySeq, LenProperties
  <2> QED  BY <2>1, Constants DEF NoWrap
<1>2. t \in Seq(Nat) /\ Len(t) = 4
  BY <1>1, IntegerType
<1>3. o \in Seq(Nat) /\ Len(o) = 4
  BY OpeningProperties
<1>4. Word(p, Len(o)) = n
  BY <1>1, <1>3, WordBetween
<1>5. p[4] = b /\ SubSeq(p, 1, 3) = Magic
  BY <1>2, OpeningBetween
<1> HIDE DEF o, t
<1>6. p \in Seq(Nat) /\ Len(p) = Len(o) + Len(t) + n
  BY <1>2, <1>3, BetweenType
<1> HIDE DEF p, n
<1>7. Len(p) > 8 /\ Word(p, 4) \in 1 .. MaxData /\ Len(p) = 8 + Word(p, 4) /\ Len(p) = 8 + n
  BY <1>1, <1>2, <1>3, <1>4, <1>6
<1>8. WellFormed(p)
  BY <1>5, <1>7 DEF WellFormed
<1>9. p = Plain(b, body) /\ n = Len(body)
  BY DEF Plain, p, o, t, n
<1> QED  BY <1>5, <1>6, <1>7, <1>8, <1>9

LEMMA FullIsWellFormed ==
  ASSUME NoWrap, NEW b \in WithHeader,
         NEW f \in Seq(Nat), f # <<>>, Len(f) <= MaxHeader,
         NEW body \in Seq(Nat), Len(f) + 4 + Len(body) <= MaxData
  PROVE  /\ Full(b, f, body) \in Seq(Nat) /\ Len(Full(b, f, body)) = 8 + (Len(f) + 4 + Len(body))
         /\ Full(b, f, body)[4] = b /\ WellFormed(Full(b, f, body))
<1> DEFINE m == Len(f)
           n == Len(body)
           o == Opening(b)
           t == P!encodeInteger(m)
           w == P!encodeInteger(n)
           g == Between(o, t, f)
           v == Between(f, w, body)
           p == Between(g, w, body)
<1>1. /\ m \in Nat /\ n \in Nat /\ m \in 1 .. MaxHeader /\ m + 4 + n <= MaxData
      /\ m \in 0 .. Width - 1 /\ n \in 0 .. Width - 1
  <2>1. m \in Nat /\ m # 0 /\ n \in Nat
    BY EmptySeq, LenProperties
  <2> HIDE DEF m, n
  <2>2. m <= MaxHeader /\ m + 4 + n <= MaxData
    BY DEF m, n
  <2> QED  BY <2>1, <2>2, Constants DEF NoWrap
<1>2. t \in Seq(Nat) /\ Len(t) = 4 /\ w \in Seq(Nat) /\ Len(w) = 4
  BY <1>1, IntegerType
<1>3. b \in Nat /\ o \in Seq(Nat) /\ Len(o) = 4
  <2>1. b \in Nat
    BY DEF WithHeader
  <2> QED  BY <2>1, OpeningProperties
<1>4. g \in Seq(Nat) /\ Len(g) = Len(o) + Len(t) + m /\ v \in Seq(Nat)
  <2> HIDE DEF o, t, w
  <2> QED  BY <1>2, <1>3, BetweenType, ZenonT(60)
<1>5. p = Between(o, t, v)
  <2> HIDE DEF o, t, w
  <2> QED  BY <1>2, <1>3, BetweenInside
<1>6. Word(p, Len(o)) = m
  <2> HIDE DEF o, v, p, m
  <2> QED  BY <1>1, <1>3, <1>4, <1>5, WordBetween
<1>7. Word(p, Len(g)) = n
  <2> HIDE DEF g, n
  <2> QED  BY <1>1, <1>4, WordBetween
<1>8. p[4] = b /\ SubSeq(p, 1, 3) = Magic
  <2> HIDE DEF p, v, t
  <2> QED  BY <1>2, <1>3, <1>4, <1>5, OpeningBetween, ZenonT(60)
<1>9. p \in Seq(Nat) /\ Len(p) = Len(g) + Len(w) + n
  <2> HIDE DEF g, w
  <2> QED  BY <1>2, <1>4, BetweenType, ZenonT(60)
<1>10. p = Full(b, f, body) /\ m = Len(f) /\ n = Len(body)
  BY DEF Full
<1> HIDE DEF p, g, o, t, w, v, m, n
<1>11. Word(p, 4) = m /\ Len(g) = 8 + m /\ Len(p) = 8 + (m + 4 + n)
  BY <1>1, <1>2, <1>3, <1>4, <1>6, <1>9
<1>12. Word(p, 8 + Word(p, 4)) = n
  BY <1>7, <1>11
<1>13. /\ Len(p) > 8 /\ Word(p, 4) \in 1 .. MaxHeader /\ Len(p) >= 8 + Word(p, 4) + 4
       /\ Len(p) = 8 + Word(p, 4) + 4 + Word(p, 8 + Word(p, 4)) /\ Len(p) - 8 <= MaxData
  <2>1. MaxHeader \in Nat /\ MaxData \in Nat
    BY Constants
  <2>2. Len(p) = 8 + m + 4 + n /\ Len(p) > 8 /\ Len(p) >= 8 + m + 4 /\ Len(p) - 8 <= MaxData
    BY <1>1, <1>11, <2>1
  <2> QED  BY <1>1, <1>11, <1>12, <2>2
<1>14. WellFormed(p)
  BY <1>8, <1>13 DEF WellFormed
<1> QED  BY <1>8, <1>9, <1>10, <1>11, <1>14

-----------------------------------------------------------------------------
(* RpcEncoder makes packets of these two forms.  *)

LEMMA FieldsType ==
  ASSUME NEW a \in Seq(Nat)
  PROVE  P!fields(a) \in Seq(Nat) /\ P!fields(a) # <<>>
<1> DEFINE one == P!encodeInteger(1)
           name == P!encodeString(P!AuthorizationName)
           value == P!encodeString(a)
<1>1. one \in Seq(Nat) /\ Len(one) = 4
  BY IntegerType
<1>2. ASSUME NEW s \in Seq(Nat) PROVE P!encodeString(s) \in Seq(Nat)
  <2>1. Len(s) \in Nat
    BY LenProperties
  <2>2. P!encodeInteger(Len(s)) \in Seq(Nat)
    BY <2>1, IntegerType
  <2> QED  BY <2>2, Closed DEF P!encodeString
<1>3. P!AuthorizationName \in Seq(Nat)
  BY DEF P!AuthorizationName
<1>4. name \in Seq(Nat) /\ value \in Seq(Nat)
  BY <1>2, <1>3
<1>5. P!fields(a) = Between(one, name, value)
  BY DEF P!fields, Between
<1> HIDE DEF one, name, value
<1>6. Between(one, name, value) \in Seq(Nat)
      /\ Len(Between(one, name, value)) = Len(one) + Len(name) + Len(value)
      /\ Len(name) \in Nat /\ Len(value) \in Nat
  BY <1>1, <1>4, BetweenType
<1>7. Len(Between(one, name, value)) # 0
  BY <1>1, <1>6
<1> QED  BY <1>5, <1>6, <1>7, EmptySeq

LEMMA HeaderForm ==
  ASSUME NEW a \in Seq(Nat), a # <<>>
  PROVE  /\ P!encodeHeader(a) = P!encodeInteger(Len(P!fields(a))) \o P!fields(a)
         /\ P!encodeInteger(Len(P!fields(a))) \in Seq(Nat) /\ P!encodeHeader(a) \in Seq(Nat)
         /\ P!headerLength(P!encodeHeader(a)) = Len(P!fields(a))
         /\ Len(P!encodeHeader(a)) = 4 + Len(P!fields(a)) /\ Len(P!fields(a)) \in Nat \ {0}
<1> DEFINE f == P!fields(a)
           t == P!encodeInteger(Len(f))
<1>1. f \in Seq(Nat) /\ Len(f) \in Nat \ {0}
  BY FieldsType, EmptySeq
<1>2. t \in Seq(Nat) /\ Len(t) = 4
  BY <1>1, IntegerType
<1>3. P!encodeHeader(a) = t \o f
  BY DEF P!encodeHeader
<1> HIDE DEF f, t
<1>4. t \o f \in Seq(Nat) /\ Len(t \o f) = Len(t) + Len(f)
  BY <1>1, <1>2, ConcatProperties
<1>5. Len(t \o f) = 4 + Len(f) /\ Len(t \o f) # 0
  BY <1>1, <1>2, <1>4
<1>6. t \o f # <<>>
  BY <1>5, EmptySeq
<1>7. P!headerLength(t \o f) = Len(f)
  BY <1>1, <1>5, <1>6 DEF P!headerLength
<1> QED  BY <1>1, <1>2, <1>3, <1>4, <1>5, <1>7 DEF f, t

LEMMA RequestForm ==
  ASSUME NEW body \in Seq(Nat)
  PROVE  P!requestPacket(body, Null) = Plain(0, body)
<1> DEFINE o == Opening(0)
           all == o \o body
<1>1. o \in Seq(Nat) /\ Len(o) = 4
  BY OpeningProperties
<1>2. Len(body) \in Nat /\ Len(all) = Len(o) + Len(body)
  <2> HIDE DEF o
  <2> QED  BY <1>1, ConcatProperties, LenProperties
<1>3. P!Start \o <<P!Request>> \o <<>> \o body = all
  <2>1. o \o <<>> = o
    <3> HIDE DEF o
    <3> QED  BY <1>1, ConcatEmptySeq
  <2> QED  BY <2>1 DEF Opening, P!Request
<1> HIDE DEF all
<1>4. Len(all) - 4 - 0 = Len(body) /\ P!sizeAt(0) = Len(o) /\ ~(0 > 0)
  <2> HIDE DEF o
  <2> QED  BY <1>1, <1>2 DEF P!sizeAt
<1>5. P!requestPacket(body, Null) = P!Insert(all, Len(o), P!encodeInteger(Len(body)))
  <2> HIDE DEF o
  <2> QED  BY <1>3, <1>4 DEF P!requestPacket
<1>6. P!encodeInteger(Len(body)) \in Seq(Nat)
  BY <1>2, IntegerType
<1>7. P!Insert(all, Len(o), P!encodeInteger(Len(body))) = Between(o, P!encodeInteger(Len(body)), body)
  <2> HIDE DEF o
  <2> QED  BY <1>1, <1>6, InsertBetween DEF all
<1> QED  BY <1>5, <1>7 DEF Plain

LEMMA RequestWithHeaderForm ==
  ASSUME NEW body \in Seq(Nat), NEW a \in Seq(Nat), a # <<>>, a # Null
  PROVE  P!requestPacket(body, a) = Full(64, P!fields(a), body)
<1> DEFINE o == Opening(64)
           f == P!fields(a)
           t == P!encodeInteger(Len(f))
           w == P!encodeInteger(Len(body))
           h == P!encodeHeader(a)
           g == o \o h
           all == g \o body
<1>1. o \in Seq(Nat) /\ Len(o) = 4
  BY OpeningProperties
<1>2. /\ h = t \o f /\ t \in Seq(Nat) /\ f \in Seq(Nat) /\ h \in Seq(Nat)
      /\ P!headerLength(h) = Len(f) /\ Len(h) = 4 + Len(f) /\ Len(f) \in Nat \ {0}
  BY HeaderForm, FieldsType
<1>3. Len(body) \in Nat /\ w \in Seq(Nat)
  BY LenProperties, IntegerType
<1>4. P!requestPacket(body, a) = P!Insert(all, P!sizeAt(Len(f) + 4), P!encodeInteger(Len(all) - 4 - (Len(f) + 4)))
  <2>1. Len(f) + 4 > 0 /\ P!Request + P!Flag = 64
    BY <1>2 DEF P!Request, P!Flag
  <2>2. P!Start \o <<64>> \o h \o body = all
    BY DEF Opening
  <2> HIDE DEF f, all, h
  <2>3. P!encodeHeader(a) = h
    BY DEF h
  <2> QED  BY <1>2, <2>1, <2>2, <2>3 DEF P!requestPacket
<1> HIDE DEF o, f, t, h, w
<1>5. g \in Seq(Nat) /\ Len(g) = Len(o) + Len(h)
  BY <1>1, <1>2, ConcatProperties
<1>6. Len(all) = Len(g) + Len(body)
  <2> HIDE DEF g
  <2> QED  BY <1>5, ConcatProperties
<1>7. Len(all) - 4 - (Len(f) + 4) = Len(body) /\ P!sizeAt(Len(f) + 4) = Len(g)
  <2> HIDE DEF all, g
  <2> QED  BY <1>1, <1>2, <1>3, <1>5, <1>6 DEF P!sizeAt
<1>8. P!Insert(all, Len(g), w) = Between(g, w, body)
  <2> HIDE DEF g
  <2> QED  BY <1>3, <1>5, InsertBetween
<1>9. g = Between(o, t, f)
  BY <1>1, <1>2, Associative, ZenonT(60) DEF Between
<1> HIDE DEF g, all
<1>10. P!requestPacket(body, a) = Between(Between(o, t, f), w, body)
  BY <1>4, <1>7, <1>8, <1>9 DEF w
<1> QED  BY <1>10 DEF Full, o, t, w, f

LEMMA ResponseForm ==
  ASSUME NEW body \in Seq(Nat), NEW e
  PROVE  P!responsePacket(body, e) = Plain(IF e THEN 255 ELSE 1, body)
<1> DEFINE b == IF e THEN 255 ELSE 1
           o == Opening(b)
           all == o \o body
<1>1. b \in Nat
  OBVIOUS
<1> HIDE DEF b
<1>2. o \in Seq(Nat) /\ Len(o) = 4
  BY <1>1, OpeningProperties
<1>3. P!responsePacket(body, e) = P!Insert(all, 4, P!encodeInteger(Len(all) - 4))
  BY DEF P!responsePacket, P!Error, P!Response, Opening, b
<1> HIDE DEF o
<1>4. Len(all) - 4 = Len(body) /\ Len(body) \in Nat
  <2>1. Len(all) = Len(o) + Len(body) /\ Len(body) \in Nat
    BY <1>2, ConcatProperties, LenProperties
  <2> HIDE DEF all
  <2> QED  BY <1>2, <2>1
<1>5. P!encodeInteger(Len(body)) \in Seq(Nat)
  BY <1>4, IntegerType
<1>6. P!Insert(all, Len(o), P!encodeInteger(Len(body))) = Between(o, P!encodeInteger(Len(body)), body)
  BY <1>2, <1>5, InsertBetween
<1> HIDE DEF all
<1> QED  BY <1>2, <1>3, <1>4, <1>6 DEF Plain, o, b

LEMMA AppendKeeps ==
  \A s \in Seq(Nat) : \A x \in Nat : \A i \in 1 .. Len(s) : Append(s, x)[i] = s[i]
<1> TAKE s \in Seq(Nat), x \in Nat
<1> QED  BY AppendProperties

LEMMA OpeningReplaced ==
  ASSUME NEW b \in Nat, NEW c \in Nat, NEW s \in Seq(Nat)
  PROVE  [Opening(b) \o s EXCEPT ![4] = c] = Opening(c) \o s
<1> DEFINE p == Opening(b) \o s
           q == Opening(c) \o s
           r == [p EXCEPT ![4] = c]
<1>1. /\ Opening(b) \in Seq(Nat) /\ Len(Opening(b)) = 4
      /\ Opening(c) \in Seq(Nat) /\ Len(Opening(c)) = 4
      /\ p[4] = b /\ q[4] = c /\ Len(s) \in Nat
  BY OpeningProperties, LenProperties
<1>2. \A i \in 1 .. 3 : Opening(b)[i] = Opening(c)[i]
  <2>1. P!Start \in Seq(Nat) /\ Len(P!Start) = 3
    BY DEF P!Start
  <2>2. Opening(b) = Append(P!Start, b) /\ Opening(c) = Append(P!Start, c)
    <3> HIDE DEF P!Start
    <3> QED  BY <2>1, AppendIsConcat DEF Opening
  <2>3. \A i \in 1 .. Len(P!Start) : Append(P!Start, b)[i] = P!Start[i]
    BY <2>1, AppendKeeps
  <2>4. \A i \in 1 .. Len(P!Start) : Append(P!Start, c)[i] = P!Start[i]
    BY <2>1, AppendKeeps
  <2> HIDE DEF Opening
  <2> QED  BY <2>1, <2>2, <2>3, <2>4
<1> HIDE DEF Opening
<1>3. /\ p \in Seq(Nat) /\ Len(p) = 4 + Len(s)
      /\ \A i \in 1 .. 4 + Len(s) : p[i] = IF i <= 4 THEN Opening(b)[i] ELSE s[i - 4]
  <2>1. p \in Seq(Nat) /\ Len(p) = Len(Opening(b)) + Len(s)
        /\ \A i \in 1 .. Len(Opening(b)) + Len(s) :
             p[i] = IF i <= Len(Opening(b)) THEN Opening(b)[i] ELSE s[i - Len(Opening(b))]
    BY <1>1, ConcatProperties
  <2> HIDE DEF p
  <2> QED  BY <1>1, <2>1
<1>4. /\ q \in Seq(Nat) /\ Len(q) = 4 + Len(s)
      /\ \A i \in 1 .. 4 + Len(s) : q[i] = IF i <= 4 THEN Opening(c)[i] ELSE s[i - 4]
  <2>1. q \in Seq(Nat) /\ Len(q) = Len(Opening(c)) + Len(s)
        /\ \A i \in 1 .. Len(Opening(c)) + Len(s) :
             q[i] = IF i <= Len(Opening(c)) THEN Opening(c)[i] ELSE s[i - Len(Opening(c))]
    BY <1>1, ConcatProperties
  <2> HIDE DEF q
  <2> QED  BY <1>1, <2>1
<1> HIDE DEF p, q
<1>5. /\ r \in Seq(Nat) /\ Len(r) = Len(p)
      /\ \A i \in 1 .. Len(p) : r[i] = IF i = 4 THEN c ELSE p[i]
  <2>1. 4 \in 1 .. Len(p)
    BY <1>1, <1>3
  <2> QED  BY <1>3, <2>1, ExceptSeq
<1> HIDE DEF r
<1>6. \A i \in 1 .. Len(r) : r[i] = q[i]
  <2> TAKE i \in 1 .. Len(r)
  <2>1. i \in 1 .. Len(p) /\ i \in 1 .. 4 + Len(s)
    BY <1>3, <1>5
  <2>2. CASE i = 4
    BY <1>1, <1>5, <2>1, <2>2
  <2>3. CASE i <= 3
    <3>1. i \in 1 .. 3 /\ i # 4 /\ i <= 4
      BY <2>1, <2>3
    <3> QED  BY <1>2, <1>3, <1>4, <1>5, <2>1, <3>1
  <2>4. CASE i > 4
    <3>1. i # 4 /\ ~(i <= 4)
      BY <2>1, <2>4
    <3> QED  BY <1>3, <1>4, <1>5, <2>1, <3>1
  <2> QED  BY <1>1, <2>1, <2>2, <2>3, <2>4
<1>7. r = q
  BY <1>3, <1>4, <1>5, <1>6, SeqEqual
<1> QED  BY <1>7 DEF r, p, q

LEMMA InsertedHeaderForm ==
  ASSUME NEW body \in Seq(Nat), NEW a \in Seq(Nat)
  PROVE  P!insertHeader(Plain(1, body), a) = IF a = <<>> THEN Plain(1, body) ELSE Full(65, P!fields(a), body)
<1>1. CASE a = <<>>
  BY <1>1 DEF P!insertHeader, P!encodeHeader, P!headerLength
<1>2. CASE a # <<>>
  <2> DEFINE f == P!fields(a)
             t == P!encodeInteger(Len(f))
             w == P!encodeInteger(Len(body))
             h == P!encodeHeader(a)
             o == Opening(65)
             v == w \o body
             p == Plain(1, body)
  <2>1. /\ h = t \o f /\ t \in Seq(Nat) /\ f \in Seq(Nat) /\ h \in Seq(Nat)
        /\ P!headerLength(h) = Len(f) /\ Len(f) \in Nat \ {0}
    BY <1>2, HeaderForm, FieldsType
  <2>2. Len(body) \in Nat /\ w \in Seq(Nat)
    BY LenProperties, IntegerType
  <2>3. o \in Seq(Nat) /\ Len(o) = 4
    BY OpeningProperties
  <2>4. v \in Seq(Nat)
    <3> HIDE DEF w
    <3> QED  BY <2>2, Closed
  <2>5. p = Opening(1) \o v /\ p[4] = 1
    <3>1. Opening(1) \in Seq(Nat)
      BY OpeningProperties
    <3>2. Between(Opening(1), w, body) = Opening(1) \o v
      <4> HIDE DEF w, Opening
      <4> QED  BY <2>2, <3>1, Associative, ZenonT(60) DEF Between
    <3>3. Between(Opening(1), w, body)[4] = 1
      <4> HIDE DEF w
      <4> QED  BY <2>2, OpeningBetween
    <3> QED  BY <3>2, <3>3 DEF Plain
  <2>6. [p EXCEPT ![4] = 65] = o \o v
    <3> HIDE DEF v, p
    <3> QED  BY <2>4, <2>5, OpeningReplaced
  <2>7. P!insertHeader(p, a) = P!Insert(o \o v, 4, h)
    <3>1. (IF p[4] = P!Error \/ p[4] \in P!Flagged THEN p[4] ELSE p[4] + P!Flag) = 65
      BY <2>5 DEF P!Error, P!Flagged, P!Flag
    <3>2. P!headerLength(h) # 0
      BY <2>1
    <3> HIDE DEF p, h, o, v
    <3>3. P!encodeHeader(a) = h
      BY DEF h
    <3> QED  BY <2>6, <3>1, <3>2, <3>3 DEF P!insertHeader
  <2> HIDE DEF f, t, w, h, o, p
  <2>8. P!Insert(o \o v, 4, h) = Between(o, h, v)
    <3> HIDE DEF v
    <3>1. P!Insert(o \o v, Len(o), h) = Between(o, h, v)
      BY <2>1, <2>3, <2>4, InsertBetween
    <3> QED  BY <2>3, <3>1
  <2>9. Between(o, h, v) = Between(Between(o, t, f), w, body)
    <3>1. Between(Between(o, t, f), w, body) = Between(o, t \o f, w \o body)
      BY <2>1, <2>2, <2>3, BetweenInside
    <3> QED  BY <2>1, <3>1
  <2>10. P!insertHeader(p, a) = Between(Between(o, t, f), w, body)
    BY <2>7, <2>8, <2>9
  <2> QED  BY <1>2, <2>10 DEF Full, p, o, t, w, f
<1> QED  BY <1>1, <1>2

\* The type byte of a message, by which the receiver decodes it.
KindOf(p) == IF p[4] % 2 = 1 THEN "response" ELSE "request"

\* Whatever the sender puts between the sizes: the packet of a message that can be
\* sent is well-formed, and says of which kind it is (RpcEncoder.cpp:72-254).
THEOREM SendableIsWellFormed ==
  ASSUME NoWrap, NEW m, NEW b, Sendable(m, b)
  PROVE  WellFormed(encode(m, b)) /\ encode(m, b) \in Seq(Nat) /\ KindOf(encode(m, b)) = m.kind
<1> DEFINE body == encodeBody(m, b)
           a == m.authorization
           p == encode(m, b)
<1>1. /\ m.kind \in {"request", "response"} /\ a \in Seq(Nat) \cup {Null}
      /\ m.kind = "request" => a # <<>>
      /\ IsError(m) => a \in {Null, <<>>}
      /\ body \in Seq(Nat) /\ body # <<>>
      /\ a # Null => Len(P!fields(a)) <= MaxHeader
      /\ Len(p) - 8 <= MaxData
  BY DEF Sendable
<1>2. 1 % 2 = 1 /\ 65 % 2 = 1 /\ 255 % 2 = 1 /\ 0 % 2 = 0 /\ 64 % 2 = 0
  OBVIOUS
<1>3. /\ Len(body) \in Nat /\ MaxData \in Nat
      /\ \A c \in {0, 1, 255} : c \in Nat /\ c \notin WithHeader
      /\ \A c \in {64, 65} : c \in WithHeader
  BY <1>1, LenProperties, Constants DEF WithHeader
<1> HIDE DEF body, a, p
<1>4. ASSUME NEW c \in {0, 1, 255}, p = Plain(c, body)
      PROVE  WellFormed(p) /\ p \in Seq(Nat) /\ p[4] = c
  <2>1. c \in Nat /\ c \notin WithHeader /\ body \in Seq(Nat) /\ body # <<>> /\ Len(p) - 8 <= MaxData
    BY <1>1, <1>3
  <2>2. Len(Plain(c, body)) = 8 + Len(body)
    BY <2>1, PlainLength
  <2>3. Len(body) <= MaxData
    BY <1>3, <1>4, <2>1, <2>2
  <2> QED  BY <1>4, <2>1, <2>3, PlainIsWellFormed
<1>5. ASSUME NEW c \in {64, 65}, a \in Seq(Nat), a # Null, p = Full(c, P!fields(a), body)
      PROVE  WellFormed(p) /\ p \in Seq(Nat) /\ p[4] = c
  <2> DEFINE f == P!fields(a)
  <2>1. f \in Seq(Nat) /\ f # <<>> /\ Len(f) <= MaxHeader /\ Len(f) \in Nat
    BY <1>1, <1>5, FieldsType, LenProperties
  <2>2. c \in Nat /\ c \in WithHeader /\ body \in Seq(Nat) /\ Len(p) - 8 <= MaxData /\ p = Full(c, f, body)
    BY <1>1, <1>3, <1>5
  <2> HIDE DEF f
  <2>3. Len(Full(c, f, body)) = 8 + (Len(f) + 4 + Len(body))
    BY <2>1, <2>2, FullLength
  <2>4. Len(f) + 4 + Len(body) <= MaxData
    BY <1>3, <2>1, <2>2, <2>3
  <2> QED  BY <2>1, <2>2, <2>4, FullIsWellFormed, SMTT(30)
<1>6. CASE m.kind = "request"
  <2>1. p = P!requestPacket(body, a)
    BY <1>6 DEF encode, p, body, a
  <2>2. CASE a = Null
    <3>1. p = Plain(0, body)
      BY <1>1, <2>1, <2>2, RequestForm
    <3> QED  BY <1>2, <1>4, <1>6, <3>1 DEF KindOf, p
  <2>3. CASE a # Null
    <3>1. a \in Seq(Nat) /\ p = Full(64, P!fields(a), body)
      BY <1>1, <1>6, <2>1, <2>3, RequestWithHeaderForm
    <3> QED  BY <1>2, <1>5, <1>6, <2>3, <3>1 DEF KindOf, p
  <2> QED  BY <2>2, <2>3
<1>7. CASE m.kind = "response"
  <2> DEFINE c == IF IsError(m) THEN 255 ELSE 1
  <2>1. p = IF a = Null THEN Plain(c, body) ELSE P!insertHeader(Plain(c, body), a)
    BY <1>1, <1>7, ResponseForm DEF encode, p, body, a
  <2>2. CASE p = Plain(c, body)
    BY <1>2, <1>4, <1>7, <2>2 DEF KindOf, p
  <2>3. CASE a # Null
    <3>1. CASE IsError(m)
      <4>1. a = <<>>
        BY <1>1, <2>3, <3>1
      <4>2. p = Plain(c, body)
        BY <2>1, <2>3, <4>1 DEF P!insertHeader, P!encodeHeader, P!headerLength
      <4> QED  BY <2>2, <4>2
    <3>2. CASE ~IsError(m)
      <4>1. a \in Seq(Nat) /\ p = IF a = <<>> THEN Plain(1, body) ELSE Full(65, P!fields(a), body)
        BY <1>1, <2>1, <2>3, <3>2, InsertedHeaderForm
      <4>2. CASE a = <<>>
        BY <2>2, <3>2, <4>1, <4>2
      <4>3. CASE a # <<>>
        BY <1>2, <1>5, <1>7, <2>3, <4>1, <4>3 DEF KindOf, p
      <4> QED  BY <4>2, <4>3
    <3> QED  BY <3>1, <3>2
  <2> QED  BY <2>1, <2>2, <2>3
<1> QED  BY <1>1, <1>6, <1>7

-----------------------------------------------------------------------------
(* The channel *)

LEMMA ChannelStep == [ChannelNext]_channelVars => [Next]_vars
BY DEF ChannelNext, Transport, Take, channelVars, Next

\* Nothing changes what is read from the stream but the steps of BinaryRpc.
LEMMA ImplementsBinaryRpc == ChannelSpec => Spec
<1>1. ChannelInit => Init
  BY DEF ChannelInit
<1> QED  BY <1>1, ChannelStep, PTL DEF ChannelSpec, Spec

\* The kind of a finished packet is what its type byte says.
KindKnown == error = "none" /\ finished => type = KindOf(data)

LEMMA KindNext == ASSUME IInv, KindKnown, [Next]_vars PROVE KindKnown'
<1>1. CASE Finish
  <2>1. /\ Len(available) >= 8 /\ Sized /\ Len(available) >= total + 8
        /\ data' = SubSeq(available, 1, total + 8) /\ type' = KindOf(available)
    BY <1>1 DEF Finish, Typed, KindOf
  <2>2. Types
    BY DEF IInv
  <2>3. /\ available \in Seq(Nat) /\ total + 8 \in 0 .. Len(available) /\ total \in Nat
        /\ Len(available) \in Nat
    BY <2>1, <2>2, AvailableType, EndOfPacket, SizeTypes
  <2> DEFINE n == total + 8
  <2>4. n \in Nat /\ n <= Len(available) /\ n >= 4 /\ data' = SubSeq(available, 1, n)
    BY <2>1, <2>3
  <2> HIDE DEF n
  <2>5. \A i \in 1 .. n : available[i] \in Nat
    <3>1. \A i \in 1 .. n : i \in 1 .. Len(available)
      BY <2>3, <2>4
    <3> QED  BY <2>3, <3>1, ElementOfSeq
  <2>6. \A i \in 1 .. n - 1 + 1 : SubSeq(available, 1, n)[i] = available[1 + i - 1]
    BY <2>4, <2>5, SubSeqProperties
  <2>7. 4 \in 1 .. n - 1 + 1 /\ 1 + 4 - 1 = 4
    BY <2>4
  <2>8. data'[4] = available[4]
    BY <2>4, <2>6, <2>7
  <2> QED  BY <2>1, <2>8 DEF KindKnown, KindOf
<1>2. CASE Deliver \/ UNCHANGED vars
  BY <1>2 DEF Deliver, vars, packet, KindKnown, KindOf
<1>3. CASE Receive \/ CollectPrefix \/ CollectHeader \/ CollectData
  <2>1. ~finished'
    BY <1>3 DEF Receive, CollectPrefix, CollectHeader, CollectData, Collect, Typed, Processing
  <2> QED  BY <2>1 DEF KindKnown
<1>4. CASE RejectMagic \/ RejectSize \/ RejectEmpty \/ RejectTotal \/ RejectWrapped
  <2>1. error' # "none"
    BY <1>4 DEF RejectMagic, RejectSize, RejectEmpty, RejectTotal, RejectWrapped, Throw
  <2> QED  BY <2>1 DEF KindKnown
<1> QED  BY <1>1, <1>2, <1>3, <1>4 DEF Next, process

Decoded == {decode(p, k, b) : p \in Seq(Nat), k \in {"request", "response"}, b \in Builds}

\* The stream is what the messages are encoded to, and what has been received is
\* what the packets delivered are decoded to.
ChannelInv ==
  /\ OnlyUpright /\ KindKnown
  /\ messages \in Conversations /\ build \in Builds
  /\ Len(messages) = Len(sent)
  /\ \A i \in 1 .. Len(sent) : i \in DOMAIN messages /\ sent[i] = encode(messages[i], build)
  /\ received \in Seq(Decoded) /\ Len(received) = Len(delivered)
  /\ \A i \in 1 .. Len(received) :
       received[i] = decode(delivered[i], KindOf(delivered[i]), build)

\* All of the stream is well-formed.
LEMMA AllUpright ==
  ASSUME AllSendable(Conversations), ChannelInv
  PROVE  /\ NoWrap /\ Upright(Len(sent))
         /\ \A i \in 1 .. Len(sent) : KindOf(sent[i]) = messages[i].kind
<1>1. NoWrap
  BY DEF AllSendable, NoWrap
<1>2. ASSUME NEW i \in 1 .. Len(sent) PROVE WellFormed(sent[i]) /\ KindOf(sent[i]) = messages[i].kind
  <2>1. Sendable(messages[i], build) /\ sent[i] = encode(messages[i], build)
    BY DEF ChannelInv, AllSendable
  <2> QED  BY <1>1, <2>1, SendableIsWellFormed
<1>3. Len(sent) \in Nat
  BY LenProperties DEF ChannelInv, OnlyUpright, StreamInv, IInv, Types
<1> QED  BY <1>1, <1>2, <1>3 DEF Upright

LEMMA SameRange == ASSUME NEW a \in Nat, NEW b \in Nat, 1 .. a = 1 .. b PROVE a = b
<1>1. CASE a < b
  <2>1. b \in 1 .. b /\ b \notin 1 .. a
    BY <1>1
  <2> QED  BY <2>1
<1>2. CASE b < a
  <2>1. a \in 1 .. a /\ a \notin 1 .. b
    BY <1>2
  <2> QED  BY <2>1
<1> QED  BY <1>1, <1>2

LEMMA ChannelInvInit == ASSUME AllSendable(Conversations), ChannelInit PROVE ChannelInv
<1>1. /\ messages \in Conversations /\ build \in Builds /\ Init /\ received = <<>>
      /\ sent = [i \in DOMAIN messages |-> encode(messages[i], build)]
  BY DEF ChannelInit
<1>2. messages \in Seq(ToSet(messages)) /\ sent \in Seq(Seq(Nat))
  BY <1>1, RpcChannelAssumption, BinaryRpcAssumption DEF Init
<1>3. DOMAIN messages = 1 .. Len(messages) /\ Len(messages) \in Nat
      /\ DOMAIN sent = 1 .. Len(sent) /\ Len(sent) \in Nat
  BY <1>2, LenProperties
<1>4. DOMAIN sent = DOMAIN messages /\ \A i \in DOMAIN sent : sent[i] = encode(messages[i], build)
  BY <1>1
<1>5. Len(messages) = Len(sent)
  BY <1>3, <1>4, SameRange
<1>6. \A i \in DOMAIN sent : WellFormed(sent[i])
  <2> TAKE i \in DOMAIN sent
  <2>1. Sendable(messages[i], build) /\ NoWrap
    BY <1>1, <1>4 DEF AllSendable, NoWrap
  <2> QED  BY <1>4, <2>1, SendableIsWellFormed
<1>7. OnlyUpright
  BY <1>1, <1>6, OnlyUprightInit DEF ProperStream
<1>8. KindKnown /\ Len(received) = 0 /\ Len(delivered) = 0 /\ received \in Seq(Decoded)
  BY <1>1, EmptySeq DEF Init, KindKnown
<1> QED  BY <1>1, <1>3, <1>4, <1>5, <1>7, <1>8 DEF ChannelInv

LEMMA ChannelInvNext ==
  ASSUME AllSendable(Conversations), ChannelInv, [ChannelNext]_channelVars
  PROVE  ChannelInv'
<1>1. [Next]_vars /\ NoWrap /\ IInv
  BY ChannelStep, AllUpright DEF ChannelInv, OnlyUpright, StreamInv
<1>2. OnlyUpright' /\ KindKnown'
  BY <1>1, OnlyUprightNext, KindNext DEF ChannelInv
<1>3. UNCHANGED <<messages, build, sent>>
  <2>1. UNCHANGED <<messages, build>>
    BY DEF ChannelNext, Transport, Take, channelVars
  <2>2. UNCHANGED sent
    BY <1>1 DEF Next, vars, process, Receive, CollectPrefix, CollectHeader, CollectData, Finish,
       RejectMagic, RejectSize, RejectEmpty, RejectTotal, RejectWrapped, Typed, Deliver
  <2> QED  BY <2>1, <2>2
<1>4. CASE UNCHANGED <<delivered, received>>
  BY <1>2, <1>3, <1>4 DEF ChannelInv
<1>5. CASE Take
  <2> DEFINE r == decode(data, type, build)
  <2>1. /\ error = "none" /\ finished /\ delivered' = Append(delivered, data)
        /\ received' = Append(received, r)
    BY <1>5 DEF Take, Deliver
  <2>2. /\ data \in Seq(Nat) /\ delivered \in Seq(Seq(Nat)) /\ type = KindOf(data)
        /\ build \in Builds /\ received \in Seq(Decoded) /\ Len(received) = Len(delivered)
    BY <1>1, <2>1 DEF ChannelInv, KindKnown, IInv, Types
  <2>3. r \in Decoded
    BY <2>2 DEF Decoded, KindOf
  <2>4. /\ Len(delivered') = Len(delivered) + 1
        /\ \A i \in 1 .. Len(delivered) : delivered'[i] = delivered[i]
        /\ delivered'[Len(delivered) + 1] = data
    BY <2>1, <2>2, AppendProperties
  <2>5. r = decode(data, KindOf(data), build)
    BY <2>2
  <2> HIDE DEF r
  <2>6. /\ received' \in Seq(Decoded) /\ Len(received') = Len(received) + 1
        /\ \A i \in 1 .. Len(received) : received'[i] = received[i]
        /\ received'[Len(received) + 1] = r
    BY <2>1, <2>2, <2>3, AppendProperties
  <2>7. Len(received) \in Nat
    BY <2>2, LenProperties
  <2>8. ASSUME NEW i \in 1 .. Len(received')
        PROVE  received'[i] = decode(delivered'[i], KindOf(delivered'[i]), build)
    <3>1. i \in 1 .. Len(received) \/ i = Len(received) + 1
      BY <2>6, <2>7
    <3>2. CASE i \in 1 .. Len(received)
      <4>1. received[i] = decode(delivered[i], KindOf(delivered[i]), build)
        BY <3>2 DEF ChannelInv
      <4>2. received'[i] = received[i] /\ delivered'[i] = delivered[i]
        BY <2>2, <2>4, <2>6, <3>2
      <4> QED  BY <4>1, <4>2
    <3>3. CASE i = Len(received) + 1
      <4>1. received'[i] = r /\ delivered'[i] = data
        BY <2>2, <2>4, <2>6, <3>3
      <4> QED  BY <2>5, <4>1
    <3> QED  BY <3>1, <3>2, <3>3
  <2> QED  BY <1>2, <1>3, <2>2, <2>4, <2>6, <2>8 DEF ChannelInv
<1>6. UNCHANGED <<delivered, received>> \/ Take
  BY DEF ChannelNext, Transport, channelVars, vars, process, Receive, CollectPrefix, CollectHeader,
     CollectData, Finish, RejectMagic, RejectSize, RejectEmpty, RejectTotal, RejectWrapped, Typed
<1> QED  BY <1>4, <1>5, <1>6

LEMMA ChannelInvariance == ASSUME AllSendable(Conversations) PROVE ChannelSpec => []ChannelInv
<1>1. ChannelInit => ChannelInv
  BY ChannelInvInit
<1>2. ChannelInv /\ [ChannelNext]_channelVars => ChannelInv'
  BY ChannelInvNext
<1> QED  BY <1>1, <1>2, PTL DEF ChannelSpec

LEMMA NoException ==
  ASSUME AllSendable(Conversations), ChannelInv
  PROVE  error = "none" /\ delivered = SubSeq(sent, 1, Len(delivered)) /\ Len(delivered) <= Len(sent)
<1>1. StreamInv /\ Upright(Len(delivered)) /\ Upright(Len(sent))
  BY AllUpright DEF ChannelInv, OnlyUpright
<1>2. ASSUME error # "none" PROVE FALSE
  <2>1. Arriving /\ ~WellFormed(Current)
    BY <1>1, <1>2 DEF StreamInv
  <2>2. Len(delivered) \in Nat /\ Len(sent) \in Nat
    BY <1>1, LenProperties DEF StreamInv, IInv, Types
  <2>3. Len(delivered) + 1 \in 1 .. Len(sent)
    BY <2>1, <2>2 DEF Arriving
  <2> QED  BY <1>1, <2>1, <2>3 DEF Upright, Current
<1> QED  BY <1>1, <1>2, DeliveredInOrder

\* BinaryRpc raises no exception for packets of RpcEncoder and delivers each as it
\* was encoded: the sizes and the flag are where process() looks for them.
THEOREM PacketsAccepted == ASSUME AllSendable(Conversations) PROVE ChannelSpec => []Accepted
<1>1. ChannelInv => Accepted
  BY NoException DEF Accepted
<1> QED  BY <1>1, ChannelInvariance, PTL

\* No packet of RpcEncoder is held back, and none is missing once all bytes are
\* used: its sizes are neither too large nor too small.
THEOREM EveryMessageReceived == ASSUME AllSendable(Conversations) PROVE ChannelSpec => []AllReceived
<1>1. ASSUME ChannelInv, AtEnd PROVE Len(received) = Len(messages)
  <2>1. /\ OnlyUpright /\ error = "none" /\ OnTrack /\ Len(received) = Len(delivered)
        /\ Len(messages) = Len(sent) /\ Len(delivered) <= Len(sent)
    BY <1>1, NoException DEF ChannelInv, OnlyUpright, OnTrack
  <2>2. Len(delivered) \in Nat /\ Len(sent) \in Nat /\ data \in Seq(Nat)
    BY <2>1, LenProperties DEF OnlyUpright, StreamInv, IInv, Types
  <2>3. ASSUME Arriving PROVE FALSE
    <3>1. Current \in Seq(Nat) /\ Starts(Current, Ahead)
      BY <2>1, <2>3, StartsWithCurrent
    <3>2. Ahead = data
      <4>1. rest = <<>> /\ chunk = <<>>
        BY <1>1 DEF AtEnd
      <4> QED  BY <2>2, <4>1, ConcatEmptySeq DEF Ahead
    <3>3. Len(Current) <= Len(data) /\ Len(Current) \in Nat /\ Len(data) \in Nat
      BY <2>2, <3>1, <3>2, LenProperties DEF Starts
    <3>4. WellFormed(Current)
      <4>1. Len(delivered) + 1 \in 1 .. Len(sent)
        BY <2>2, <2>3 DEF Arriving
      <4> QED  BY <1>1, <4>1, AllUpright DEF Upright, Current
    <3>5. Len(Current) > 8
      BY <3>4 DEF WellFormed
    <3>6. CASE data = <<>>
      BY <3>3, <3>5, <3>6, EmptySeq
    <3>7. CASE data # <<>>
      BY <1>1, <2>1, <3>3, <3>7, LacksBytes DEF AtEnd
    <3> QED  BY <3>6, <3>7
  <2> QED  BY <2>1, <2>2, <2>3 DEF Arriving
<1>2. ChannelInv => AllReceived
  BY <1>1 DEF AllReceived
<1> QED  BY <1>2, ChannelInvariance, PTL

LEMMA OfItsPacket ==
  ASSUME AllSendable(Conversations), ChannelInv, NEW i \in 1 .. Len(received)
  PROVE  received[i] = decode(encode(messages[i], build), messages[i].kind, build)
<1>1. /\ StreamInv /\ Upright(Len(delivered)) /\ Len(delivered) <= Len(sent)
      /\ Len(received) = Len(delivered)
  BY NoException DEF ChannelInv, OnlyUpright
<1>2. Len(delivered) \in Nat /\ Len(sent) \in Nat
  BY <1>1, LenProperties DEF StreamInv, IInv, Types
<1>3. i \in 1 .. Len(sent) /\ i \in 1 .. Len(delivered)
  BY <1>1, <1>2
<1>4. delivered[i] = sent[i]
  BY <1>1, <1>3, InOrder DEF Starts
<1>5. sent[i] = encode(messages[i], build) /\ KindOf(sent[i]) = messages[i].kind
  BY <1>3, AllUpright DEF ChannelInv
<1>6. received[i] = decode(delivered[i], KindOf(delivered[i]), build)
  BY DEF ChannelInv
<1> QED  BY <1>4, <1>5, <1>6

\* A message arrives as what the decoder makes of its packet, as a message of its
\* kind: between the peers nothing depends on the stream, how it is cut or what
\* else is sent.
Transparent ==
  \A i \in 1 .. Len(received) :
    received[i] = decode(encode(messages[i], build), messages[i].kind, build)

\* Requests are decoded as requests, responses as responses, each from the packet
\* that was made of it (BinaryRpc.cpp:80, RpcEncoder.cpp:72-214).
THEOREM ChannelIsTransparent == ASSUME AllSendable(Conversations) PROVE ChannelSpec => []Transparent
<1>1. ChannelInv => Transparent
  BY OfItsPacket DEF Transparent
<1> QED  BY <1>1, ChannelInvariance, PTL

-----------------------------------------------------------------------------
(* What is in the packets *)

\* RpcMessages gives the parameters of RpcChannel their values.
CodecUsed ==
  /\ \A m, b : encodeBody(m, b) = encodeValues(m, b)
  /\ \A p, k, b : decode(p, k, b) = decodeMessage(p, k, b)

LEMMA SamePacket ==
  /\ Codec!Range32 = Width /\ Codec!Flagged = {64, 65}
  /\ \A n : P!encodeInteger(n) = Codec!encodeInteger(n)
  /\ \A a : P!fields(a) = Codec!fields(a)
<1>1. Codec!Range32 = Width
  BY DEF Codec!Range32, Width
<1>2. Codec!Flagged = {64, 65}
  BY DEF Codec!Flagged, Codec!Flag
<1>3. \A n : P!encodeInteger(n) = Codec!encodeInteger(n)
  BY DEF P!encodeInteger, Codec!encodeInteger
<1>4. \A s : P!encodeString(s) = Codec!encodeString(s)
  BY <1>3 DEF P!encodeString, Codec!encodeString
<1>5. \A a : P!fields(a) = Codec!fields(a)
  BY <1>3, <1>4 DEF P!fields, Codec!fields, P!AuthorizationName, Codec!AuthorizationName
<1> QED  BY <1>1, <1>2, <1>3, <1>5

LEMMA PlainToDecoder ==
  ASSUME NEW b \in Nat, b \notin {64, 65}, NEW body \in Seq(Nat), Len(body) < Width
  PROVE  Codec!PlainPacket(Plain(b, body), body) /\ Plain(b, body)[4] = b
<1> DEFINE o == Opening(b)
           t == P!encodeInteger(Len(body))
           p == Plain(b, body)
<1>1. o \in Seq(Nat) /\ Len(o) = 4 /\ t \in Seq(Nat)
  BY OpeningProperties, IntegerType, LenProperties
<1>2. p = o \o Codec!encodeInteger(Len(body)) \o body
  BY SamePacket DEF Plain, Between
<1>3. p[4] = b
  <2> HIDE DEF t
  <2> QED  BY <1>1, OpeningBetween DEF Plain, t
<1>4. Codec!CodecConstants
  BY RpcMessagesAssumption
<1> HIDE DEF o, p
<1>5. p[4] \notin Codec!Flagged /\ Len(body) < Codec!Range32
  BY <1>3, SamePacket
<1>6. Codec!PlainPacket(p, body)
  BY <1>1, <1>2, <1>4, <1>5, Codec!PlainForm
<1> QED  BY <1>3, <1>6 DEF p

LEMMA FullToDecoder ==
  ASSUME NEW b \in {64, 65}, NEW a \in Seq(Nat), Codec!SendableString(Codec!fields(a)),
         NEW body \in Seq(Nat)
  PROVE  Codec!FullPacket(Full(b, P!fields(a), body), a, body) /\ Full(b, P!fields(a), body)[4] = b
<1> DEFINE f == P!fields(a)
           o == Opening(b)
           s == P!encodeInteger(Len(f))
           t == P!encodeInteger(Len(body))
           sf == s \o f
           tb == t \o body
           p == Full(b, f, body)
<1>1. b \in Nat /\ f \in Seq(Nat) /\ Len(f) \in Nat /\ Len(body) \in Nat
  BY FieldsType, LenProperties
<1>2. o \in Seq(Nat) /\ Len(o) = 4 /\ s \in Seq(Nat) /\ t \in Seq(Nat)
  BY <1>1, OpeningProperties, IntegerType
<1>3. p = Between(o, sf, tb)
  <2>1. p = Between(Between(o, s, f), t, body)
    BY DEF Full
  <2>2. f \in Seq(Nat) /\ o \in Seq(Nat) /\ s \in Seq(Nat) /\ t \in Seq(Nat) /\ body \in Seq(Nat)
    BY <1>1, <1>2
  <2> HIDE DEF p, o, s, t, f
  <2>3. Between(Between(o, s, f), t, body) = Between(o, s \o f, t \o body)
    BY <2>2, BetweenInside
  <2> QED  BY <2>1, <2>3 DEF sf, tb
<1>4. sf \in Seq(Nat) /\ tb \in Seq(Nat)
  <2> HIDE DEF s, t, f
  <2> QED  BY <1>1, <1>2, Closed
<1>5. p[4] = b
  <2> HIDE DEF sf, tb, p
  <2> QED  BY <1>1, <1>3, <1>4, OpeningBetween DEF o
<1>6. p = o \o (Codec!encodeInteger(Len(Codec!fields(a))) \o Codec!fields(a))
            \o (Codec!encodeInteger(Len(body)) \o body)
  <2>1. f = Codec!fields(a) /\ s = Codec!encodeInteger(Len(f)) /\ t = Codec!encodeInteger(Len(body))
    BY SamePacket
  <2> HIDE DEF f, s, t, o, p
  <2> QED  BY <1>3, <2>1 DEF Between
<1>7. Codec!CodecConstants /\ p[4] \in Codec!Flagged
  BY RpcMessagesAssumption, <1>5, SamePacket
<1> HIDE DEF o, p
<1>8. Codec!FullPacket(p, a, body)
  BY <1>2, <1>6, <1>7, Codec!FullForm
<1> QED  BY <1>5, <1>8 DEF p, f

Authorization(m) == IF m.authorization = Null THEN <<>> ELSE m.authorization

\* The decoder finds the body of a message behind its header, and the authorization
\* in it; the type byte is that of an error exactly if the message is one.
Decodable(p, m, body) ==
  /\ p \in Seq(Nat) /\ Len(p) >= 4
  /\ Codec!decodeHeader(p) = Authorization(m)
  /\ Codec!headerSize(p) \in Nat /\ 8 + Codec!headerSize(p) \in Nat
  /\ Codec!Has(p, 8 + Codec!headerSize(p), body)
  /\ p[4] = 255 => IsError(m)

LEMMA PlainDecodable ==
  ASSUME NEW b \in Nat, b \notin {64, 65}, NEW body \in Seq(Nat), Len(body) < Width,
         NEW m, Authorization(m) = <<>>, b = 255 => IsError(m)
  PROVE  Decodable(Plain(b, body), m, body)
<1> DEFINE p == Plain(b, body)
<1>2. Codec!PlainPacket(p, body) /\ p[4] = b
  BY PlainToDecoder
<1>3. p \in Seq(Nat) /\ Len(p) = 8 + Len(body) /\ Len(body) \in Nat
  BY PlainLength, LenProperties
<1> HIDE DEF p
<1>4. Codec!CodecConstants
  BY RpcMessagesAssumption
<1>5. Codec!headerSize(p) = 0 /\ Codec!decodeHeader(p) = <<>>
      /\ Codec!Has(p, 8 + Codec!headerSize(p), body)
  BY <1>2, <1>4, Codec!DecodePlain
<1>6. Len(p) >= 4
  BY <1>3
<1> QED  BY <1>2, <1>3, <1>5, <1>6 DEF Decodable, p

LEMMA FullIsLong ==
  ASSUME NEW b \in Nat, NEW f \in Seq(Nat), NEW body \in Seq(Nat)
  PROVE  Full(b, f, body) \in Seq(Nat) /\ Len(Full(b, f, body)) >= 4
<1> DEFINE p == Full(b, f, body)
<1>1. p \in Seq(Nat) /\ Len(p) = 8 + (Len(f) + 4 + Len(body))
  BY FullLength
<1>2. Len(f) \in Nat /\ Len(body) \in Nat
  BY LenProperties
<1> HIDE DEF p
<1>3. Len(p) >= 4
  BY <1>1, <1>2
<1> QED  BY <1>1, <1>3 DEF p

LEMMA FullDecodable ==
  ASSUME NEW b \in {64, 65}, NEW body \in Seq(Nat), NEW m, m.authorization \in Seq(Nat),
         m.authorization # Null, Codec!SendableString(Codec!fields(m.authorization))
  PROVE  Decodable(Full(b, P!fields(m.authorization), body), m, body)
<1> DEFINE a == m.authorization
           p == Full(b, P!fields(a), body)
<1>1. b \in Nat /\ P!fields(a) \in Seq(Nat)
  BY FieldsType
<1>2. Codec!FullPacket(p, a, body) /\ p[4] = b
  BY FullToDecoder
<1>3. p \in Seq(Nat) /\ Len(p) >= 4
  <2> DEFINE f == P!fields(a)
  <2>1. f \in Seq(Nat)
    BY <1>1
  <2> HIDE DEF f
  <2>2. Full(b, f, body) \in Seq(Nat) /\ Len(Full(b, f, body)) >= 4
    BY <1>1, <2>1, FullIsLong
  <2> QED  BY <2>2 DEF f
<1> HIDE DEF p
<1>4. Codec!CodecConstants
  BY RpcMessagesAssumption
<1>5. /\ Codec!headerSize(p) = Len(Codec!fields(a)) + 4 /\ Codec!decodeHeader(p) = a
      /\ 8 + Codec!headerSize(p) \in Nat /\ Codec!Has(p, 8 + Codec!headerSize(p), body)
  BY <1>2, <1>4, Codec!DecodeFull
<1>6. Codec!headerSize(p) \in Nat
  <2>1. Len(Codec!fields(a)) \in Nat
    BY LenProperties DEF Codec!SendableString
  <2> QED  BY <1>5, <2>1
<1>7. p[4] # 255
  BY <1>2
<1> QED  BY <1>3, <1>5, <1>6, <1>7 DEF Decodable, Authorization, p

\* Whatever is between the sizes, with and without header.
LEMMA EncodedDecodable ==
  ASSUME NoWrap, NEW m, NEW b, Sendable(m, b), SendableValues(m)
  PROVE  Decodable(encode(m, b), m, encodeBody(m, b))
<1> DEFINE body == encodeBody(m, b)
           a == m.authorization
           p == encode(m, b)
<1>1. /\ m.kind \in {"request", "response"} /\ a \in Seq(Nat) \cup {Null}
      /\ m.kind = "request" => a # <<>>
      /\ IsError(m) => a \in {Null, <<>>}
      /\ body \in Seq(Nat) /\ Len(p) - 8 <= MaxData
      /\ a # Null => Codec!SendableString(Codec!fields(a))
  BY DEF Sendable, SendableValues
<1>2. Len(body) \in Nat /\ MaxData \in Nat /\ MaxData < Width /\ Width \in Nat
  BY <1>1, LenProperties, Constants DEF NoWrap
<1> HIDE DEF body, p
<1>3. ASSUME NEW c \in {0, 1, 255}, c = 255 => IsError(m), a \in {Null, <<>>}, p = Plain(c, body)
      PROVE  Decodable(p, m, body)
  <2>1. c \in Nat /\ c \notin {64, 65}
    OBVIOUS
  <2>2. Len(p) = 8 + Len(body)
    BY <1>1, <1>3, <2>1, PlainLength
  <2>3. Len(body) < Width
    BY <1>1, <1>2, <2>2
  <2>4. Authorization(m) = <<>>
    BY <1>3 DEF Authorization
  <2> QED  BY <1>1, <1>3, <2>1, <2>3, <2>4, PlainDecodable
<1>4. ASSUME NEW c \in {64, 65}, a \in Seq(Nat), a # Null, p = Full(c, P!fields(a), body)
      PROVE  Decodable(p, m, body)
  BY <1>1, <1>4, FullDecodable
<1>5. ASSUME m.kind = "request" PROVE Decodable(p, m, body)
  <2>1. p = P!requestPacket(body, a)
    BY <1>5 DEF encode, p, body
  <2>2. CASE a = Null
    <3>1. p = Plain(0, body)
      BY <1>1, <2>1, <2>2, RequestForm
    <3> QED  BY <1>3, <2>2, <3>1
  <2>3. CASE a # Null
    <3>1. a \in Seq(Nat) /\ p = Full(64, P!fields(a), body)
      BY <1>1, <1>5, <2>1, <2>3, RequestWithHeaderForm
    <3> QED  BY <1>4, <2>3, <3>1
  <2> QED  BY <2>2, <2>3
<1>6. ASSUME m.kind = "response" PROVE Decodable(p, m, body)
  <2> DEFINE c == IF IsError(m) THEN 255 ELSE 1
  <2>1. p = IF a = Null THEN Plain(c, body) ELSE P!insertHeader(Plain(c, body), a)
    BY <1>1, <1>6, ResponseForm DEF encode, p, body
  <2>2. c \in {0, 1, 255} /\ (c = 255 => IsError(m))
    OBVIOUS
  <2>3. CASE a \in {Null, <<>>}
    <3>1. p = Plain(c, body)
      BY <2>1, <2>3 DEF P!insertHeader, P!encodeHeader, P!headerLength
    <3> HIDE DEF c
    <3> QED  BY <1>3, <2>2, <2>3, <3>1
  <2>4. CASE a \notin {Null, <<>>}
    <3>1. a \in Seq(Nat) /\ ~IsError(m) /\ a # Null
      BY <1>1, <2>4
    <3>2. p = Full(65, P!fields(a), body)
      BY <1>1, <2>1, <2>4, <3>1, InsertedHeaderForm
    <3> QED  BY <1>4, <3>1, <3>2
  <2> QED  BY <2>3, <2>4
<1>7. Decodable(p, m, body)
  BY <1>1, <1>5, <1>6
<1> QED  BY <1>7 DEF p, body

\* What RpcDecoder makes of the request m.
AsDecoded(m, b) ==
  LET parameters == IF m.parameters = Null \/ Len(m.parameters) > MaxParameters THEN <<>>
                    ELSE [k \in DOMAIN m.parameters |-> Codec!Sent(m.parameters[k], b)]
  IN Request(m.methodName, parameters, Authorization(m))

LEMMA RequestDecoded ==
  ASSUME CodecUsed, NoWrap, NEW b \in Builds, Codec!AllSendableTo(b),
         NEW m, Sendable(m, b), SendableValues(m), m.kind = "request"
  PROVE  decode(encode(m, b), m.kind, b) = AsDecoded(m, b)
<1> DEFINE p == encode(m, b)
           q == m.parameters
           body == Codec!requestBody(m.methodName, q, b)
           v == Codec!Values(q)
<1>1. Decodable(p, m, body)
  BY EncodedDecodable DEF CodecUsed, encodeValues
<1>2. Codec!CodecConstants /\ b.forceInteger64 \in BOOLEAN
  BY RpcMessagesAssumption
<1>3. Codec!SendableString(m.methodName)
  BY DEF SendableValues
<1>4. Codec!SendableParameters(q)
  BY DEF SendableValues, Codec!SendableParameters
<1> HIDE DEF p
<1>5. Codec!decodeRequest(p, b) =
        [methodName |-> m.methodName,
         parameters |-> IF Len(v) > MaxParameters THEN <<>> ELSE Codec!SentValues(v, b)]
  <2>1. p \in Seq(Nat) /\ 8 + Codec!headerSize(p) \in Nat
        /\ Codec!Has(p, 8 + Codec!headerSize(p), Codec!requestBody(m.methodName, q, b))
    BY <1>1 DEF Decodable
  <2> HIDE DEF q
  <2> QED  BY <1>2, <1>3, <1>4, <2>1, Codec!DecodeRequestBody
<1>6. decode(p, m.kind, b) =
        Request(m.methodName, IF Len(v) > MaxParameters THEN <<>> ELSE Codec!SentValues(v, b),
                Authorization(m))
  <2>1. decode(p, m.kind, b) = decodeMessage(p, m.kind, b) /\ Codec!decodeHeader(p) = Authorization(m)
    BY <1>1 DEF CodecUsed, Decodable
  <2> HIDE DEF v
  <2> QED  BY <1>5, <2>1 DEF decodeMessage
<1>7. CASE q = Null
  <2>1. v = <<>>
    BY <1>7 DEF Codec!Values
  <2>2. Codec!SentValues(<<>>, b) = <<>>
    BY DEF Codec!SentValues
  <2> QED  BY <1>6, <1>7, <2>1, <2>2 DEF AsDecoded, p
<1>8. CASE q # Null
  <2>1. v = q
    BY <1>8 DEF Codec!Values
  <2> QED  BY <1>6, <1>8, <2>1 DEF AsDecoded, Codec!SentValues, p
<1> QED  BY <1>7, <1>8

LEMMA ResponseDecoded ==
  ASSUME CodecUsed, NoWrap, NEW b \in Builds, Codec!AllSendableTo(b),
         NEW m, Sendable(m, b), SendableValues(m), m.kind = "response"
  PROVE  LET a == decode(encode(m, b), m.kind, b)
             r == a.variable
             s == Codec!Sent(m.variable, b)
         IN /\ a = Response(r, Authorization(m))
            /\ IsError(m) => s.errorStruct
            /\ Codec!SameValue(Codec!ValueOf(r, b), s)
            /\ r.errorStruct <=> s.errorStruct \/ (/\ b.inPlace /\ r.type = "tBinary"
                                                  /\ Len(r.binaryValue) > 3 /\ r.binaryValue[4] = 255)
            /\ r.errorStruct => Codec!Marked(r)
<1> DEFINE p == encode(m, b)
           u == m.variable
           s == Codec!Sent(u, b)
           n == Codec!headerSize(p)
           r == Codec!Received(p, n, b)
           body == Codec!encodeVariable(u, b)
<1>1. Decodable(p, m, body)
  BY EncodedDecodable DEF CodecUsed, encodeValues
<1>2. Codec!CodecConstants /\ {b.forceInteger64, b.inPlace} \subseteq BOOLEAN
  BY RpcMessagesAssumption
<1>3. u \in Codec!Pointers
  BY DEF SendableValues
<1>4. ASSUME IsError(m) PROVE s.errorStruct
  <2>1. u # Null /\ u.type = "tStruct" /\ DOMAIN u.structValue = {Codec!FaultCode, Codec!FaultString}
    BY <1>4 DEF SendableValues, IsError
  <2>2. Codec!pointedTo(u) = u
    BY <2>1 DEF Codec!pointedTo
  <2>3. Codec!Shape(s, Codec!pointedTo(u))
    <3>1. b.forceInteger64 \in BOOLEAN
      BY <1>2
    <3> HIDE DEF u
    <3> QED  BY <1>2, <1>3, <3>1, Codec!SentShape
  <2> QED  BY <2>1, <2>2, <2>3 DEF Codec!Shape
<1> HIDE DEF p
<1>5. /\ p \in Seq(Nat) /\ Len(p) >= 4 /\ n \in Nat /\ Codec!Has(p, 8 + n, body)
      /\ p[4] = Codec!Error => s.errorStruct
  BY <1>1, <1>4 DEF Decodable, Codec!Error
<1>6. /\ Codec!SameValue(Codec!ValueOf(r, b), s)
      /\ r.errorStruct <=> s.errorStruct \/ (/\ b.inPlace /\ r.type = "tBinary"
                                            /\ Len(r.binaryValue) > 3 /\ r.binaryValue[4] = 255)
      /\ r.errorStruct => Codec!Marked(r)
  <2> HIDE DEF n, u
  <2> QED  BY <1>2, <1>3, <1>5, Codec!ResponseArrives
<1>7. decode(p, m.kind, b) = Response(r, Authorization(m))
  <2>1. decode(p, m.kind, b) = decodeMessage(p, m.kind, b) /\ Codec!decodeHeader(p) = Authorization(m)
    BY <1>1 DEF CodecUsed, Decodable
  <2> QED  BY <2>1 DEF decodeMessage, Codec!Received
<1>8. decode(p, m.kind, b).variable = r
  <2> HIDE DEF r
  <2> QED  BY <1>7 DEF Response
<1> HIDE DEF r, s
<1>9. /\ decode(p, m.kind, b) = Response(decode(p, m.kind, b).variable, Authorization(m))
      /\ IsError(m) => s.errorStruct
  BY <1>4, <1>7, <1>8
<1> QED  BY <1>6, <1>8, <1>9 DEF p, s, u

-----------------------------------------------------------------------------
(* The messages arrive *)

LEMMA ReceivedMessage ==
  ASSUME AllSendable(Conversations), AllValuesSendable(Conversations), ChannelInv,
         NEW i \in DOMAIN received
  PROVE  /\ received[i] = decode(encode(messages[i], build), messages[i].kind, build)
         /\ NoWrap /\ build \in Builds /\ Codec!AllSendableTo(build)
         /\ Sendable(messages[i], build) /\ SendableValues(messages[i])
<1>1. i \in 1 .. Len(received) /\ Len(received) \in Nat
  BY LenProperties DEF ChannelInv
<1>2. received[i] = decode(encode(messages[i], build), messages[i].kind, build)
  BY <1>1, OfItsPacket
<1>3. messages \in Conversations /\ build \in Builds /\ NoWrap
  BY AllUpright DEF ChannelInv
<1>4. i \in DOMAIN messages
  <2>1. Len(received) = Len(delivered) /\ Len(delivered) <= Len(sent)
    BY NoException DEF ChannelInv
  <2>2. Len(sent) \in Nat
    BY LenProperties DEF ChannelInv, OnlyUpright, StreamInv, IInv, Types
  <2>3. i \in 1 .. Len(sent)
    BY <1>1, <2>1, <2>2
  <2> QED  BY <2>3 DEF ChannelInv
<1> QED  BY <1>2, <1>3, <1>4 DEF AllSendable, AllValuesSendable

\* The requests that are received are those that were sent, in their order and with
\* their parameters, whatever is nested in them (RpcEncoder.cpp:72-143 and 225-254,
\* RpcDecoder.cpp:40-102).
THEOREM RequestsAreSent ==
  ASSUME CodecUsed, AllSendable(Conversations), AllValuesSendable(Conversations)
  PROVE  ChannelSpec => []RequestsArrive
<1>1. ASSUME ChannelInv, NEW i \in DOMAIN received, messages[i].kind = "request"
      PROVE  received[i] = AsDecoded(messages[i], build)
  BY <1>1, ReceivedMessage, RequestDecoded
<1>2. ChannelInv => RequestsArrive
  BY <1>1 DEF RequestsArrive, AsDecoded, Authorization
<1> QED  BY <1>2, ChannelInvariance, PTL

LEMMA ReceivedResponse ==
  ASSUME CodecUsed, AllSendable(Conversations), AllValuesSendable(Conversations), ChannelInv,
         NEW i \in DOMAIN received, messages[i].kind = "response"
  PROVE  LET v == received[i].variable
             s == Codec!Sent(messages[i].variable, build)
         IN /\ received[i].kind = "response" /\ received[i].authorization = Authorization(messages[i])
            /\ IsError(messages[i]) => s.errorStruct
            /\ Codec!SameValue(Codec!ValueOf(v, build), s)
            /\ v.errorStruct <=> s.errorStruct \/ Misread(v)
            /\ v.errorStruct => Codec!Marked(v)
<1> DEFINE m == messages[i]
           a == decode(encode(m, build), m.kind, build)
           r == a.variable
           v == received[i].variable
           s == Codec!Sent(m.variable, build)
<1>1. /\ received[i] = a /\ NoWrap /\ build \in Builds /\ Codec!AllSendableTo(build)
      /\ Sendable(m, build) /\ SendableValues(m) /\ m.kind = "response"
  BY ReceivedMessage
<1> HIDE DEF m
<1>2. /\ a = Response(r, Authorization(m))
      /\ IsError(m) => s.errorStruct
      /\ Codec!SameValue(Codec!ValueOf(r, build), s)
      /\ r.errorStruct <=>
           s.errorStruct \/ (/\ build.inPlace /\ r.type = "tBinary"
                             /\ Len(r.binaryValue) > 3 /\ r.binaryValue[4] = 255)
      /\ r.errorStruct => Codec!Marked(r)
  BY <1>1, ResponseDecoded
<1> HIDE DEF r, s
<1>3. received[i] = Response(r, Authorization(m))
  <2> HIDE DEF a
  <2> QED  BY <1>1, <1>2
<1> HIDE DEF a
<1>4. v = r /\ received[i].kind = "response" /\ received[i].authorization = Authorization(m)
  BY <1>3 DEF Response
<1> HIDE DEF v
<1>5. v.errorStruct <=> s.errorStruct \/ Misread(v)
  BY <1>2, <1>4 DEF Misread
<1>6. /\ Codec!SameValue(Codec!ValueOf(v, build), s)
      /\ v.errorStruct => Codec!Marked(v)
  BY <1>2, <1>4
<1>7. IsError(m) => s.errorStruct
  BY <1>2
<1> QED  BY <1>4, <1>5, <1>6, <1>7 DEF v, m, s

\* The responses that are received have the values that were sent, with and without
\* header and however they are decoded (RpcEncoder.cpp:145-223, RpcDecoder.cpp:104-137).
THEOREM ResponsesAreSent ==
  ASSUME CodecUsed, AllSendable(Conversations), AllValuesSendable(Conversations)
  PROVE  ChannelSpec => []ResponsesArrive
<1>1. ASSUME ChannelInv, NEW i \in DOMAIN received, messages[i].kind = "response"
      PROVE  LET v == Value(received[i].variable)
                 s == Codec!Sent(messages[i].variable, build)
             IN /\ received[i].kind = "response"
                /\ received[i].authorization = Authorization(messages[i])
                /\ [v EXCEPT !.errorStruct = s.errorStruct, !.structValue = s.structValue] = s
                /\ DOMAIN s.structValue \subseteq DOMAIN v.structValue
                /\ Restrict(v.structValue, DOMAIN s.structValue) = s.structValue
  <2> DEFINE v == Value(received[i].variable)
             s == Codec!Sent(messages[i].variable, build)
  <2>1. v = Codec!ValueOf(received[i].variable, build)
    BY DEF Value, Codec!ValueOf
  <2>2. /\ received[i].kind = "response" /\ received[i].authorization = Authorization(messages[i])
        /\ Codec!SameValue(v, s)
    BY <1>1, <2>1, ReceivedResponse
  <2> HIDE DEF v, s
  <2>3. /\ [v EXCEPT !.errorStruct = s.errorStruct, !.structValue = s.structValue] = s
        /\ DOMAIN s.structValue \subseteq DOMAIN v.structValue
        /\ Restrict(v.structValue, DOMAIN s.structValue) = s.structValue
    BY <2>2 DEF Codec!SameValue, Codec!Restrict, Restrict
  <2> QED  BY <2>2, <2>3 DEF v, s
<1>2. ChannelInv => ResponsesArrive
  BY <1>1 DEF ResponsesArrive, Authorization
<1> QED  BY <1>2, ChannelInvariance, PTL

\* A response is an error for the receiver exactly if it was one for the sender, or
\* looks like one, and has the members that the handlers of errors read
\* (RpcDecoder.cpp:109-135 and 184, RpcEncoder.cpp:171-173).
THEOREM ErrorsAreSent ==
  ASSUME CodecUsed, AllSendable(Conversations), AllValuesSendable(Conversations)
  PROVE  ChannelSpec => []ErrorsArrive
<1>1. ChannelInv => ErrorsArrive
  BY ReceivedResponse DEF ErrorsArrive, IsError, Codec!Marked
<1> QED  BY <1>1, ChannelInvariance, PTL
=============================================================================
