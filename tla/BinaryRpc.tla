------------------------------ MODULE BinaryRpc ------------------------------
(***************************************************************************)
(* Flows::BinaryRpc (src/src/BinaryRpc.cpp) cuts a stream of bytes into    *)
(* packets, however the transport cuts it into buffers.  The peer sends    *)
(* the packets of sent; the client hands each buffer it receives to        *)
(* process(), again and again until it is used up, takes every finished    *)
(* packet and calls reset().                                               *)
(*                                                                         *)
(* A packet is "Bin", a type byte, a size of 4 bytes and so many bytes; if *)
(* the type is 0x40 or 0x41 the size is that of a header, and the size of  *)
(* the data, again 4 bytes, and the data follow it.                        *)
(***************************************************************************)
EXTENDS Integers, SequencesExt

CONSTANTS
  Streams,    \* what the peer may send: sequences of packets
  Radix,      \* values of one byte of a size, 256 in the code
  MaxHeader,  \* 10485760
  MaxData,    \* 104857600
  MaxChunk    \* the client's buffer

ASSUME BinaryRpcAssumption ==
  /\ {Radix, MaxHeader, MaxData, MaxChunk} \subseteq Nat \ {0}
  /\ Streams \subseteq Seq(Seq(Nat))

VARIABLES
  sent,        \* the packets of this stream
  rest,        \* bytes the client has not received yet
  chunk,       \* the unprocessed bytes of the client's buffer
  data,        \* _data
  hasHeader,   \* _hasHeader
  headerSize,  \* _headerSize
  dataSize,    \* _dataSize
  finished,    \* _finished
  started,     \* _processingStarted
  type,        \* _type
  delivered,   \* packets the client has taken
  error        \* the exception that ended the stream

packet == <<hasHeader, headerSize, dataSize, type>>
vars == <<sent, rest, chunk, data, packet, finished, started, delivered, error>>

Magic     == <<66, 105, 110>>               \* "Bin"
WithHeader == {64, 65}                      \* 0x40, 0x41
Width     == Radix * Radix * Radix * Radix  \* of uint32_t

\* memcpyBigEndian of the 4 bytes that follow the first n, to a uint32_t.
Word(s, n) ==
  (((s[n + 1] * Radix + s[n + 2]) * Radix + s[n + 3]) * Radix + s[n + 4]) % Width

Init ==
  /\ sent \in Streams
  /\ rest = FlattenSeq(sent)
  /\ chunk = <<>> /\ data = <<>>
  /\ hasHeader = FALSE /\ headerSize = 0 /\ dataSize = 0
  /\ finished = FALSE /\ started = FALSE /\ type = "unknown"
  /\ delivered = <<>>
  /\ error = "none"

\* The transport fills the client's buffer once it has been processed.
Receive ==
  /\ error = "none" /\ chunk = <<>> /\ ~finished /\ rest # <<>>
  /\ \E n \in 1 .. MaxChunk :
       /\ n <= Len(rest)
       /\ chunk' = SubSeq(rest, 1, n)
       /\ rest' = SubSeq(rest, n + 1, Len(rest))
  /\ UNCHANGED <<sent, data, packet, finished, started, delivered, error>>

-----------------------------------------------------------------------------
(* process(buffer, bufferLength).  All insertions append bytes of the      *)
(* buffer in order; they are expressed by what is collected in the end.    *)

available == data \o chunk

\* Lines 64-66: a call with an empty buffer or after the packet's end does
\* nothing.
Processing == error = "none" /\ chunk # <<>> /\ ~finished /\ started' = TRUE

\* All bytes are used, and the packet is not complete.
Collect == data' = available /\ chunk' = <<>> /\ UNCHANGED <<finished, error>>

\* An exception; the packet keeps the first n bytes.
Throw(n, what) == data' = SubSeq(available, 1, n) /\ error' = what /\ UNCHANGED chunk

\* Lines 67-69.
CollectPrefix ==
  /\ Processing /\ Len(available) < 8
  /\ Collect
  /\ UNCHANGED <<sent, rest, packet, delivered>>

\* The size of the first 8 bytes or of what was there before (lines 70-75).
prefix == IF Len(data) < 8 THEN 8 ELSE Len(data)

\* Lines 76-79.
RejectMagic ==
  /\ Processing /\ Len(available) >= 8 /\ SubSeq(available, 1, 3) # Magic
  /\ Throw(prefix, "magic") /\ finished' = TRUE
  /\ UNCHANGED <<sent, rest, packet, delivered>>

\* Lines 81-88: the header size, and the data size of a packet
\* without header, are read again by every call; the data size of a packet
\* with header is 0 until line 104 sets it.
HasHeader == available[4] \in WithHeader
header    == IF HasHeader THEN Word(available, 4) ELSE headerSize
size      == IF HasHeader THEN dataSize ELSE Word(available, 4)

Typed ==
  /\ Processing /\ Len(available) >= 8 /\ SubSeq(available, 1, 3) = Magic
  /\ type' = IF available[4] % 2 = 1 THEN "response" ELSE "request"
  /\ hasHeader' = (hasHeader \/ HasHeader)
  /\ headerSize' = header
  /\ UNCHANGED <<sent, rest, delivered>>

\* Lines 84 and 87: the packet is not marked as finished.
RejectSize ==
  /\ Typed
  /\ IF HasHeader THEN header > MaxHeader ELSE size > MaxData
  /\ Throw(prefix, "size") /\ dataSize' = size
  /\ UNCHANGED finished

\* Mutant of Fits: the limits are not checked.
NoLimits == TRUE

Fits == IF HasHeader THEN header <= MaxHeader ELSE size <= MaxData

\* Mutant of RejectEmpty: the header size does not matter.
RejectNoData ==
  /\ Typed /\ Fits /\ size = 0
  /\ Throw(prefix, "format") /\ finished' = TRUE /\ dataSize' = size

\* Lines 89-92.
RejectEmpty ==
  /\ Typed /\ Fits /\ size = 0 /\ header = 0
  /\ Throw(prefix, "format") /\ finished' = TRUE /\ dataSize' = size

\* Lines 93-99.
CollectHeader ==
  /\ Typed /\ Fits /\ size = 0 /\ header # 0 /\ Len(available) < 8 + header + 4
  /\ Collect /\ dataSize' = size

\* Lines 93-105: the bytes behind the first 8, computed in 32 bits.
Sized == size # 0 \/ (header # 0 /\ Len(available) >= 8 + header + 4)

\* Mutant of total: the 4 bytes of the header size are counted as well.
totalLong == IF size # 0 THEN size ELSE (Word(available, 8 + header) + header + 8) % Width

total == IF size # 0 THEN size ELSE (Word(available, 8 + header) + header + 4) % Width

\* Line 106.
RejectTotal ==
  /\ Typed /\ Fits /\ Sized /\ size = 0 /\ total > MaxData
  /\ Throw(8 + header + 4, "size") /\ dataSize' = total
  /\ UNCHANGED finished

\* The sum is less than what it is the sum of.
Wrapped == size = 0 /\ total < header + 4

\* Lines 113-114: the range to insert ends before it begins, which is undefined;
\* libstdc++ takes its length for a very large one and throws length_error.
RejectWrapped ==
  /\ Typed /\ Fits /\ Sized /\ total <= MaxData /\ Wrapped
  /\ Throw(8 + header + 4, "length") /\ dataSize' = total
  /\ UNCHANGED finished

\* Mutant of CollectData: <= instead of <.
CollectAll ==
  /\ Typed /\ Fits /\ Sized /\ total <= MaxData /\ Len(available) <= total + 8
  /\ Collect /\ dataSize' = total

\* Lines 108-112.
CollectData ==
  /\ Typed /\ Fits /\ Sized /\ total <= MaxData /\ Len(available) < total + 8
  /\ Collect /\ dataSize' = total

\* Mutant of Finish: the whole buffer counts as processed.
FinishAll ==
  /\ Typed /\ Fits /\ Sized /\ total <= MaxData /\ ~Wrapped
  /\ Len(available) >= total + 8
  /\ data' = SubSeq(available, 1, total + 8) /\ chunk' = <<>>
  /\ dataSize' = total /\ finished' = TRUE
  /\ UNCHANGED error

\* Mutant of Finish: a packet is complete when more than its bytes are there.
FinishLate ==
  /\ Typed /\ Fits /\ Sized /\ total <= MaxData /\ ~Wrapped
  /\ Len(available) > total + 8
  /\ data' = SubSeq(available, 1, total + 8)
  /\ chunk' = SubSeq(available, total + 9, Len(available))
  /\ dataSize' = total /\ finished' = TRUE
  /\ UNCHANGED error

\* Lines 113-118: what follows the packet stays in the buffer.
Finish ==
  /\ Typed /\ Fits /\ Sized /\ total <= MaxData /\ ~Wrapped
  /\ Len(available) >= total + 8
  /\ data' = SubSeq(available, 1, total + 8)
  /\ chunk' = SubSeq(available, total + 9, Len(available))
  /\ dataSize' = total /\ finished' = TRUE
  /\ UNCHANGED error

process == \/ CollectPrefix \/ RejectMagic \/ RejectSize \/ RejectEmpty
           \/ CollectHeader \/ RejectTotal \/ CollectData \/ RejectWrapped \/ Finish

\* isFinished(), getData() and reset() (lines 121-130).
Deliver ==
  /\ error = "none" /\ finished
  /\ delivered' = Append(delivered, data)
  /\ data' = <<>>
  /\ hasHeader' = FALSE /\ headerSize' = 0 /\ dataSize' = 0
  /\ finished' = FALSE /\ started' = FALSE /\ type' = "unknown"
  /\ UNCHANGED <<sent, rest, chunk, error>>

Next == Receive \/ process \/ Deliver

Spec == Init /\ [][Next]_vars

\* The client reads on as long as the peer sends.
FairSpec == Spec /\ WF_vars(Next)
-----------------------------------------------------------------------------
(* Properties *)

\* The packet format: what one complete packet is.
WellFormed(p) ==
  /\ Len(p) > 8 /\ SubSeq(p, 1, 3) = Magic
  /\ IF p[4] \in WithHeader
     THEN LET h == Word(p, 4) IN
          /\ h \in 1 .. MaxHeader /\ Len(p) >= 8 + h + 4
          /\ Len(p) = 8 + h + 4 + Word(p, 8 + h) /\ Len(p) - 8 <= MaxData
     ELSE Word(p, 4) \in 1 .. MaxData /\ Len(p) = 8 + Word(p, 4)

\* A packet that says of itself that it is none: the bytes that are needed to
\* see it are there, the others need not be.
Refused(p) ==
  /\ Len(p) >= 8
  /\ \/ SubSeq(p, 1, 3) # Magic
     \/ p[4] \notin WithHeader /\ Word(p, 4) \notin 1 .. MaxData
     \/ p[4] \in WithHeader /\ LET h == Word(p, 4) IN
          \/ h \notin 1 .. MaxHeader
          \/ Len(p) >= 8 + h + 4 /\ h + 4 + Word(p, 8 + h) > MaxData

\* The peer sends well-formed packets up to one that is refused, and the sum of
\* the sizes of a well-formed packet does not wrap.  Anything may follow.
ProperStreams ==
  /\ MaxData < Width
  /\ \A s \in Streams : \A i \in DOMAIN s : WellFormed(s[i]) \/ \E j \in 1 .. i : Refused(s[j])

\* Of the types, above all: no size that process() works with is over its limit.
TypeOK ==
  /\ {data, chunk, rest} \subseteq Seq(Nat)
  /\ {hasHeader, finished, started} \subseteq BOOLEAN
  /\ {headerSize, dataSize} \subseteq 0 .. Width - 1
  /\ error = "none" => headerSize <= MaxHeader /\ dataSize <= MaxData
  /\ type \in {"unknown", "request", "response"}
  /\ error \in {"none", "magic", "size", "format", "length"}

\* No byte is lost, doubled or moved by any division into buffers, while no
\* exception is thrown (which leaves the number of bytes used unknown).
NothingLost ==
  error = "none" =>
    FlattenSeq(delivered) \o data \o chunk \o rest = FlattenSeq(sent)

\* The client takes exactly the packets that were sent.
DeliveredAsSent ==
  \/ delivered = <<>>
  \/ Len(delivered) <= Len(sent) /\ delivered = SubSeq(sent, 1, Len(delivered))

\* A complete packet is reported as finished by the call that got its last
\* byte; it does not have to wait for bytes of the next one.
NotHeldBack ==
  error = "none" /\ chunk = <<>> /\ ~finished /\ data # <<>>
    => Len(delivered) < Len(sent) /\ Len(data) < Len(sent[Len(delivered) + 1])

\* An exception is thrown for a malformed packet only.
RejectsOnlyMalformed ==
  error # "none" => Len(delivered) < Len(sent) /\ ~WellFormed(sent[Len(delivered) + 1])

\* Every packet is delivered, up to the first malformed one, which raises an
\* exception.
AllDelivered == <>(delivered = sent \/ error # "none")
=============================================================================
