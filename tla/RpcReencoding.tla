---------------------------- MODULE RpcReencoding ----------------------------
(***************************************************************************)
(* A peer of RpcChannel that goes on using the parameters it has sent.     *)
(* RpcEncoder is given pointers, and encodeVariable writes through them    *)
(* (RpcEncoder.cpp:257, 262, 285, 290, 318, 329).  The caller passes the   *)
(* same parameters to other encoders, and assigns to them meanwhile.       *)
(***************************************************************************)
EXTENDS RpcMessages

CONSTANTS Integers  \* what the caller assigns to integerValue

VARIABLES
  parameters,  \* those of its last message, as encoders have left them
  intended,    \* the same if no encoder had written to them
  filled,      \* an encoder with _forceInteger64 has encoded them
  stale,       \* and the caller has assigned to an integer since
  encoded      \* what is in the packet of the last encoder

callerVars == <<parameters, intended, filled, stale, encoded>>

\* Mutant of fills: integerValue64 is set by every encoder.
fillsAlways(v, b) == v.type = "tInteger"

\* Line 261: the encoder stores what it sends in integerValue64.
fills(v, b) == v.type = "tInteger" /\ b.forceInteger64

\* What encodeVariable makes of the variable.
afterEncoding(pointer, b) ==
  LET after[p \in Codec!Pointers] ==
        LET v == Codec!pointedTo(p) IN
        CASE fills(v, b)        -> [v EXCEPT !.integerValue64 = Codec!forced(v)]
          [] v.type = "tArray"  -> [v EXCEPT !.arrayValue = [i \in DOMAIN @ |-> after[@[i]]]]
          [] v.type = "tStruct" -> [v EXCEPT !.structValue = [n \in DOMAIN @ |-> after[@[n]]]]
          [] OTHER              -> v
  IN after[pointer]

Left(p, b) == [k \in DOMAIN p |-> afterEncoding(p[k], b)]

CallerInit ==
  /\ ChannelInit
  /\ LET m == Last(messages)
     IN intended = IF m.kind = "response" \/ m.parameters = Null THEN <<>> ELSE m.parameters
  /\ parameters = Left(intended, build) /\ encoded = <<>>
  /\ filled = build.forceInteger64 /\ stale = FALSE

\* The caller assigns to integerValue, a public member.
Assign(k, i) ==
  /\ Codec!pointedTo(parameters[k]).type = "tInteger"
  /\ parameters' = [parameters EXCEPT ![k].integerValue = i]
  /\ intended' = [intended EXCEPT ![k].integerValue = i]
  /\ stale' = filled
  /\ UNCHANGED <<filled, encoded>>

encodeRequest(b) ==
  /\ encoded' = Codec!requestBody(<<>>, parameters, b)
  /\ parameters' = Left(parameters, b)
  /\ filled' = (filled \/ b.forceInteger64)
  /\ UNCHANGED <<intended, stale>>

\* The stream and the caller have nothing in common: it may as well go on when
\* the stream has ended.
Caller ==
  /\ AtEnd
  /\ \/ \E k \in DOMAIN parameters, i \in Integers : Assign(k, i)
     \/ \E b \in Builds : encodeRequest(b)
  /\ UNCHANGED channelVars

CallerNext == (ChannelNext /\ UNCHANGED callerVars) \/ Caller

CallerSpec == CallerInit /\ [][CallerNext]_<<channelVars, callerVars>>

-----------------------------------------------------------------------------
(* Properties *)

\* Whatever encoders have done to the parameters, the next one sends what it
\* would send had they not: of the 32 bits always, and of 64 bits unless the
\* caller has assigned to integerValue after integerValue64 was filled in
\* (RpcEncoder.cpp:262), which then is the older of the two.
EncodingUnseen ==
  [][\A b \in Builds :
       encodeRequest(b) /\ (stale => ~b.forceInteger64) =>
         encoded' = Codec!requestBody(<<>>, intended, b)]_callerVars
=============================================================================
