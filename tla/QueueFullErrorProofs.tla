------------------------ MODULE QueueFullErrorProofs ------------------------
(***************************************************************************)
(* What printQueueFullError keeps for any interval and any length of the   *)
(* run: its types with any number of callers, and both promises of its     *)
(* message if only one thread ever calls it (Alone).  With a second caller *)
(* neither promise holds.                                                  *)
(***************************************************************************)
EXTENDS QueueFullError, SequenceTheorems, TLAPS

Alone == \A c, d \in Callers : c = d

States == {"idle", "compare", "read_time", "read_last", "decide", "stamp", "store", "reset", "print"}

\* TypeOK, with the sequence typed as a whole.
Types ==
  /\ now \in Nat /\ last \in Nat /\ drops \in Nat /\ dropped \in 0 .. drops
  /\ pc \in [Callers -> States]
  /\ local \in [Callers -> Nat] /\ seenTime \in [Callers -> Nat] /\ seenLast \in [Callers -> Nat]
  /\ \A c \in Callers : pc[c] # "idle" => local[c] \in 1 .. drops
  /\ printed \in Seq([time : Nat, number : Nat, upTo : Nat])

\* The calls that the messages so far account for.
Told == IF printed = <<>> THEN 0 ELSE printed[Len(printed)].upTo

\* _lastQueueFullError is the time of the last message, unless the next one has
\* been stamped and not been printed yet; what a call has read is still true.
Stamped ==
  \A c \in Callers :
    /\ pc[c] \in {"read_time", "decide"} => seenLast[c] = last
    /\ pc[c] \in {"read_last", "decide"} => seenTime[c] <= now
    /\ pc[c] = "stamp" => now > last + Interval
    /\ pc[c] = "store" => seenTime[c] > last + Interval
    /\ pc[c] \in {"reset", "print"} => last = seenTime[c]
    /\ printed # <<>> =>
         IF pc[c] \in {"reset", "print"} THEN seenTime[c] > printed[Len(printed)].time + Interval
                                         ELSE last = printed[Len(printed)].time

\* Every call is counted in _droppedEntries, in a message, or in the one that
\* is about to be printed.
Counted ==
  \A c \in Callers :
    /\ Told <= drops
    /\ IF pc[c] = "print" THEN dropped = 0 ELSE dropped = drops - Told
    /\ pc[c] # "idle" => local[c] = drops - Told

IInv == Types /\ Stamped /\ Counted /\ WontRepeat /\ DroppedSinceLast

-----------------------------------------------------------------------------

\* What a sequence of messages holds.
LEMMA MessageTypes ==
  ASSUME Types
  PROVE  /\ Len(printed) \in Nat /\ DOMAIN printed = 1 .. Len(printed)
         /\ \A k \in 1 .. Len(printed) : printed[k] \in [time : Nat, number : Nat, upTo : Nat]
         /\ printed # <<>> => Len(printed) \in 1 .. Len(printed)
<1> DEFINE Message == [time : Nat, number : Nat, upTo : Nat]
<1>1. printed \in Seq(Message)
  BY DEF Types
<1> HIDE DEF Message
<1>2. /\ Len(printed) \in Nat /\ DOMAIN printed = 1 .. Len(printed)
      /\ \A k \in 1 .. Len(printed) : printed[k] \in Message
      /\ printed # <<>> => Len(printed) # 0
  BY <1>1, ElementOfSeq, LenProperties, EmptySeq
<1> QED  BY <1>2 DEF Message

LEMMA TypesInit == Init => Types
BY QueueFullErrorAssumption DEF Init, Types, States

\* Any number of calls, interleaved in any way, keep the types.
LEMMA TypesNext == Types /\ [Next]_vars => Types'
<1> USE QueueFullErrorAssumption DEF Types, States, counters, locals
<1>1. SUFFICES ASSUME Types, [Next]_vars PROVE Types'
  OBVIOUS
<1>2. CASE UNCHANGED vars
  BY <1>1, <1>2 DEF vars
<1>3. CASE Tick
  BY <1>1, <1>3 DEF Tick
<1>4. ASSUME NEW c \in Callers, Call(c) PROVE Types'
  <2>1. CASE Count(c)
    BY <1>1, <2>1, SMTT(60) DEF Count
  <2>2. CASE ReadTime(c)
    BY <1>1, <2>2 DEF ReadTime
  <2>3. CASE ReadLast(c)
    BY <1>1, <2>3 DEF ReadLast
  <2>4. CASE Decide(c)
    BY <1>1, <2>4 DEF Decide
  <2>5. CASE Stamp(c)
    BY <1>1, <2>5 DEF Stamp
  <2>6. CASE Store(c)
    BY <1>1, <2>6 DEF Store
  <2>7. CASE Reset(c)
    BY <1>1, <2>7 DEF Reset
  <2>8. CASE Report(c)
    BY <1>1, <2>8 DEF Report
  <2> QED  BY <1>4, <2>1, <2>2, <2>3, <2>4, <2>5, <2>6, <2>7, <2>8 DEF Call
<1> QED  BY <1>1, <1>2, <1>3, <1>4 DEF Next

\* The type invariant, for any number of callers.
THEOREM TypeCorrect == Spec => []TypeOK
<1>1. Types => TypeOK
  BY MessageTypes DEF Types, TypeOK, States
<1> QED  BY <1>1, TypesInit, TypesNext, PTL DEF Spec

-----------------------------------------------------------------------------
(* One caller *)

LEMMA InvInit == Init => IInv
BY TypesInit, QueueFullErrorAssumption
   DEF Init, IInv, Stamped, Counted, Told, WontRepeat, DroppedSinceLast

\* The message that a call appends is the last one.
LEMMA LastAppended ==
  ASSUME Types, NEW c \in Callers, Report(c)
  PROVE  /\ printed' # <<>> /\ Len(printed') = Len(printed) + 1
         /\ \A k \in 1 .. Len(printed) : printed'[k] = printed[k]
         /\ printed'[Len(printed')] = [time |-> seenTime[c], number |-> local[c], upTo |-> drops]
<1> DEFINE new == [time |-> seenTime[c], number |-> local[c], upTo |-> drops]
           Message == [time : Nat, number : Nat, upTo : Nat]
<1>1. printed' = Append(printed, new) /\ printed \in Seq(Message) /\ new \in Message
  BY DEF Types, Report
<1> HIDE DEF new, Message
<1>2. /\ printed' # <<>> /\ Len(printed') = Len(printed) + 1
      /\ \A k \in 1 .. Len(printed) : printed'[k] = printed[k]
      /\ printed'[Len(printed')] = new
  BY <1>1, AppendProperties
<1> QED  BY <1>2 DEF new

\* A message that is appended keeps both promises if the invariant holds.
LEMMA AppendKeeps ==
  ASSUME IInv, Types', NEW c \in Callers, Report(c)
  PROVE  WontRepeat' /\ DroppedSinceLast'
<1> DEFINE new == [time |-> seenTime[c], number |-> local[c], upTo |-> drops]
<1>1. pc[c] = "print"
  BY DEF Report
<1>2. Len(printed) \in Nat
  BY MessageTypes DEF IInv
<1>3. /\ Len(printed') = Len(printed) + 1
      /\ printed'[Len(printed) + 1] = new
      /\ \A k \in 1 .. Len(printed) : printed'[k] = printed[k]
  BY LastAppended DEF IInv
<1> HIDE DEF new
<1>4. WontRepeat'
  <2>1. SUFFICES ASSUME NEW k \in 2 .. Len(printed')
                 PROVE  printed'[k].time > printed'[k - 1].time + Interval
    BY DEF WontRepeat
  <2>2. CASE k <= Len(printed)
    BY <1>2, <1>3, <2>1, <2>2 DEF IInv, WontRepeat
  <2>3. CASE k = Len(printed) + 1
    <3>1. printed # <<>> /\ printed'[k - 1] = printed[Len(printed)]
      BY <1>1, <1>2, <1>3, <2>1, <2>3
    <3>2. new.time > printed[Len(printed)].time + Interval
      BY <1>1, <3>1 DEF IInv, Stamped, new
    <3> QED  BY <1>3, <2>3, <3>1, <3>2
  <2> QED  BY <1>2, <1>3, <2>1, <2>2, <2>3
<1>5. DroppedSinceLast'
  <2>1. SUFFICES ASSUME NEW k \in 1 .. Len(printed')
                 PROVE  printed'[k].number = printed'[k].upTo - (IF k = 1 THEN 0 ELSE printed'[k - 1].upTo)
    BY DEF DroppedSinceLast
  <2>2. CASE k <= Len(printed)
    BY <1>2, <1>3, <2>1, <2>2 DEF IInv, DroppedSinceLast
  <2>3. CASE k = Len(printed) + 1
    <3>1. (IF k = 1 THEN 0 ELSE printed'[k - 1].upTo) = Told
      BY <1>1, <1>2, <1>3, <2>1, <2>3 DEF Told
    <3>2. new.number = new.upTo - Told
      BY <1>1 DEF IInv, Counted, new
    <3> QED  BY <1>3, <2>3, <3>1, <3>2
  <2> QED  BY <1>2, <1>3, <2>1, <2>2, <2>3
<1> QED  BY <1>4, <1>5

LEMMA InvNext == ASSUME Alone, IInv, [Next]_vars PROVE IInv'
<1> USE QueueFullErrorAssumption DEF counters, locals
<1>1. Types'
  BY TypesNext DEF IInv
<1>2. CASE UNCHANGED vars
  BY <1>2 DEF vars, IInv, Types, Stamped, Counted, Told, WontRepeat, DroppedSinceLast
<1>3. CASE Tick
  <2>1. Stamped'
    BY <1>3 DEF Tick, IInv, Types, Stamped
  <2> QED  BY <1>1, <1>3, <2>1 DEF Tick, IInv, Counted, Told, WontRepeat, DroppedSinceLast
<1>4. ASSUME NEW c \in Callers, Call(c) PROVE IInv'
  <2> USE DEF Alone, States
  <2>a. \A P \in Callers : P = c
    OBVIOUS
  <2>b. \A k \in 1 .. Len(printed) : printed[k] \in [time : Nat, number : Nat, upTo : Nat]
    BY MessageTypes DEF IInv
  <2>c. printed # <<>> => printed[Len(printed)] \in [time : Nat, number : Nat, upTo : Nat]
    BY MessageTypes DEF IInv
  <2>d. Told \in Nat
    BY <2>c DEF Told
  <2>1. CASE Count(c)
    <3>1. Stamped'
      BY <2>a, <2>c, <2>1 DEF Count, IInv, Types, Stamped
    <3>2. Told' = Told /\ dropped' = dropped + 1 /\ drops' = drops + 1 /\ dropped = drops - Told
      BY <2>1 DEF Count, IInv, Counted, Told
    <3>3. pc'[c] = "compare" /\ local'[c] = dropped + 1
      BY <2>1 DEF Count, IInv, Types
    <3>4. Told <= drops /\ dropped \in Nat /\ drops \in Nat
      BY DEF IInv, Types, Counted
    <3>5. Counted'
      BY <2>a, <2>d, <3>2, <3>3, <3>4 DEF Counted
    <3> QED  BY <1>1, <2>1, <3>1, <3>5 DEF Count, IInv, WontRepeat, DroppedSinceLast
  <2>2. CASE ReadTime(c)
    <3>1. Stamped'
      BY <2>a, <2>c, <2>2, SMTT(60) DEF ReadTime, IInv, Types, Stamped
    <3>2. Counted'
      BY <2>a, <2>d, <2>2 DEF ReadTime, IInv, Types, Counted, Told
    <3> QED  BY <1>1, <2>2, <3>1, <3>2 DEF ReadTime, IInv, WontRepeat, DroppedSinceLast
  <2>3. CASE ReadLast(c)
    <3>1. Stamped'
      BY <2>a, <2>c, <2>3 DEF ReadLast, IInv, Types, Stamped
    <3>2. Counted'
      BY <2>a, <2>d, <2>3 DEF ReadLast, IInv, Types, Counted, Told
    <3> QED  BY <1>1, <2>3, <3>1, <3>2 DEF ReadLast, IInv, WontRepeat, DroppedSinceLast
  <2>4. CASE Decide(c)
    <3>1. Stamped'
      BY <2>a, <2>c, <2>4, SMTT(60) DEF Decide, IInv, Types, Stamped
    <3>2. Counted'
      BY <2>a, <2>d, <2>4 DEF Decide, IInv, Types, Counted, Told
    <3> QED  BY <1>1, <2>4, <3>1, <3>2 DEF Decide, IInv, WontRepeat, DroppedSinceLast
  <2>5. CASE Stamp(c)
    <3>1. Stamped'
      BY <2>a, <2>c, <2>5 DEF Stamp, IInv, Types, Stamped
    <3>2. Counted'
      BY <2>a, <2>d, <2>5 DEF Stamp, IInv, Types, Counted, Told
    <3> QED  BY <1>1, <2>5, <3>1, <3>2 DEF Stamp, IInv, WontRepeat, DroppedSinceLast
  <2>6. CASE Store(c)
    <3>1. Stamped'
      BY <2>a, <2>c, <2>6 DEF Store, IInv, Types, Stamped
    <3>2. Counted'
      BY <2>a, <2>d, <2>6 DEF Store, IInv, Types, Counted, Told
    <3> QED  BY <1>1, <2>6, <3>1, <3>2 DEF Store, IInv, WontRepeat, DroppedSinceLast
  <2>7. CASE Reset(c)
    <3>1. Stamped'
      BY <2>a, <2>c, <2>7 DEF Reset, IInv, Types, Stamped
    <3>2. Counted'
      BY <2>a, <2>d, <2>7 DEF Reset, IInv, Types, Counted, Told
    <3> QED  BY <1>1, <2>7, <3>1, <3>2 DEF Reset, IInv, WontRepeat, DroppedSinceLast
  <2>8. CASE Report(c)
    <3> DEFINE new == [time |-> seenTime[c], number |-> local[c], upTo |-> drops]
    <3>1. printed' # <<>> /\ printed'[Len(printed')] = new
      BY <2>8, LastAppended DEF IInv
    <3>2. pc[c] = "print" /\ pc'[c] = "idle" /\ UNCHANGED <<last, dropped, drops, local>>
      BY <2>8 DEF Report, IInv, Types, locals
    <3>3. Told' = drops
      BY <3>1 DEF Told
    <3>4. dropped = 0 /\ last = seenTime[c]
      BY <3>2 DEF IInv, Stamped, Counted
    <3>5. Stamped'
      BY <2>a, <3>1, <3>2, <3>4 DEF Stamped
    <3>6. Counted'
      BY <2>a, <3>2, <3>3, <3>4 DEF Counted, IInv, Types
    <3> QED  BY <1>1, <2>8, <3>5, <3>6, AppendKeeps DEF IInv
  <2> QED  BY <1>4, <2>1, <2>2, <2>3, <2>4, <2>5, <2>6, <2>7, <2>8 DEF Call
<1> QED  BY <1>2, <1>3, <1>4 DEF Next

LEMMA Invariance == ASSUME Alone PROVE Spec => []IInv
BY InvInit, InvNext, PTL DEF Spec

\* Two messages of a single caller are more than the interval apart, however
\* long the steps between reading the clock and printing take.
THEOREM AloneWontRepeat == ASSUME Alone PROVE Spec => []WontRepeat
<1>1. IInv => WontRepeat
  BY DEF IInv
<1> QED  BY <1>1, Invariance, PTL

\* No drop of a single caller is left out or told twice: the count survives
\* the calls that print nothing, and nothing is lost at its reset.
THEOREM AloneDroppedSinceLast == ASSUME Alone PROVE Spec => []DroppedSinceLast
<1>1. IInv => DroppedSinceLast
  BY DEF IInv
<1> QED  BY <1>1, Invariance, PTL
=============================================================================
