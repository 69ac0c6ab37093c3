--------------------------- MODULE QueueFullError ---------------------------
(***************************************************************************)
(* IQueueBase::printQueueFullError (src/src/IQueueBase.cpp): the threads   *)
(* whose entries were dropped count them and print a message, which is not *)
(* to be repeated for 10 seconds.  The counter and the time of the last    *)
(* message are two atomics, read and written one after the other.          *)
(***************************************************************************)
EXTENDS Naturals, Sequences

CONSTANTS
  Callers,    \* threads that call printQueueFullError
  Interval,   \* the 10000 ms, in ticks of the model's clock
  MaxDrops,   \* bound on the number of calls
  MaxTime     \* bound on the clock

ASSUME QueueFullErrorAssumption == {Interval, MaxDrops, MaxTime} \subseteq Nat

VARIABLES
  now,        \* HelperFunctions::getTime()
  last,       \* _lastQueueFullError
  dropped,    \* _droppedEntries
  pc,
  local,      \* the local variable droppedEntries of each call
  seenTime,   \* what getTime() returned in each call
  seenLast,   \* the value of _lastQueueFullError each call compares with
  drops,      \* history: calls so far
  printed     \* history: of each message its time, its number and the calls so far

counters == <<last, dropped, drops, printed>>
locals   == <<local, seenTime, seenLast>>
vars == <<now, last, dropped, pc, local, seenTime, seenLast, drops, printed>>

\* The clock is far from zero when the program starts.
Init ==
  /\ now = Interval + 1 /\ last = 0 /\ dropped = 0
  /\ pc = [c \in Callers |-> "idle"]
  /\ local = [c \in Callers |-> 0]
  /\ seenTime = [c \in Callers |-> 0] /\ seenLast = [c \in Callers |-> 0]
  /\ drops = 0
  /\ printed = <<>>

\* Mutant of Count: the counter is incremented after it was read.
CountAfter(c) ==
  /\ pc[c] = "idle" /\ drops < MaxDrops
  /\ dropped' = dropped + 1
  /\ local' = [local EXCEPT ![c] = dropped]
  /\ drops' = drops + 1
  /\ pc' = [pc EXCEPT ![c] = "compare"]
  /\ UNCHANGED <<now, last, seenTime, seenLast, printed>>

\* Line 47.
Count(c) ==
  /\ pc[c] = "idle" /\ drops < MaxDrops
  /\ dropped' = dropped + 1
  /\ local' = [local EXCEPT ![c] = dropped + 1]
  /\ drops' = drops + 1
  /\ pc' = [pc EXCEPT ![c] = "compare"]
  /\ UNCHANGED <<now, last, seenTime, seenLast, printed>>

\* Line 48: the operands of the subtraction are read in either order.
ReadTime(c) ==
  /\ pc[c] \in {"compare", "read_time"}
  /\ seenTime' = [seenTime EXCEPT ![c] = now]
  /\ pc' = [pc EXCEPT ![c] = IF pc[c] = "compare" THEN "read_last" ELSE "decide"]
  /\ UNCHANGED <<counters, now, local, seenLast>>

ReadLast(c) ==
  /\ pc[c] \in {"compare", "read_last"}
  /\ seenLast' = [seenLast EXCEPT ![c] = last]
  /\ pc' = [pc EXCEPT ![c] = IF pc[c] = "compare" THEN "read_time" ELSE "decide"]
  /\ UNCHANGED <<counters, now, local, seenTime>>

\* Mutant of Decide: the message is printed after the interval and before it.
DecideAlways(c) ==
  /\ pc[c] = "decide"
  /\ pc' = [pc EXCEPT ![c] = "stamp"]
  /\ UNCHANGED <<counters, locals, now>>

\* Line 48: a call too early returns; its drop stays counted.
Decide(c) ==
  /\ pc[c] = "decide"
  /\ pc' = [pc EXCEPT ![c] = IF seenTime[c] > seenLast[c] + Interval THEN "stamp" ELSE "idle"]
  /\ UNCHANGED <<counters, locals, now>>

\* Line 49: the call to getTime() in it.
Stamp(c) ==
  /\ pc[c] = "stamp"
  /\ seenTime' = [seenTime EXCEPT ![c] = now]
  /\ pc' = [pc EXCEPT ![c] = "store"]
  /\ UNCHANGED <<counters, now, local, seenLast>>

\* Line 49: the assignment.
Store(c) ==
  /\ pc[c] = "store"
  /\ last' = seenTime[c]
  /\ pc' = [pc EXCEPT ![c] = "reset"]
  /\ UNCHANGED <<locals, now, dropped, drops, printed>>

\* Mutant of Reset: line 50 is missing.
KeepCount(c) ==
  /\ pc[c] = "reset"
  /\ pc' = [pc EXCEPT ![c] = "print"]
  /\ UNCHANGED <<counters, locals, now>>

\* Line 50.
Reset(c) ==
  /\ pc[c] = "reset"
  /\ dropped' = 0
  /\ pc' = [pc EXCEPT ![c] = "print"]
  /\ UNCHANGED <<locals, now, last, drops, printed>>

\* Line 51.
Report(c) ==
  /\ pc[c] = "print"
  /\ printed' = Append(printed, [time |-> seenTime[c], number |-> local[c], upTo |-> drops])
  /\ pc' = [pc EXCEPT ![c] = "idle"]
  /\ UNCHANGED <<locals, now, last, dropped, drops>>

\* The system clock, which is not set back.
Tick ==
  /\ now < MaxTime
  /\ now' = now + 1
  /\ UNCHANGED <<counters, locals, pc>>

Call(c) == \/ Count(c) \/ ReadTime(c) \/ ReadLast(c) \/ Decide(c)
           \/ Stamp(c) \/ Store(c) \/ Reset(c) \/ Report(c)
Next == Tick \/ \E c \in Callers : Call(c)
Spec == Init /\ [][Next]_vars
-----------------------------------------------------------------------------
(* Properties *)

TypeOK ==
  /\ {now, last, drops} \subseteq Nat /\ dropped \in 0 .. drops
  /\ pc \in [Callers -> {"idle", "compare", "read_time", "read_last", "decide", "stamp",
                         "store", "reset", "print"}]
  /\ {local, seenTime, seenLast} \subseteq [Callers -> Nat]
  /\ \A c \in Callers : pc[c] # "idle" => local[c] \in 1 .. drops
  /\ \A k \in DOMAIN printed : printed[k] \in [time : Nat, number : Nat, upTo : Nat]

\* "This message won't repeat for 10 seconds" (line 51): the times that two
\* messages in a row are stamped with at line 49 are further apart.
WontRepeat ==
  \A k \in 2 .. Len(printed) : printed[k].time > printed[k - 1].time + Interval

\* "Dropped outputs since last message: " (line 51): the number printed is
\* that of the calls since the message before.
DroppedSinceLast ==
  \A k \in 1 .. Len(printed) :
    printed[k].number = printed[k].upTo - (IF k = 1 THEN 0 ELSE printed[k - 1].upTo)
=============================================================================
