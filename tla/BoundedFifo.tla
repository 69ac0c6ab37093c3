----------------------------- MODULE BoundedFifo -----------------------------
(***************************************************************************)
(* What one queue of Flows::IQueue promises its clients: a bounded         *)
(* first-in first-out queue that is opened and closed.  While it closes,   *)
(* entries may still be accepted but none is handed out any more; what is  *)
(* then left in it is discarded.                                           *)
(***************************************************************************)
EXTENDS Naturals, Sequences

CONSTANTS Entries, Capacity

VARIABLES phase, items, taken

vars == <<phase, items, taken>>

Init == phase = "closed" /\ items = <<>> /\ taken = {}

Open    == phase = "closed" /\ phase' = "open" /\ UNCHANGED <<items, taken>>
Close   == phase = "open" /\ phase' = "closing" /\ UNCHANGED <<items, taken>>
Discard == phase = "closing" /\ phase' = "closed" /\ items' = <<>> /\ UNCHANGED taken

\* An accepted entry goes to the end of the queue.
Put ==
  /\ phase \in {"open", "closing"} /\ Len(items) < Capacity
  /\ \E e \in Entries : items' = Append(items, e)
  /\ UNCHANGED <<phase, taken>>

\* The oldest entry is handed out, and no entry is handed out twice.
Take ==
  /\ phase = "open" /\ items # <<>>
  /\ Head(items) \in Entries \ taken
  /\ items' = Tail(items)
  /\ taken' = taken \cup {Head(items)}
  /\ UNCHANGED phase

Next == Open \/ Close \/ Discard \/ Put \/ Take

Spec == Init /\ [][Next]_vars
=============================================================================
