-------------------------- MODULE MCQueueFullError --------------------------
(* Instances of QueueFullError for TLC. *)
EXTENDS QueueFullError

CONSTANTS c1, c2

OneCaller  == {c1}
TwoCallers == {c1, c2}
=============================================================================
