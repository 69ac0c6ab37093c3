------------------------------ MODULE MCIQueue ------------------------------
(* Instances of IQueue for TLC. *)
EXTENDS IQueue, TLC

CONSTANTS p1, p2, w1, w2, e1, e2, e3, e4

OneProducer  == {p1}
TwoProducers == {p1, p2}
TwoWorkers   == {w1, w2}
OneEntry     == {e1}
TwoEntries   == {e1, e2}
FourEntries  == {e1, e2, e3, e4}

Both     == {TRUE, FALSE}
Chosen   == {FALSE}
Symmetry == Permutations(Producers) \cup Permutations(Workers) \cup Permutations(Entries)

\* Clients whose calls never end: an entry may be passed to enqueue again at any
\* time, whether or not it has been processed since (it is a shared_ptr).  Nobody
\* has to do so; the stream of calls may also stop at any time.
Renew == \E e \in Entries \ fresh :
           /\ fresh' = fresh \cup {e}
           /\ taken' = taken \ {e}
           /\ UNCHANGED <<ring, control, mutex, pc, arg, callWaits, held>>
EndlessSpec == Init /\ [][Next \/ Renew]_vars /\ Fairness
=============================================================================
