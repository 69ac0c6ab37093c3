------------------------------- MODULE IQueue -------------------------------
(***************************************************************************)
(* One queue of Flows::IQueue (src/src/IQueue.cpp): a ring buffer guarded  *)
(* by a mutex, filled by enqueue() from client threads and emptied by the  *)
(* worker threads that startQueue() creates, which run process().  The     *)
(* index argument only selects one of several independent queues, so a     *)
(* single queue is modelled.                                               *)
(*                                                                         *)
(* The mutex covers enqueue() and process() but not startQueue() and       *)
(* stopQueue(): the stop flag is an atomic written without the mutex, and  *)
(* the vector is resized and cleared without it.  A step is therefore what *)
(* a thread does between two points where that matters; an access beyond   *)
(* the end of the vector is undefined, and the invariants rule it out.     *)
(***************************************************************************)
EXTENDS Integers, FiniteSets

CONSTANTS
  Producers,     \* client threads, which call enqueue
  Workers,       \* the processingThreadCount threads that startQueue creates
  Entries,       \* queue entries; each is passed to enqueue at most once
  None,          \* the null shared_ptr, and the owner of a free mutex
  BufferSize,    \* _bufferSize
  WaitModes,     \* values of startQueue's waitWhenFull
  CallModes,     \* values of enqueue's waitWhenFull
  Reentrant,     \* may processQueueEntry call enqueue on its own queue?
  OverlapStart,  \* may enqueue calls overlap a call of startQueue?
  OverlapStop,   \* may non-waiting enqueue calls overlap a call of stopQueue?
  MaxStarts      \* bound on the number of startQueue calls

Threads == Producers \cup Workers

ASSUME IQueueAssumption ==
  /\ IsFiniteSet(Threads) /\ Producers \cap Workers = {}
  /\ None \notin Entries /\ None \notin Threads
  /\ BufferSize \in Nat \ {0}
  /\ WaitModes \subseteq BOOLEAN /\ CallModes \subseteq BOOLEAN
  /\ {Reentrant, OverlapStart, OverlapStop} \subseteq BOOLEAN
  /\ MaxStarts \in Nat

VARIABLES
  stop,        \* _stopProcessingThread[index]
  head,        \* _bufferHead[index]
  tail,        \* _bufferTail[index]
  count,       \* _bufferCount[index]
  queueWaits,  \* _waitWhenFull[index]
  buffer,      \* _buffer[index]; empty until resized and after it is cleared
  mutex,       \* the owner of _queueMutex[index]
  pc,          \* where each producer and worker is
  arg,         \* the entry of each enqueue call in flight
  callWaits,   \* its waitWhenFull argument
  held,        \* the local variable entry of each worker's process()
  ctl,         \* where the thread that starts and stops the queue is
  starts,      \* startQueue calls so far
  fresh,       \* entries not yet passed to enqueue
  taken        \* history: entries taken out of the ring for processing

ring    == <<head, tail, count, buffer>>
calls   == <<arg, callWaits, fresh>>
control == <<stop, queueWaits, ctl, starts>>
vars    == <<stop, head, tail, count, queueWaits, buffer, mutex, pc, arg,
             callWaits, held, ctl, starts, fresh, taken>>

Slots       == 0 .. BufferSize - 1
NoBuffer    == [i \in {} |-> None]            \* after clear()
EmptyBuffer == [i \in Slots |-> None]         \* after resize(_bufferSize)

EnqPC    == {"enq_lock", "enq_check", "enq_sleep", "enq_blocked", "enq_write",
             "enq_notify"}
WorkerPC == {"off", "outer", "lock", "check", "sleep", "blocked", "take",
             "notify", "process", "relock", "done"}
Starting == {"start_reset", "start_spawn"}
Stopping == {"stop_lock", "stop_notify", "stop_join", "stop_clear"}

\* Where an enqueue call returns to: a producer's own code, or the callback.
Home(t)  == IF t \in Workers THEN "process" ELSE "idle"
Waits(t) == queueWaits \/ callWaits[t]

\* The predicates of the two condition variables.
MayProduce == count < BufferSize \/ stop
MayProcess == count > 0 \/ stop

\* notify_one: t goes to next and, if any thread is blocked at place, one of
\* them is woken and goes for the mutex again.
NotifyOne(t, next, place, awake) ==
  LET blocked == {u \in Threads : pc[u] = place} IN
  \/ blocked = {} /\ pc' = [pc EXCEPT ![t] = next]
  \/ \E u \in blocked : pc' = [pc EXCEPT ![t] = next, ![u] = awake]

Init ==
  /\ stop = TRUE /\ head = 0 /\ tail = 0 /\ count = 0
  /\ queueWaits = FALSE
  /\ buffer = NoBuffer
  /\ mutex = None
  /\ pc = [t \in Threads |-> IF t \in Workers THEN "off" ELSE "idle"]
  /\ arg = [t \in Threads |-> None]
  /\ callWaits = [t \in Threads |-> FALSE]
  /\ held = [w \in Workers |-> None]
  /\ ctl = "stopped"
  /\ starts = 0
  /\ fresh = Entries
  /\ taken = {}

-----------------------------------------------------------------------------
(* enqueue(index, entry, waitWhenFull) *)

\* Lines 98-99: a call on a stopped queue drops the entry and returns true.
EnqCall(t) ==
  /\ \/ t \in Producers /\ pc[t] = "idle" /\ (OverlapStart \/ ctl \notin Starting)
     \/ t \in Workers /\ pc[t] = "process" /\ held[t] # None /\ Reentrant
  /\ \E e \in fresh, wait \in CallModes :
       /\ fresh' = fresh \ {e}
       /\ \/ stop /\ UNCHANGED <<pc, arg, callWaits>>
          \/ /\ ~stop
             /\ pc' = [pc EXCEPT ![t] = "enq_lock"]
             /\ arg' = [arg EXCEPT ![t] = e]
             /\ callWaits' = [callWaits EXCEPT ![t] = wait]
  /\ UNCHANGED <<ring, control, mutex, held, taken>>

\* Lines 100-104 in the waiting mode, and every return of wait_for: take the
\* mutex, evaluate the predicate.
EnqLockWaiting(t) ==
  /\ pc[t] = "enq_lock" /\ mutex = None /\ Waits(t)
  /\ mutex' = t
  /\ pc' = [pc EXCEPT ![t] = IF MayProduce THEN "enq_check" ELSE "enq_sleep"]
  /\ UNCHANGED <<ring, calls, control, held, taken>>

\* Lines 100 and 106, not waiting, queue full: return false.
EnqFull(t) ==
  /\ pc[t] = "enq_lock" /\ mutex = None /\ ~Waits(t) /\ count >= BufferSize
  /\ pc' = [pc EXCEPT ![t] = Home(t)]
  /\ arg' = [arg EXCEPT ![t] = None]
  /\ UNCHANGED <<ring, control, mutex, callWaits, fresh, held, taken>>

\* Mutant of EnqLock: line 106 compares with > instead of >=.
EnqLockOffByOne(t) ==
  /\ pc[t] = "enq_lock" /\ mutex = None /\ ~Waits(t) /\ count <= BufferSize
  /\ mutex' = t
  /\ pc' = [pc EXCEPT ![t] = "enq_write"]
  /\ UNCHANGED <<ring, calls, control, held, taken>>

\* Lines 100 and 106, not waiting, room in the buffer.  The stop flag is not
\* looked at again.
EnqLock(t) ==
  /\ pc[t] = "enq_lock" /\ mutex = None /\ ~Waits(t) /\ count < BufferSize
  /\ mutex' = t
  /\ pc' = [pc EXCEPT ![t] = "enq_write"]
  /\ UNCHANGED <<ring, calls, control, held, taken>>

\* Line 102: wait_for releases the mutex and blocks, in one step.  The call
\* stays in the waiting branch whatever a later startQueue chooses.
EnqSleep(t) ==
  /\ pc[t] = "enq_sleep"
  /\ mutex' = None
  /\ pc' = [pc EXCEPT ![t] = "enq_blocked"]
  /\ callWaits' = [callWaits EXCEPT ![t] = TRUE]
  /\ UNCHANGED <<ring, control, arg, fresh, held, taken>>

\* Line 102: the wait ends after 1000 ms, or spuriously.
EnqTimeout(t) ==
  /\ pc[t] = "enq_blocked"
  /\ pc' = [pc EXCEPT ![t] = "enq_lock"]
  /\ UNCHANGED <<ring, calls, control, mutex, held, taken>>

\* Line 105: the queue was stopped meanwhile; drop the entry, return true.
EnqCheck(t) ==
  /\ pc[t] = "enq_check"
  /\ \/ /\ stop
        /\ mutex' = None
        /\ pc' = [pc EXCEPT ![t] = Home(t)]
        /\ arg' = [arg EXCEPT ![t] = None]
        /\ callWaits' = [callWaits EXCEPT ![t] = FALSE]
     \/ /\ ~stop
        /\ pc' = [pc EXCEPT ![t] = "enq_write"]
        /\ UNCHANGED <<mutex, arg, callWaits>>
  /\ UNCHANGED <<ring, control, fresh, held, taken>>

\* Lines 108-112: store the entry, release the mutex.
EnqWrite(t) ==
  /\ pc[t] = "enq_write"
  /\ buffer' = [buffer EXCEPT ![tail] = arg[t]]
  /\ tail' = (tail + 1) % BufferSize
  /\ count' = count + 1
  /\ mutex' = None
  /\ pc' = [pc EXCEPT ![t] = "enq_notify"]
  /\ arg' = [arg EXCEPT ![t] = None]
  /\ callWaits' = [callWaits EXCEPT ![t] = FALSE]
  /\ UNCHANGED <<head, control, fresh, held, taken>>

\* Mutant of EnqNotify: line 113 is missing.
EnqReturn(t) ==
  /\ pc[t] = "enq_notify"
  /\ pc' = [pc EXCEPT ![t] = Home(t)]
  /\ UNCHANGED <<ring, calls, control, mutex, held, taken>>

\* Lines 113-114: wake a worker, return true.
EnqNotify(t) ==
  /\ pc[t] = "enq_notify"
  /\ NotifyOne(t, Home(t), "blocked", "lock")
  /\ UNCHANGED <<ring, calls, control, mutex, held, taken>>

-----------------------------------------------------------------------------
(* process(index), the body of a worker thread *)

\* Line 119.
WorkerOuter(w) ==
  /\ pc[w] = "outer"
  /\ pc' = [pc EXCEPT ![w] = IF stop THEN "done" ELSE "lock"]
  /\ UNCHANGED <<ring, calls, control, mutex, held, taken>>

\* Mutant of WorkerLock: a wait_for that timed out is taken for a success.
WorkerLockUnchecked(w) ==
  /\ pc[w] = "lock" /\ mutex = None
  /\ mutex' = w
  /\ pc' = [pc EXCEPT ![w] = "check"]
  /\ UNCHANGED <<ring, calls, control, held, taken>>

\* Lines 121-125: take the mutex, evaluate the predicate; also every return
\* of wait_for.
WorkerLock(w) ==
  /\ pc[w] = "lock" /\ mutex = None
  /\ mutex' = w
  /\ pc' = [pc EXCEPT ![w] = IF MayProcess THEN "check" ELSE "sleep"]
  /\ UNCHANGED <<ring, calls, control, held, taken>>

\* Line 123: wait_for releases the mutex and blocks, in one step.
WorkerSleep(w) ==
  /\ pc[w] = "sleep"
  /\ mutex' = None
  /\ pc' = [pc EXCEPT ![w] = "blocked"]
  /\ UNCHANGED <<ring, calls, control, held, taken>>

\* Line 123: the wait ends after 1000 ms, or spuriously.
WorkerTimeout(w) ==
  /\ pc[w] = "blocked"
  /\ pc' = [pc EXCEPT ![w] = "lock"]
  /\ UNCHANGED <<ring, calls, control, mutex, held, taken>>

\* Line 126.
WorkerCheck(w) ==
  /\ pc[w] = "check"
  /\ \/ stop /\ mutex' = None /\ pc' = [pc EXCEPT ![w] = "done"]
     \/ ~stop /\ mutex' = mutex /\ pc' = [pc EXCEPT ![w] = "take"]
  /\ UNCHANGED <<ring, calls, control, held, taken>>

\* Mutant of WorkerTake: the shared_ptr is left in its slot (no line 132).
WorkerTakeCopy(w) ==
  /\ pc[w] = "take"
  /\ held' = [held EXCEPT ![w] = buffer[head]]
  /\ taken' = taken \cup {buffer[head]}
  /\ head' = (head + 1) % BufferSize
  /\ count' = count - 1
  /\ mutex' = None
  /\ pc' = [pc EXCEPT ![w] = "notify"]
  /\ UNCHANGED <<buffer, tail, calls, control>>

\* Mutant of WorkerTake: the same, and head does not advance.
WorkerTakeAgain(w) ==
  /\ pc[w] = "take"
  /\ held' = [held EXCEPT ![w] = buffer[head]]
  /\ taken' = taken \cup {buffer[head]}
  /\ count' = count - 1
  /\ mutex' = None
  /\ pc' = [pc EXCEPT ![w] = "notify"]
  /\ UNCHANGED <<buffer, head, tail, calls, control>>

\* Lines 129-136: move the entry out of its slot, release the mutex.
WorkerTake(w) ==
  /\ pc[w] = "take"
  /\ LET entry == IF head \in DOMAIN buffer THEN buffer[head] ELSE None IN
       /\ held' = [held EXCEPT ![w] = entry]
       /\ taken' = taken \cup ({entry} \ {None})
  /\ buffer' = [buffer EXCEPT ![head] = None]
  /\ head' = (head + 1) % BufferSize
  /\ count' = count - 1
  /\ mutex' = None
  /\ pc' = [pc EXCEPT ![w] = "notify"]
  /\ UNCHANGED <<tail, calls, control>>

\* Mutant of WorkerNotify: line 138 is missing.
WorkerProceed(w) ==
  /\ pc[w] = "notify"
  /\ pc' = [pc EXCEPT ![w] = "process"]
  /\ UNCHANGED <<ring, calls, control, mutex, held, taken>>

\* Line 138: wake a waiting enqueue call, of a producer or of a callback.
WorkerNotify(w) ==
  /\ pc[w] = "notify"
  /\ NotifyOne(w, "process", "enq_blocked", "enq_lock")
  /\ UNCHANGED <<ring, calls, control, mutex, held, taken>>

\* Line 140: processQueueEntry returns, or there was nothing to process.
WorkerProcess(w) ==
  /\ pc[w] = "process"
  /\ pc' = [pc EXCEPT ![w] = "relock"]
  /\ held' = [held EXCEPT ![w] = None]
  /\ UNCHANGED <<ring, calls, control, mutex, taken>>

\* Lines 140 and 145-150: processQueueEntry throws; the mutex is not held.
WorkerThrow(w) ==
  /\ pc[w] = "process" /\ held[w] # None
  /\ pc' = [pc EXCEPT ![w] = "outer"]
  /\ held' = [held EXCEPT ![w] = None]
  /\ UNCHANGED <<ring, calls, control, mutex, taken>>

\* Mutant of WorkerRelock: line 143 does not look at the stop flag.
WorkerDrain(w) ==
  /\ pc[w] = "relock" /\ mutex = None
  /\ \/ count > 0 /\ mutex' = w /\ pc' = [pc EXCEPT ![w] = "take"]
     \/ count = 0 /\ mutex' = None /\ pc' = [pc EXCEPT ![w] = "outer"]
  /\ UNCHANGED <<ring, calls, control, held, taken>>

\* Lines 142-143: take the mutex again; go on with the next entry, keeping
\* it, or leave the inner loop, releasing it.
WorkerRelock(w) ==
  /\ pc[w] = "relock" /\ mutex = None
  /\ \/ count > 0 /\ ~stop /\ mutex' = w /\ pc' = [pc EXCEPT ![w] = "take"]
     \/ ~(count > 0 /\ ~stop) /\ mutex' = None /\ pc' = [pc EXCEPT ![w] = "outer"]
  /\ UNCHANGED <<ring, calls, control, held, taken>>

-----------------------------------------------------------------------------
(* startQueue(index, waitWhenFull, processingThreadCount) *)

\* Lines 68-70.  The clients may be known not to call enqueue meanwhile.
StartFlag ==
  /\ ctl = "stopped" /\ starts < MaxStarts
  /\ OverlapStart \/ \A p \in Producers : pc[p] = "idle"
  /\ stop' = FALSE
  /\ ctl' = "start_reset"
  /\ starts' = starts + 1
  /\ UNCHANGED <<ring, calls, queueWaits, mutex, pc, held, taken>>

\* Mutant of StartReset: head, tail and count keep what stopQueue left.
StartKeep ==
  /\ ctl = "start_reset"
  /\ queueWaits' \in WaitModes
  /\ ctl' = "start_spawn"
  /\ UNCHANGED <<ring, calls, stop, starts, mutex, pc, held, taken>>

\* Lines 71-74.
StartReset ==
  /\ ctl = "start_reset"
  /\ head' = 0 /\ tail' = 0 /\ count' = 0
  /\ queueWaits' \in WaitModes
  /\ ctl' = "start_spawn"
  /\ UNCHANGED <<calls, stop, starts, buffer, mutex, pc, held, taken>>

\* Lines 75-78: the next thread is created.
StartSpawn(w) ==
  /\ ctl = "start_spawn" /\ pc[w] = "off"
  /\ pc' = [pc EXCEPT ![w] = "outer"]
  /\ UNCHANGED <<ring, calls, control, mutex, held, taken>>

\* Line 79: only now does the buffer get its slots.
StartResize ==
  /\ ctl = "start_spawn" /\ \A w \in Workers : pc[w] # "off"
  /\ buffer' = [i \in Slots |-> IF i \in DOMAIN buffer THEN buffer[i] ELSE None]
  /\ ctl' = "running"
  /\ UNCHANGED <<head, tail, count, calls, stop, queueWaits, starts, mutex, pc,
                 held, taken>>

(* stopQueue(index) *)

\* Lines 82-85: the flag is set without the mutex.
StopFlag ==
  /\ ctl = "running"
  /\ OverlapStop \/ \A p \in Producers : pc[p] = "enq_lock" => Waits(p)
  /\ stop' = TRUE
  /\ ctl' = "stop_lock"
  /\ UNCHANGED <<ring, calls, queueWaits, starts, mutex, pc, held, taken>>

\* Mutant of StopLock: lines 86-87 are missing.
StopUnlocked ==
  /\ ctl = "stop_lock"
  /\ ctl' = "stop_notify"
  /\ UNCHANGED <<ring, calls, stop, queueWaits, starts, mutex, pc, held, taken>>

\* Lines 86-87: lock and unlock, so that no thread is between a false
\* predicate and its sleep when the notification comes.
StopLock ==
  /\ ctl = "stop_lock" /\ mutex = None
  /\ ctl' = "stop_notify"
  /\ UNCHANGED <<ring, calls, stop, queueWaits, starts, mutex, pc, held, taken>>

\* Mutant of StopNotify: line 89 is missing.
StopNotifyWorkers ==
  /\ ctl = "stop_notify"
  /\ pc' = [t \in Threads |-> IF pc[t] = "blocked" THEN "lock" ELSE pc[t]]
  /\ ctl' = "stop_join"
  /\ UNCHANGED <<ring, calls, stop, queueWaits, starts, mutex, held, taken>>

\* Lines 88-89: both notify_all.
StopNotify ==
  /\ ctl = "stop_notify"
  /\ pc' = [t \in Threads |-> CASE pc[t] = "blocked"     -> "lock"
                                [] pc[t] = "enq_blocked" -> "enq_lock"
                                [] OTHER                 -> pc[t]]
  /\ ctl' = "stop_join"
  /\ UNCHANGED <<ring, calls, stop, queueWaits, starts, mutex, held, taken>>

\* Mutant of StopJoin: the threads are detached, not joined.
StopDetach ==
  /\ ctl = "stop_join"
  /\ ctl' = "stop_clear"
  /\ UNCHANGED <<ring, calls, stop, queueWaits, starts, mutex, pc, held, taken>>

\* Lines 90-93: join every worker thread, forget them.
StopJoin ==
  /\ ctl = "stop_join" /\ \A w \in Workers : pc[w] = "done"
  /\ pc' = [t \in Threads |-> IF t \in Workers THEN "off" ELSE pc[t]]
  /\ ctl' = "stop_clear"
  /\ UNCHANGED <<ring, calls, stop, queueWaits, starts, mutex, held, taken>>

\* Line 94: the vector is cleared without the mutex; head, tail and count
\* keep their values until the next startQueue.
StopClear ==
  /\ ctl = "stop_clear"
  /\ buffer' = NoBuffer
  /\ ctl' = "stopped"
  /\ UNCHANGED <<head, tail, count, calls, stop, queueWaits, starts, mutex, pc,
                 held, taken>>

-----------------------------------------------------------------------------

Acquire(t) == EnqLockWaiting(t) \/ EnqFull(t) \/ EnqLock(t)
EnqStep(t) == EnqSleep(t) \/ EnqCheck(t) \/ EnqWrite(t) \/ EnqNotify(t)
WorkerAcquire(w) == WorkerLock(w) \/ WorkerRelock(w)
WorkerStep(w) == \/ WorkerOuter(w) \/ WorkerSleep(w) \/ WorkerCheck(w)
                 \/ WorkerTake(w) \/ WorkerNotify(w)
                 \/ WorkerProcess(w) \/ WorkerThrow(w)
StartStep == StartReset \/ (\E w \in Workers : StartSpawn(w)) \/ StartResize
StopStep  == StopNotify \/ StopJoin \/ StopClear

Next ==
  \/ \E t \in Threads : EnqCall(t) \/ Acquire(t) \/ EnqStep(t) \/ EnqTimeout(t)
  \/ \E w \in Workers : WorkerAcquire(w) \/ WorkerStep(w) \/ WorkerTimeout(w)
  \/ StartFlag \/ StartStep \/ StopFlag \/ StopLock \/ StopStep

Spec == Init /\ [][Next]_vars

(***************************************************************************)
(* Every thread that can run does, a thread that waits for the mutex gets  *)
(* it if it is free again and again, and processQueueEntry returns or      *)
(* throws, however often it has called enqueue before.  The second is not  *)
(* promised of std::mutex; it is assumed of the platform, whose scheduler  *)
(* keeps no thread from a mutex for ever.  Whether a call that was woken   *)
(* still finds its slot free when it gets the mutex is left open, and      *)
(* nothing is assumed of the 1000 ms timeouts, of how often the clients    *)
(* call, and of when the queue is started and stopped.                     *)
(***************************************************************************)
Fairness ==
  /\ \A t \in Threads : SF_vars(Acquire(t)) /\ WF_vars(EnqStep(t))
  /\ \A w \in Workers : SF_vars(WorkerAcquire(w)) /\ WF_vars(WorkerStep(w))
  /\ \A w \in Workers : SF_vars(WorkerProcess(w) \/ WorkerThrow(w))
  /\ WF_vars(StartStep) /\ SF_vars(StopLock) /\ WF_vars(StopStep)

-----------------------------------------------------------------------------
(* Properties *)

\* Where a thread is when it owns the mutex.
EnqInside    == {"enq_check", "enq_sleep", "enq_write"}
WorkerInside == {"check", "sleep", "take"}
Inside       == EnqInside \cup WorkerInside

\* The buffer has its slots.
Sized == ctl \in {"running", "stop_lock", "stop_notify", "stop_join", "stop_clear"}

\* The slots in use, and the entries in them from the oldest to the newest.
Used   == {i \in Slots : (i + BufferSize - head) % BufferSize < count}
Window == [i \in 1 .. count |-> buffer[(head + i - 1) % BufferSize]]

TypeOK ==
  /\ stop \in BOOLEAN
  /\ head \in Slots /\ tail \in Slots /\ count \in 0 .. BufferSize
  /\ queueWaits \in BOOLEAN
  /\ buffer = NoBuffer \/ buffer \in [Slots -> Entries \cup {None}]
  /\ mutex \in Threads \cup {None}
  /\ pc \in [Threads -> EnqPC \cup WorkerPC \cup {"idle"}]
  /\ \A p \in Producers : pc[p] \in EnqPC \cup {"idle"}
  /\ \A w \in Workers : pc[w] \in EnqPC \cup WorkerPC
  /\ arg \in [Threads -> Entries \cup {None}]
  /\ callWaits \in [Threads -> BOOLEAN]
  /\ held \in [Workers -> Entries \cup {None}]
  /\ ctl \in {"stopped", "running"} \cup Starting \cup Stopping
  /\ starts \in Nat
  /\ fresh \subseteq Entries
  /\ taken \subseteq Entries

\* The entries in the ring are those between head and tail, each slot outside
\* them is null (reset() at line 132), and the three counters agree: what
\* enqueue and process, run by any number of threads, restore on each release
\* of the mutex.
RingConsistent ==
  Sized => /\ tail = (head + count) % BufferSize
           /\ \A i \in Slots : buffer[i] # None <=> i \in Used

\* operator[] is never applied beyond the vector's end: the vector is resized
\* after the workers start (line 79) and cleared without the mutex (line 94),
\* yet no thread is then between locking the mutex and its access at lines 108
\* and 131-132, and head and tail are indices of slots.
BufferAccess ==
  \A t \in Threads :
    /\ pc[t] = "enq_write" => tail \in DOMAIN buffer
    /\ pc[t] = "take" => head \in DOMAIN buffer

\* An enqueue call overwrites no entry and a worker takes one that is there:
\* the conditions checked under the mutex (lines 103, 106, 124, 143) still hold
\* at the access, whichever threads ran between.
SlotReady ==
  Sized => /\ \A t \in Threads : pc[t] = "enq_write" => buffer[tail] = None
           /\ \A w \in Workers : pc[w] = "take" => buffer[head] # None

\* No entry is processed twice, none is in the ring twice, and no call is
\* still about to store an entry that is already there.
AtMostOnce ==
  /\ Sized =>
       /\ \A i, j \in Used : buffer[i] = buffer[j] => i = j
       /\ \A i \in Used : buffer[i] \notin taken \cup fresh
       /\ \A i \in Used, t \in Threads : buffer[i] # arg[t]
  /\ \A t \in Threads : arg[t] \notin taken \cup fresh
  /\ \A v, w \in Workers : held[v] = held[w] => v = w \/ held[v] = None

\* After stopQueue's notify_all (lines 88-89) no thread sleeps on a condition
\* variable any more, nor will one: passing through the mutex after the flag is
\* set (lines 86-87) leaves no thread between a false predicate and its sleep.
StopWakesAll ==
  /\ ctl \in {"stop_notify", "stop_join", "stop_clear", "stopped"}
       => \A t \in Threads : pc[t] \notin {"sleep", "enq_sleep"}
  /\ ctl \in {"stop_join", "stop_clear", "stopped"}
       => \A t \in Threads : pc[t] \notin {"blocked", "enq_blocked"}

\* The threads on their way to a free slot: a call that will look at the ring,
\* or a worker that has made room and is about to wake a call.
TowardsRoom == {u \in Threads : pc[u] \in {"notify", "enq_lock", "enq_check", "enq_write"}}

\* The threads on their way to an entry: a worker that will look at the ring,
\* or a call that has stored an entry and is about to wake a worker.
TowardsEntry == {u \in Threads : pc[u] \in {"enq_notify", "outer", "lock", "check", "take"}}

\* No lost wake-up: while a call of enqueue sleeps, there are at least as many
\* threads on their way to a free slot as the ring has free slots, and while a
\* worker sleeps, as many on their way to an entry as the ring has entries.  So
\* nobody sleeps on although the ring has room (or an entry) for him that no
\* other thread is about to use, or to wake somebody for: one notify_one after
\* each entry stored (line 113) and after each taken (line 138) is enough.
NoLostWakeup ==
  ctl = "running" =>
    /\ (\E t \in Threads : pc[t] = "enq_blocked")
         => BufferSize - count <= Cardinality(TowardsRoom)
    /\ (\E w \in Workers : pc[w] = "blocked")
         => count <= Cardinality(TowardsEntry)

\* Once stopQueue has passed the mutex no worker takes another entry, so that
\* stopping does not wait for the rest of the queue to be processed.
NoTakeAfterStop ==
  [][taken' # taken => ctl \in {"running", "stop_lock"}]_vars

\* stopQueue returns, whatever the clients and the other threads do: also when
\* every worker sits in a callback that waits for room in its own full queue.
StopTerminates == (ctl = "stop_lock") ~> (ctl = "stopped")

\* Every worker is in a callback that waits for room in its own full queue.
CallbacksStuck ==
  /\ count = BufferSize
  /\ \A w \in Workers : pc[w] \in {"enq_lock", "enq_sleep", "enq_blocked"} /\ Waits(w)

\* A call other than t's has stored an entry.
Overtaken(t) == \E u \in Threads \ {t} : pc[u] = "enq_notify"

\* A call of enqueue returns, or the callbacks are stuck, or other calls store
\* entries for ever: notify_one alone suffices, without the timeout of line 102.
\* The last case is real: a call that line 138 has woken competes for the slot
\* with calls that never slept (line 103 is evaluated again under the mutex), and
\* nothing in the code gives it a turn.
EnqueueReturns ==
  \A t \in Threads :
    <>[]~Overtaken(t) => ((pc[t] \in EnqPC) ~> (pc[t] \notin EnqPC \/ CallbacksStuck))

\* An entry in the ring is handed to processQueueEntry unless the queue is
\* stopped or its callbacks get stuck first; again without the timeout.
Delivery ==
  \A e \in Entries : (Sized /\ \E i \in Used : buffer[i] = e)
                      ~> (e \in taken \/ stop \/ CallbacksStuck)

\* One queue is a bounded first-in first-out queue.
Phase == IF ctl \in {"running", "stop_lock"} THEN "open"
         ELSE IF ctl \in {"stop_notify", "stop_join"} THEN "closing" ELSE "closed"
Items == IF Phase = "closed" THEN <<>> ELSE Window
Fifo  == INSTANCE BoundedFifo WITH
           Capacity <- BufferSize, phase <- Phase, items <- Items
ImplementsFifo == Fifo!Spec

=============================================================================
