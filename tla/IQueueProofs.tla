---------------------------- MODULE IQueueProofs ----------------------------
(***************************************************************************)
(* Proofs about IQueue, for every set of producers, workers and entries    *)
(* and every buffer size.                                                  *)
(***************************************************************************)
EXTENDS IQueue, FiniteSetTheorems, SequenceTheorems, TLAPS

-----------------------------------------------------------------------------
(* The wake-up protocol of stopQueue needs no assumption on the clients.   *)

ThreadPC == EnqPC \cup WorkerPC \cup {"idle"}

ControlType ==
  /\ stop \in BOOLEAN
  /\ mutex \in Threads \cup {None}
  /\ pc \in [Threads -> ThreadPC]
  /\ ctl \in {"stopped", "running"} \cup Starting \cup Stopping

\* The mutex belongs to the thread that is inside a critical section.
LockInv == \A t \in Threads : pc[t] \in Inside <=> mutex = t

StopInv == stop <=> ctl \in Stopping \cup {"stopped"}

\* Who sleeps, or has decided to, while the queue is being stopped.
SleepInv ==
  stop => /\ ctl # "stop_lock"
               => \A t \in Threads : pc[t] \notin {"sleep", "enq_sleep"}
          /\ ctl \notin {"stop_lock", "stop_notify"}
               => \A t \in Threads : pc[t] \notin {"blocked", "enq_blocked"}

ControlInv == ControlType /\ LockInv /\ StopInv /\ SleepInv

LEMMA ControlInit == Init => ControlInv
BY IQueueAssumption DEF Init, ControlInv, ControlType, LockInv, StopInv, SleepInv,
   Inside, EnqInside, WorkerInside, ThreadPC, EnqPC, WorkerPC, Starting, Stopping, Threads

LEMMA ControlStep == ControlInv /\ [Next]_vars => ControlInv'
<1> SUFFICES ASSUME ControlInv, [Next]_vars PROVE ControlInv'
  OBVIOUS
<1> USE IQueueAssumption DEF ControlInv, ControlType, LockInv, StopInv, SleepInv,
    Inside, EnqInside, WorkerInside, ThreadPC, EnqPC, WorkerPC, Starting, Stopping,
    Threads, ring, calls, control, Home, MayProduce, MayProcess, NotifyOne
<1>1. ASSUME NEW t \in Threads, EnqCall(t) PROVE ControlInv'
  BY <1>1 DEF EnqCall
<1>2. ASSUME NEW t \in Threads, EnqLockWaiting(t) PROVE ControlInv'
  BY <1>2 DEF EnqLockWaiting
<1>3. ASSUME NEW t \in Threads, EnqFull(t) PROVE ControlInv'
  BY <1>3 DEF EnqFull
<1>4. ASSUME NEW t \in Threads, EnqLock(t) PROVE ControlInv'
  BY <1>4 DEF EnqLock
<1>5. ASSUME NEW t \in Threads, EnqSleep(t) PROVE ControlInv'
  BY <1>5 DEF EnqSleep
<1>6. ASSUME NEW t \in Threads, EnqTimeout(t) PROVE ControlInv'
  BY <1>6 DEF EnqTimeout
<1>7. ASSUME NEW t \in Threads, EnqCheck(t) PROVE ControlInv'
  BY <1>7 DEF EnqCheck
<1>8. ASSUME NEW t \in Threads, EnqWrite(t) PROVE ControlInv'
  BY <1>8 DEF EnqWrite
<1>9. ASSUME NEW t \in Threads, EnqNotify(t) PROVE ControlInv'
  BY <1>9 DEF EnqNotify
<1>10. ASSUME NEW w \in Workers, WorkerOuter(w) PROVE ControlInv'
  BY <1>10 DEF WorkerOuter
<1>11. ASSUME NEW w \in Workers, WorkerLock(w) PROVE ControlInv'
  BY <1>11 DEF WorkerLock
<1>12. ASSUME NEW w \in Workers, WorkerSleep(w) PROVE ControlInv'
  BY <1>12 DEF WorkerSleep
<1>13. ASSUME NEW w \in Workers, WorkerTimeout(w) PROVE ControlInv'
  BY <1>13 DEF WorkerTimeout
<1>14. ASSUME NEW w \in Workers, WorkerCheck(w) PROVE ControlInv'
  BY <1>14 DEF WorkerCheck
<1>15. ASSUME NEW w \in Workers, WorkerTake(w) PROVE ControlInv'
  BY <1>15 DEF WorkerTake
<1>16. ASSUME NEW w \in Workers, WorkerNotify(w) PROVE ControlInv'
  BY <1>16 DEF WorkerNotify
<1>17. ASSUME NEW w \in Workers, WorkerProcess(w) PROVE ControlInv'
  BY <1>17 DEF WorkerProcess
<1>18. ASSUME NEW w \in Workers, WorkerThrow(w) PROVE ControlInv'
  BY <1>18 DEF WorkerThrow
<1>19. ASSUME NEW w \in Workers, WorkerRelock(w) PROVE ControlInv'
  BY <1>19 DEF WorkerRelock
<1>20. ASSUME NEW w \in Workers, StartSpawn(w) PROVE ControlInv'
  BY <1>20 DEF StartSpawn
<1>21. ASSUME StartFlag PROVE ControlInv'
  BY <1>21 DEF StartFlag
<1>22. ASSUME StartReset PROVE ControlInv'
  BY <1>22 DEF StartReset
<1>23. ASSUME StartResize PROVE ControlInv'
  BY <1>23 DEF StartResize
<1>24. ASSUME StopFlag PROVE ControlInv'
  BY <1>24 DEF StopFlag
<1>25. ASSUME StopLock PROVE ControlInv'
  BY <1>25 DEF StopLock
<1>26. ASSUME StopNotify PROVE ControlInv'
  BY <1>26 DEF StopNotify
<1>27. ASSUME StopJoin PROVE ControlInv'
  BY <1>27 DEF StopJoin
<1>28. ASSUME StopClear PROVE ControlInv'
  BY <1>28 DEF StopClear
<1>29. CASE UNCHANGED vars
  BY <1>29 DEF vars
<1>30. QED
  BY <1>1, <1>2, <1>3, <1>4, <1>5, <1>6, <1>7, <1>8, <1>9, <1>10, <1>11,
     <1>12, <1>13, <1>14, <1>15, <1>16, <1>17, <1>18, <1>19, <1>20, <1>21,
     <1>22, <1>23, <1>24, <1>25, <1>26, <1>27, <1>28, <1>29 DEF Next,
     Acquire, EnqStep, WorkerAcquire, WorkerStep, StartStep, StopStep
\* The control invariant holds of every behaviour.
THEOREM Control == Spec => []ControlInv
<1>1. QED
  BY ControlInit, ControlStep, PTL DEF Spec

\* stopQueue leaves no thread asleep, whatever its clients do, at every number
\* of threads: the code behaviour is the order flag, mutex, notify_all.
THEOREM StopWakesEveryThread == Spec => []StopWakesAll
<1>1. ControlInv => StopWakesAll
  BY DEF ControlInv, ControlType, StopInv, SleepInv, StopWakesAll, Stopping
<1>2. QED
  BY <1>1, Control, PTL

-----------------------------------------------------------------------------
(* Arithmetic on the indices of the ring.                                  *)

LEMMA ModSmall == \A a \in 0 .. BufferSize - 1 : a % BufferSize = a
BY IQueueAssumption

LEMMA ModWrap == \A a \in BufferSize .. 2 * BufferSize - 1 : a % BufferSize = a - BufferSize
BY IQueueAssumption

\* How far slot i is from the head h, going round.
Distance(i, h) == (i + BufferSize - h) % BufferSize

LEMMA Around ==
  ASSUME NEW h \in Slots, NEW c \in 0 .. BufferSize
  PROVE  /\ (h + c) % BufferSize \in Slots
         /\ c < BufferSize => Distance((h + c) % BufferSize, h) = c
BY ModSmall, ModWrap, IQueueAssumption DEF Slots, Distance

LEMMA DistanceType ==
  ASSUME NEW h \in Slots, NEW i \in Slots
  PROVE  /\ Distance(i, h) \in Slots
         /\ Distance(i, h) = 0 <=> i = h
         /\ (h + Distance(i, h)) % BufferSize = i
BY ModSmall, ModWrap, IQueueAssumption DEF Slots, Distance

\* What storing an entry behind c others does to the indices.
LEMMA AfterPut ==
  ASSUME NEW h \in Slots, NEW c \in 0 .. BufferSize - 1,
         NEW t, t = (h + c) % BufferSize
  PROVE  /\ t \in Slots /\ (t + 1) % BufferSize \in Slots
         /\ (t + 1) % BufferSize = (h + (c + 1)) % BufferSize
         /\ \A i \in Slots : Distance(i, h) < c + 1 <=> Distance(i, h) < c \/ i = t
<1>1. t \in Slots /\ Distance(t, h) = c
  BY Around, IQueueAssumption
<1>2. /\ (t + 1) % BufferSize \in Slots
      /\ (t + 1) % BufferSize = (h + (c + 1)) % BufferSize
  BY ModSmall, ModWrap, IQueueAssumption DEF Slots
<1>3. ASSUME NEW i \in Slots PROVE Distance(i, h) < c + 1 <=> Distance(i, h) < c \/ i = t
  <2>1. Distance(i, h) \in Int /\ (h + Distance(i, h)) % BufferSize = i
    BY DistanceType, IQueueAssumption DEF Slots
  <2>2. Distance(i, h) = c <=> i = t
    BY <1>1, <2>1
  <2>3. QED
    BY <2>1, <2>2
<1>4. QED
  BY <1>1, <1>2, <1>3

\* What taking the oldest of c entries does to them.
LEMMA AfterTake ==
  ASSUME NEW h \in Slots, NEW c \in 1 .. BufferSize
  PROVE  /\ (h + 1) % BufferSize \in Slots
         /\ (((h + 1) % BufferSize) + (c - 1)) % BufferSize = (h + c) % BufferSize
         /\ \A i \in Slots :
              Distance(i, (h + 1) % BufferSize) < c - 1 <=> Distance(i, h) < c /\ i # h
BY ModSmall, ModWrap, IQueueAssumption DEF Slots, Distance

-----------------------------------------------------------------------------
(* The ring, when no enqueue call overlaps startQueue and no non-waiting   *)
(* one overlaps stopQueue.                                                 *)

Disciplined == ~OverlapStart /\ ~OverlapStop

CallType ==
  /\ queueWaits \in BOOLEAN
  /\ callWaits \in [Threads -> BOOLEAN]
  /\ arg \in [Threads -> Entries \cup {None}]
  /\ held \in [Workers -> Entries \cup {None}]
  /\ starts \in Nat
  /\ fresh \subseteq Entries /\ taken \subseteq Entries
  /\ \A p \in Producers : pc[p] \in EnqPC \cup {"idle"}
  /\ \A w \in Workers : pc[w] \in EnqPC \cup WorkerPC

\* Where the threads may be while startQueue or stopQueue is at work.
PhaseInv ==
  /\ ctl \in Starting => \A p \in Producers : pc[p] = "idle"
  /\ ctl \in {"start_reset", "stop_clear", "stopped"} => \A w \in Workers : pc[w] = "off"
  /\ ctl = "start_spawn"
       => /\ head = 0 /\ tail = 0 /\ count = 0
          /\ \A w \in Workers : pc[w] \in {"off", "outer", "lock", "sleep", "blocked"}
  /\ stop => \A p \in Producers : pc[p] = "enq_lock" => Waits(p)
  /\ ctl \in {"stop_notify", "stop_join", "stop_clear", "stopped"}
       => \A p \in Producers : pc[p] # "enq_write"
  /\ \A w \in Workers : pc[w] = "take" => ctl \in {"running", "stop_lock"}
  /\ \A t \in Threads : pc[t] = "enq_blocked" => callWaits[t]

\* What the thread that owns the mutex has found out.
FoundInv ==
  \A t \in Threads :
    /\ pc[t] = "enq_check" => count < BufferSize \/ stop
    /\ pc[t] = "enq_write" => count < BufferSize
    /\ pc[t] = "check" => count > 0 \/ stop
    /\ pc[t] = "take" => count > 0
    /\ pc[t] \in EnqPC \ {"enq_notify"} => arg[t] # None

RingType ==
  /\ head \in Slots /\ tail \in Slots /\ count \in 0 .. BufferSize
  /\ buffer \in IF Sized THEN [Slots -> Entries \cup {None}] ELSE {NoBuffer}

IInv == ControlInv /\ CallType /\ PhaseInv /\ FoundInv /\ RingType /\ RingConsistent

LEMMA RingInit == Init => IInv
<1> SUFFICES ASSUME Init PROVE IInv
  OBVIOUS
<1>1. ControlInv
  BY ControlInit
<1>2. CallType /\ PhaseInv /\ FoundInv
  BY IQueueAssumption DEF Init, CallType, PhaseInv, FoundInv, EnqPC, WorkerPC,
     Starting, Threads
<1>3. RingType /\ RingConsistent
  BY IQueueAssumption DEF Init, RingType, RingConsistent, Sized, Slots
<1>4. QED
  BY <1>1, <1>2, <1>3 DEF IInv

\* Whoever is about to access the buffer finds all its slots.
LEMMA AccessSized ==
  ASSUME IInv, NEW t \in Threads, pc[t] \in {"enq_write", "take"}
  PROVE  Sized
BY DEF IInv, ControlInv, ControlType, CallType, PhaseInv, Sized, Threads, Starting, Stopping,
   EnqPC

LEMMA CallStep ==
  ASSUME IInv, [Next]_vars
  PROVE  CallType'
<1> USE IQueueAssumption DEF IInv, ControlInv, ControlType, CallType, EnqPC, WorkerPC,
    ThreadPC, Threads, ring, calls, control, Home, MayProduce, MayProcess, NotifyOne
<1>1. ASSUME NEW t \in Threads, EnqCall(t) PROVE CallType'
  BY <1>1 DEF EnqCall
<1>2. ASSUME NEW t \in Threads, EnqLockWaiting(t) PROVE CallType'
  BY <1>2 DEF EnqLockWaiting
<1>3. ASSUME NEW t \in Threads, EnqFull(t) PROVE CallType'
  BY <1>3 DEF EnqFull
<1>4. ASSUME NEW t \in Threads, EnqLock(t) PROVE CallType'
  BY <1>4 DEF EnqLock
<1>5. ASSUME NEW t \in Threads, EnqSleep(t) PROVE CallType'
  BY <1>5 DEF EnqSleep
<1>6. ASSUME NEW t \in Threads, EnqTimeout(t) PROVE CallType'
  BY <1>6 DEF EnqTimeout
<1>7. ASSUME NEW t \in Threads, EnqCheck(t) PROVE CallType'
  <2>1. /\ pc' \in {[pc EXCEPT ![t] = Home(t)], [pc EXCEPT ![t] = "enq_write"]}
        /\ arg' \in {[arg EXCEPT ![t] = None], arg}
        /\ callWaits' \in {[callWaits EXCEPT ![t] = FALSE], callWaits}
        /\ UNCHANGED <<queueWaits, fresh, held, starts, taken>>
    BY <1>7 DEF EnqCheck
  <2>2. (\A p \in Producers : pc[p] \in EnqPC \cup {"idle"})'
    BY <2>1
  <2>3. (\A w \in Workers : pc[w] \in EnqPC \cup WorkerPC)'
    BY <2>1
  <2>4. callWaits' \in [Threads -> BOOLEAN] /\ arg' \in [Threads -> Entries \cup {None}]
    BY <2>1
  <2>5. QED
    BY <2>1, <2>2, <2>3, <2>4
<1>8. ASSUME NEW t \in Threads, EnqWrite(t) PROVE CallType'
  BY <1>8 DEF EnqWrite
<1>9. ASSUME NEW t \in Threads, EnqNotify(t) PROVE CallType'
  BY <1>9 DEF EnqNotify
<1>10. ASSUME NEW w \in Workers, WorkerOuter(w) PROVE CallType'
  BY <1>10 DEF WorkerOuter
<1>11. ASSUME NEW w \in Workers, WorkerLock(w) PROVE CallType'
  BY <1>11 DEF WorkerLock
<1>12. ASSUME NEW w \in Workers, WorkerSleep(w) PROVE CallType'
  BY <1>12 DEF WorkerSleep
<1>13. ASSUME NEW w \in Workers, WorkerTimeout(w) PROVE CallType'
  BY <1>13 DEF WorkerTimeout
<1>14. ASSUME NEW w \in Workers, WorkerCheck(w) PROVE CallType'
  BY <1>14 DEF WorkerCheck
<1>15. ASSUME NEW w \in Workers, WorkerTake(w) PROVE CallType'
  <2>1. buffer \in [Slots -> Entries \cup {None}] /\ head \in Slots
    BY <1>15, AccessSized DEF WorkerTake, RingType
  <2>2. buffer[head] \in Entries \cup {None}
    BY <2>1
  <2>3. QED
    BY <1>15, <2>1, <2>2 DEF WorkerTake
<1>16. ASSUME NEW w \in Workers, WorkerNotify(w) PROVE CallType'
  BY <1>16 DEF WorkerNotify
<1>17. ASSUME NEW w \in Workers, WorkerProcess(w) PROVE CallType'
  BY <1>17 DEF WorkerProcess
<1>18. ASSUME NEW w \in Workers, WorkerThrow(w) PROVE CallType'
  BY <1>18 DEF WorkerThrow
<1>19. ASSUME NEW w \in Workers, WorkerRelock(w) PROVE CallType'
  BY <1>19 DEF WorkerRelock
<1>20. ASSUME NEW w \in Workers, StartSpawn(w) PROVE CallType'
  BY <1>20 DEF StartSpawn
<1>21. ASSUME StartFlag PROVE CallType'
  BY <1>21 DEF StartFlag
<1>22. ASSUME StartReset PROVE CallType'
  BY <1>22 DEF StartReset
<1>23. ASSUME StartResize PROVE CallType'
  BY <1>23 DEF StartResize
<1>24. ASSUME StopFlag PROVE CallType'
  BY <1>24 DEF StopFlag
<1>25. ASSUME StopLock PROVE CallType'
  BY <1>25 DEF StopLock
<1>26. ASSUME StopNotify PROVE CallType'
  BY <1>26 DEF StopNotify
<1>27. ASSUME StopJoin PROVE CallType'
  BY <1>27 DEF StopJoin
<1>28. ASSUME StopClear PROVE CallType'
  BY <1>28 DEF StopClear
<1>29. CASE UNCHANGED vars
  BY <1>29 DEF vars
<1>30. QED
  BY <1>1, <1>2, <1>3, <1>4, <1>5, <1>6, <1>7, <1>8, <1>9, <1>10, <1>11,
     <1>12, <1>13, <1>14, <1>15, <1>16, <1>17, <1>18, <1>19, <1>20, <1>21,
     <1>22, <1>23, <1>24, <1>25, <1>26, <1>27, <1>28, <1>29 DEF Next,
     Acquire, EnqStep, WorkerAcquire, WorkerStep, StartStep, StopStep
LEMMA PhaseStep ==
  ASSUME Disciplined, IInv, [Next]_vars
  PROVE  PhaseInv'
<1> USE IQueueAssumption DEF Disciplined, IInv, ControlInv, ControlType, LockInv,
    StopInv, CallType, PhaseInv, Waits, EnqPC, WorkerPC, Inside, EnqInside, WorkerInside,
    Starting, Stopping, Threads, ring, calls, control, Home, MayProduce, MayProcess,
    NotifyOne
<1>1. ASSUME NEW t \in Threads, EnqCall(t) PROVE PhaseInv'
  BY <1>1 DEF EnqCall
<1>2. ASSUME NEW t \in Threads, EnqLockWaiting(t) PROVE PhaseInv'
  BY <1>2 DEF EnqLockWaiting
<1>3. ASSUME NEW t \in Threads, EnqFull(t) PROVE PhaseInv'
  BY <1>3 DEF EnqFull
<1>4. ASSUME NEW t \in Threads, EnqLock(t) PROVE PhaseInv'
  BY <1>4 DEF EnqLock
<1>5. ASSUME NEW t \in Threads, EnqSleep(t) PROVE PhaseInv'
  BY <1>5 DEF EnqSleep
<1>6. ASSUME NEW t \in Threads, EnqTimeout(t) PROVE PhaseInv'
  BY <1>6 DEF EnqTimeout
<1>7. ASSUME NEW t \in Threads, EnqCheck(t) PROVE PhaseInv'
  BY <1>7 DEF EnqCheck
<1>8. ASSUME NEW t \in Threads, EnqWrite(t) PROVE PhaseInv'
  BY <1>8 DEF EnqWrite
<1>9. ASSUME NEW t \in Threads, EnqNotify(t) PROVE PhaseInv'
  BY <1>9 DEF EnqNotify
<1>10. ASSUME NEW w \in Workers, WorkerOuter(w) PROVE PhaseInv'
  BY <1>10 DEF WorkerOuter
<1>11. ASSUME NEW w \in Workers, WorkerLock(w) PROVE PhaseInv'
  BY <1>11 DEF WorkerLock
<1>12. ASSUME NEW w \in Workers, WorkerSleep(w) PROVE PhaseInv'
  BY <1>12 DEF WorkerSleep
<1>13. ASSUME NEW w \in Workers, WorkerTimeout(w) PROVE PhaseInv'
  BY <1>13 DEF WorkerTimeout
<1>14. ASSUME NEW w \in Workers, WorkerCheck(w) PROVE PhaseInv'
  BY <1>14 DEF WorkerCheck
<1>15. ASSUME NEW w \in Workers, WorkerTake(w) PROVE PhaseInv'
  BY <1>15 DEF WorkerTake
<1>16. ASSUME NEW w \in Workers, WorkerNotify(w) PROVE PhaseInv'
  BY <1>16 DEF WorkerNotify
<1>17. ASSUME NEW w \in Workers, WorkerProcess(w) PROVE PhaseInv'
  BY <1>17 DEF WorkerProcess
<1>18. ASSUME NEW w \in Workers, WorkerThrow(w) PROVE PhaseInv'
  BY <1>18 DEF WorkerThrow
<1>19. ASSUME NEW w \in Workers, WorkerRelock(w) PROVE PhaseInv'
  BY <1>19 DEF WorkerRelock
<1>20. ASSUME NEW w \in Workers, StartSpawn(w) PROVE PhaseInv'
  BY <1>20 DEF StartSpawn
<1>21. ASSUME StartFlag PROVE PhaseInv'
  BY <1>21 DEF StartFlag
<1>22. ASSUME StartReset PROVE PhaseInv'
  BY <1>22 DEF StartReset
<1>23. ASSUME StartResize PROVE PhaseInv'
  BY <1>23 DEF StartResize
<1>24. ASSUME StopFlag PROVE PhaseInv'
  BY <1>24 DEF StopFlag
<1>25. ASSUME StopLock PROVE PhaseInv'
  BY <1>25 DEF StopLock
<1>26. ASSUME StopNotify PROVE PhaseInv'
  BY <1>26 DEF StopNotify
<1>27. ASSUME StopJoin PROVE PhaseInv'
  BY <1>27 DEF StopJoin
<1>28. ASSUME StopClear PROVE PhaseInv'
  BY <1>28 DEF StopClear
<1>29. CASE UNCHANGED vars
  BY <1>29 DEF vars
<1>30. QED
  BY <1>1, <1>2, <1>3, <1>4, <1>5, <1>6, <1>7, <1>8, <1>9, <1>10, <1>11,
     <1>12, <1>13, <1>14, <1>15, <1>16, <1>17, <1>18, <1>19, <1>20, <1>21,
     <1>22, <1>23, <1>24, <1>25, <1>26, <1>27, <1>28, <1>29 DEF Next,
     Acquire, EnqStep, WorkerAcquire, WorkerStep, StartStep, StopStep
LEMMA FoundStep ==
  ASSUME Disciplined, IInv, [Next]_vars
  PROVE  FoundInv'
<1> USE IQueueAssumption DEF Disciplined, IInv, ControlInv, ControlType, LockInv,
    StopInv, CallType, PhaseInv, FoundInv, RingType, EnqPC, WorkerPC, Inside, EnqInside,
    WorkerInside, Starting, Stopping, Threads, ring, calls, control, Home, MayProduce,
    MayProcess, NotifyOne
<1>1. ASSUME NEW t \in Threads, EnqCall(t) PROVE FoundInv'
  BY <1>1 DEF EnqCall
<1>2. ASSUME NEW t \in Threads, EnqLockWaiting(t) PROVE FoundInv'
  BY <1>2 DEF EnqLockWaiting
<1>3. ASSUME NEW t \in Threads, EnqFull(t) PROVE FoundInv'
  BY <1>3 DEF EnqFull
<1>4. ASSUME NEW t \in Threads, EnqLock(t) PROVE FoundInv'
  BY <1>4 DEF EnqLock
<1>5. ASSUME NEW t \in Threads, EnqSleep(t) PROVE FoundInv'
  BY <1>5 DEF EnqSleep
<1>6. ASSUME NEW t \in Threads, EnqTimeout(t) PROVE FoundInv'
  BY <1>6 DEF EnqTimeout
<1>7. ASSUME NEW t \in Threads, EnqCheck(t) PROVE FoundInv'
  BY <1>7 DEF EnqCheck
<1>8. ASSUME NEW t \in Threads, EnqWrite(t) PROVE FoundInv'
  BY <1>8 DEF EnqWrite
<1>9. ASSUME NEW t \in Threads, EnqNotify(t) PROVE FoundInv'
  BY <1>9 DEF EnqNotify
<1>10. ASSUME NEW w \in Workers, WorkerOuter(w) PROVE FoundInv'
  BY <1>10 DEF WorkerOuter
<1>11. ASSUME NEW w \in Workers, WorkerLock(w) PROVE FoundInv'
  BY <1>11 DEF WorkerLock
<1>12. ASSUME NEW w \in Workers, WorkerSleep(w) PROVE FoundInv'
  BY <1>12 DEF WorkerSleep
<1>13. ASSUME NEW w \in Workers, WorkerTimeout(w) PROVE FoundInv'
  BY <1>13 DEF WorkerTimeout
<1>14. ASSUME NEW w \in Workers, WorkerCheck(w) PROVE FoundInv'
  BY <1>14 DEF WorkerCheck
<1>15. ASSUME NEW w \in Workers, WorkerTake(w) PROVE FoundInv'
  BY <1>15 DEF WorkerTake
<1>16. ASSUME NEW w \in Workers, WorkerNotify(w) PROVE FoundInv'
  BY <1>16 DEF WorkerNotify
<1>17. ASSUME NEW w \in Workers, WorkerProcess(w) PROVE FoundInv'
  BY <1>17 DEF WorkerProcess
<1>18. ASSUME NEW w \in Workers, WorkerThrow(w) PROVE FoundInv'
  BY <1>18 DEF WorkerThrow
<1>19. ASSUME NEW w \in Workers, WorkerRelock(w) PROVE FoundInv'
  BY <1>19 DEF WorkerRelock
<1>20. ASSUME NEW w \in Workers, StartSpawn(w) PROVE FoundInv'
  BY <1>20 DEF StartSpawn
<1>21. ASSUME StartFlag PROVE FoundInv'
  BY <1>21 DEF StartFlag
<1>22. ASSUME StartReset PROVE FoundInv'
  BY <1>22 DEF StartReset
<1>23. ASSUME StartResize PROVE FoundInv'
  BY <1>23 DEF StartResize
<1>24. ASSUME StopFlag PROVE FoundInv'
  BY <1>24 DEF StopFlag
<1>25. ASSUME StopLock PROVE FoundInv'
  BY <1>25 DEF StopLock
<1>26. ASSUME StopNotify PROVE FoundInv'
  BY <1>26 DEF StopNotify
<1>27. ASSUME StopJoin PROVE FoundInv'
  BY <1>27 DEF StopJoin
<1>28. ASSUME StopClear PROVE FoundInv'
  BY <1>28 DEF StopClear
<1>29. CASE UNCHANGED vars
  BY <1>29 DEF vars
<1>30. QED
  BY <1>1, <1>2, <1>3, <1>4, <1>5, <1>6, <1>7, <1>8, <1>9, <1>10, <1>11,
     <1>12, <1>13, <1>14, <1>15, <1>16, <1>17, <1>18, <1>19, <1>20, <1>21,
     <1>22, <1>23, <1>24, <1>25, <1>26, <1>27, <1>28, <1>29 DEF Next,
     Acquire, EnqStep, WorkerAcquire, WorkerStep, StartStep, StopStep
\* What storing an entry (lines 108-112) does to the ring.
LEMMA PutEffect ==
  ASSUME IInv, NEW t \in Threads, EnqWrite(t)
  PROVE  /\ Sized /\ Sized' /\ count \in 0 .. BufferSize - 1 /\ arg[t] \in Entries
         /\ tail \in Slots \ Used /\ Used' = Used \cup {tail}
         /\ buffer' = [buffer EXCEPT ![tail] = arg[t]]
         /\ (RingType /\ RingConsistent)'
<1> USE IQueueAssumption DEF IInv, RingType, RingConsistent
<1>1. /\ Sized /\ Sized' /\ count \in 0 .. BufferSize - 1 /\ arg[t] \in Entries
      /\ pc[t] \in EnqPC
  BY AccessSized DEF EnqWrite, FoundInv, CallType, EnqPC, Sized, control
<1>2. /\ tail = (head + count) % BufferSize
      /\ tail' = (tail + 1) % BufferSize /\ count' = count + 1 /\ head' = head
      /\ buffer' = [buffer EXCEPT ![tail] = arg[t]]
  BY <1>1 DEF EnqWrite
<1>3. /\ tail \in Slots /\ tail' \in Slots /\ tail' = (head + (count + 1)) % BufferSize
      /\ \A i \in Slots :
           Distance(i, head) < count + 1 <=> Distance(i, head) < count \/ i = tail
  <2>1. head \in Slots /\ count \in 0 .. BufferSize - 1 /\ tail = (head + count) % BufferSize
    BY <1>1, <1>2
  <2>2. /\ tail \in Slots /\ (tail + 1) % BufferSize \in Slots
        /\ (tail + 1) % BufferSize = (head + (count + 1)) % BufferSize
        /\ \A i \in Slots :
             Distance(i, head) < count + 1 <=> Distance(i, head) < count \/ i = tail
    <3> DEFINE h == head
               c == count
               t2 == tail
    <3>1. h \in Slots /\ c \in 0 .. BufferSize - 1 /\ t2 = (h + c) % BufferSize
      BY <2>1
    <3> HIDE DEF h, c, t2
    <3>2. /\ t2 \in Slots /\ (t2 + 1) % BufferSize \in Slots
          /\ (t2 + 1) % BufferSize = (h + (c + 1)) % BufferSize
          /\ \A i \in Slots : Distance(i, h) < c + 1 <=> Distance(i, h) < c \/ i = t2
      BY <3>1, AfterPut
    <3> QED  BY <3>2 DEF h, c, t2
  <2> QED  BY <1>2, <2>2
<1>4. tail \notin Used
  <2>1. head \in Slots /\ count \in 0 .. BufferSize /\ count < BufferSize
    BY <1>1
  <2>2. Distance((head + count) % BufferSize, head) = count
    BY <2>1, Around
  <2>3. (tail + BufferSize - head) % BufferSize = count
    BY <1>2, <2>2 DEF Distance
  <2>4. ~(count < count)
    BY <2>1
  <2> QED  BY <2>3, <2>4 DEF Used
<1>5. Used' = Used \cup {tail}
  BY <1>2, <1>3 DEF Used, Distance
<1>6. RingType' /\ tail' = (head' + count') % BufferSize
  BY <1>1, <1>2, <1>3
<1>7. ASSUME NEW i \in Slots PROVE (buffer[i] # None <=> i \in Used)'
  BY <1>1, <1>2, <1>3, <1>5
<1>8. QED
  BY <1>1, <1>2, <1>3, <1>4, <1>5, <1>6, <1>7

\* What taking the oldest entry (lines 129-136) does to the ring.
LEMMA TakeEffect ==
  ASSUME IInv, NEW w \in Workers, WorkerTake(w)
  PROVE  /\ Sized /\ Sized' /\ count \in 1 .. BufferSize
         /\ head \in Used /\ buffer[head] \in Entries /\ Used' = Used \ {head}
         /\ buffer' = [buffer EXCEPT ![head] = None]
         /\ held' = [held EXCEPT ![w] = buffer[head]]
         /\ taken' = taken \cup {buffer[head]}
         /\ (RingType /\ RingConsistent)'
<1> USE IQueueAssumption DEF IInv, RingType, RingConsistent
<1>1. Sized /\ Sized' /\ count \in 1 .. BufferSize
  BY AccessSized DEF WorkerTake, FoundInv, Threads, Sized, control
<1>2. /\ tail' = (head + count) % BufferSize /\ tail' = tail
      /\ head' = (head + 1) % BufferSize /\ count' = count - 1
      /\ buffer' = [buffer EXCEPT ![head] = None]
  BY <1>1 DEF WorkerTake
<1>3. /\ head' \in Slots /\ tail' = (head' + count') % BufferSize
      /\ \A i \in Slots : Distance(i, head') < count' <=> Distance(i, head) < count /\ i # head
  BY <1>1, <1>2, AfterTake
<1>4. head \in Used
  BY <1>1, DistanceType DEF Used, Distance
<1>5. Used' = Used \ {head}
  BY <1>2, <1>3 DEF Used, Distance
<1>6. buffer[head] \in Entries
  BY <1>1, <1>4
<1>7. held' = [held EXCEPT ![w] = buffer[head]] /\ taken' = taken \cup {buffer[head]}
  BY <1>1, <1>6 DEF WorkerTake
<1>8. RingType' /\ tail' = (head' + count') % BufferSize
  BY <1>1, <1>2, <1>3
<1>9. ASSUME NEW i \in Slots PROVE (buffer[i] # None <=> i \in Used)'
  BY <1>1, <1>2, <1>5
<1>10. QED
  BY <1>1, <1>2, <1>4, <1>5, <1>6, <1>7, <1>8, <1>9

LEMMA RingStep ==
  ASSUME IInv, [Next]_vars
  PROVE  (RingType /\ RingConsistent)'
<1> DEFINE RingInv == RingType /\ RingConsistent
<1> SUFFICES RingInv'
  OBVIOUS
<1> USE IQueueAssumption DEF IInv, RingType, RingConsistent, Used, Sized, ring, calls, control
<1>1. ASSUME NEW t \in Threads, EnqCall(t) PROVE RingInv'
  BY <1>1 DEF EnqCall
<1>2. ASSUME NEW t \in Threads, EnqLockWaiting(t) PROVE RingInv'
  BY <1>2 DEF EnqLockWaiting
<1>3. ASSUME NEW t \in Threads, EnqFull(t) PROVE RingInv'
  BY <1>3 DEF EnqFull
<1>4. ASSUME NEW t \in Threads, EnqLock(t) PROVE RingInv'
  BY <1>4 DEF EnqLock
<1>5. ASSUME NEW t \in Threads, EnqSleep(t) PROVE RingInv'
  BY <1>5 DEF EnqSleep
<1>6. ASSUME NEW t \in Threads, EnqTimeout(t) PROVE RingInv'
  BY <1>6 DEF EnqTimeout
<1>7. ASSUME NEW t \in Threads, EnqCheck(t) PROVE RingInv'
  BY <1>7 DEF EnqCheck
<1>8. ASSUME NEW t \in Threads, EnqWrite(t) PROVE RingInv'
  BY <1>8, PutEffect
<1>9. ASSUME NEW t \in Threads, EnqNotify(t) PROVE RingInv'
  BY <1>9 DEF EnqNotify
<1>10. ASSUME NEW w \in Workers, WorkerOuter(w) PROVE RingInv'
  BY <1>10 DEF WorkerOuter
<1>11. ASSUME NEW w \in Workers, WorkerLock(w) PROVE RingInv'
  BY <1>11 DEF WorkerLock
<1>12. ASSUME NEW w \in Workers, WorkerSleep(w) PROVE RingInv'
  BY <1>12 DEF WorkerSleep
<1>13. ASSUME NEW w \in Workers, WorkerTimeout(w) PROVE RingInv'
  BY <1>13 DEF WorkerTimeout
<1>14. ASSUME NEW w \in Workers, WorkerCheck(w) PROVE RingInv'
  BY <1>14 DEF WorkerCheck
<1>15. ASSUME NEW w \in Workers, WorkerTake(w) PROVE RingInv'
  BY <1>15, TakeEffect
<1>16. ASSUME NEW w \in Workers, WorkerNotify(w) PROVE RingInv'
  BY <1>16 DEF WorkerNotify
<1>17. ASSUME NEW w \in Workers, WorkerProcess(w) PROVE RingInv'
  BY <1>17 DEF WorkerProcess
<1>18. ASSUME NEW w \in Workers, WorkerThrow(w) PROVE RingInv'
  BY <1>18 DEF WorkerThrow
<1>19. ASSUME NEW w \in Workers, WorkerRelock(w) PROVE RingInv'
  BY <1>19 DEF WorkerRelock
<1>20. ASSUME NEW w \in Workers, StartSpawn(w) PROVE RingInv'
  BY <1>20 DEF StartSpawn
<1>21. ASSUME StartFlag PROVE RingInv'
  BY <1>21 DEF StartFlag
<1>22. ASSUME StartReset PROVE RingInv'
  BY <1>22 DEF StartReset, Slots
<1>23. ASSUME StartResize PROVE RingInv'
  <2>1. head = 0 /\ tail = 0 /\ count = 0 /\ buffer = NoBuffer
    BY <1>23 DEF StartResize, PhaseInv
  <2>2. /\ head' = 0 /\ tail' = 0 /\ count' = 0 /\ Sized'
        /\ buffer' = [i \in Slots |-> None]
    BY <1>23, <2>1 DEF StartResize, NoBuffer
  <2>3. QED
    BY <2>2, DistanceType DEF Distance, Slots
<1>24. ASSUME StopFlag PROVE RingInv'
  BY <1>24 DEF StopFlag
<1>25. ASSUME StopLock PROVE RingInv'
  BY <1>25 DEF StopLock
<1>26. ASSUME StopNotify PROVE RingInv'
  BY <1>26 DEF StopNotify
<1>27. ASSUME StopJoin PROVE RingInv'
  BY <1>27 DEF StopJoin
<1>28. ASSUME StopClear PROVE RingInv'
  BY <1>28 DEF StopClear
<1>29. CASE UNCHANGED vars
  BY <1>29 DEF vars
<1>30. QED
  BY <1>1, <1>2, <1>3, <1>4, <1>5, <1>6, <1>7, <1>8, <1>9, <1>10, <1>11,
     <1>12, <1>13, <1>14, <1>15, <1>16, <1>17, <1>18, <1>19, <1>20, <1>21,
     <1>22, <1>23, <1>24, <1>25, <1>26, <1>27, <1>28, <1>29 DEF Next,
     Acquire, EnqStep, WorkerAcquire, WorkerStep, StartStep, StopStep
LEMMA Inductive ==
  ASSUME Disciplined, IInv, [Next]_vars
  PROVE  IInv'
BY ControlStep, CallStep, PhaseStep, FoundStep, RingStep DEF IInv

\* Lines 99-114 and 119-143: the invariant from which the safety of the ring
\* follows, of every behaviour in which the clients keep the discipline.
THEOREM Invariance == ASSUME Disciplined PROVE Spec => []IInv
<1>1. IInv /\ [Next]_vars => IInv'
  BY Inductive
<1>2. QED
  BY <1>1, RingInit, PTL DEF Spec

\* Every variable keeps its type; in particular 0 <= count <= BufferSize.
THEOREM TypeCorrect == ASSUME Disciplined PROVE Spec => []TypeOK
<1>1. IInv => TypeOK
  BY DEF IInv, ControlInv, ControlType, CallType, RingType, TypeOK, ThreadPC
<1>2. QED
  BY <1>1, Invariance, PTL

\* head, tail, count and the slots in use agree at every step of every number
\* of threads.
THEOREM RingIsConsistent == ASSUME Disciplined PROVE Spec => []RingConsistent
<1>1. IInv => RingConsistent
  BY DEF IInv
<1>2. QED
  BY <1>1, Invariance, PTL

\* No access beyond the end of the vector, although it is resized and cleared
\* without the mutex (lines 79 and 94).
THEOREM BufferAccessIsSafe == ASSUME Disciplined PROVE Spec => []BufferAccess
<1>1. IInv => BufferAccess
  BY AccessSized DEF IInv, RingType, BufferAccess
<1>2. QED
  BY <1>1, Invariance, PTL

\* No entry is overwritten, and no worker takes one that is not there.
THEOREM SlotIsReady == ASSUME Disciplined PROVE Spec => []SlotReady
<1>1. ASSUME IInv PROVE SlotReady
  <2>1. ASSUME NEW t \in Threads, pc[t] = "enq_write" PROVE buffer[tail] = None
    <3>1. Sized /\ count < BufferSize
      BY <1>1, <2>1, AccessSized DEF IInv, FoundInv
    <3>2. tail \notin Used
      BY <1>1, <3>1, Around DEF IInv, RingType, RingConsistent, Used, Distance
    <3>3. QED
      BY <1>1, <3>1, <3>2 DEF IInv, RingType, RingConsistent
  <2>2. ASSUME NEW w \in Workers, pc[w] = "take" PROVE buffer[head] # None
    <3>1. Sized /\ count > 0
      BY <1>1, <2>2, AccessSized DEF IInv, FoundInv, Threads
    <3>2. head \in Used
      BY <1>1, <3>1, DistanceType DEF IInv, RingType, Used, Distance
    <3>3. QED
      BY <1>1, <3>1, <3>2 DEF IInv, RingType, RingConsistent
  <2>3. QED
    BY <2>1, <2>2 DEF SlotReady
<1>2. QED
  BY <1>1, Invariance, PTL

\* stopQueue does not wait for the queue to be drained: once it has passed the
\* mutex (line 86) no worker gets past line 126 or 143 to take an entry.
THEOREM NothingTakenAfterStop == ASSUME Disciplined PROVE Spec => NoTakeAfterStop
<1> DEFINE Step == taken' # taken => ctl \in {"running", "stop_lock"}
<1>1. ASSUME IInv, [Next]_vars PROVE Step
  <2>1. ASSUME NEW w \in Workers, WorkerTake(w) PROVE Step
    BY <1>1, <2>1 DEF WorkerTake, IInv, PhaseInv
  <2>2. CASE ~\E w \in Workers : WorkerTake(w)
    <3>1. UNCHANGED taken
      BY <1>1, <2>2 DEF vars, Next, Acquire, EnqStep, WorkerAcquire, WorkerStep, StartStep,
         StopStep, EnqCall, EnqLockWaiting, EnqFull, EnqLock, EnqSleep, EnqTimeout, EnqCheck,
         EnqWrite, EnqNotify, WorkerOuter, WorkerLock, WorkerSleep, WorkerTimeout,
         WorkerCheck, WorkerNotify, WorkerProcess, WorkerThrow, WorkerRelock, StartSpawn,
         StartFlag, StartReset, StartResize, StopFlag, StopLock, StopNotify, StopJoin, StopClear
    <3>2. QED
      BY <3>1
  <2>3. QED
    BY <2>1, <2>2
<1>2. QED
  BY <1>1, Invariance, PTL DEF Spec, NoTakeAfterStop

-----------------------------------------------------------------------------
(* No entry is processed twice.                                            *)

\* The entries in the ring, of the calls in flight, those taken and those to
\* come are all different.
RingOnce ==
  /\ Sized =>
       /\ \A i, j \in Used : buffer[i] = buffer[j] => i = j
       /\ \A i \in Used : buffer[i] \notin taken \cup fresh
       /\ \A i \in Used, t \in Threads : buffer[i] # arg[t]
  /\ \A t \in Threads : arg[t] \notin taken \cup fresh
  /\ \A t, u \in Threads : arg[t] = arg[u] => t = u \/ arg[t] = None
  /\ fresh \cap taken = {}

\* The workers hold entries that were taken, and different ones.
HeldOnce ==
  /\ \A w \in Workers : held[w] \in taken \cup {None}
  /\ \A v, w \in Workers : held[v] = held[w] => v = w \/ held[v] = None

Once == RingOnce /\ HeldOnce

LEMMA OnceInit == Init => Once
BY IQueueAssumption DEF Init, Once, RingOnce, HeldOnce, Sized

LEMMA RingOnceStep ==
  ASSUME IInv, RingOnce, [Next]_vars
  PROVE  RingOnce'
<1> USE IQueueAssumption DEF IInv, CallType, RingOnce, Sized, Used, ring, calls, control
<1>1. ASSUME NEW t \in Threads, EnqCall(t) PROVE RingOnce'
  BY <1>1 DEF EnqCall
<1>2. ASSUME NEW t \in Threads, EnqLockWaiting(t) PROVE RingOnce'
  BY <1>2 DEF EnqLockWaiting
<1>3. ASSUME NEW t \in Threads, EnqFull(t) PROVE RingOnce'
  BY <1>3 DEF EnqFull, RingConsistent
<1>4. ASSUME NEW t \in Threads, EnqLock(t) PROVE RingOnce'
  BY <1>4 DEF EnqLock
<1>5. ASSUME NEW t \in Threads, EnqSleep(t) PROVE RingOnce'
  BY <1>5 DEF EnqSleep
<1>6. ASSUME NEW t \in Threads, EnqTimeout(t) PROVE RingOnce'
  BY <1>6 DEF EnqTimeout
<1>7. ASSUME NEW t \in Threads, EnqCheck(t) PROVE RingOnce'
  <2>1. /\ arg' \in {[arg EXCEPT ![t] = None], arg}
        /\ UNCHANGED <<buffer, head, count, ctl, fresh, taken>>
    BY <1>7 DEF EnqCheck
  <2>2. QED
    BY <2>1 DEF RingConsistent
<1>8. ASSUME NEW t \in Threads, EnqWrite(t) PROVE RingOnce'
  <2> DEFINE e == arg[t]
  <2>1. /\ Sized /\ e \in Entries /\ tail \in Slots \ Used /\ Used' = Used \cup {tail}
        /\ Used \subseteq Slots /\ buffer \in [Slots -> Entries \cup {None}]
        /\ buffer' = [buffer EXCEPT ![tail] = e]
    BY <1>8, PutEffect DEF RingType
  <2>2. arg' = [arg EXCEPT ![t] = None] /\ UNCHANGED <<fresh, taken>>
    BY <1>8 DEF EnqWrite
  <2>3. \A i \in Used' : buffer'[i] = IF i = tail THEN e ELSE buffer[i]
    BY <2>1
  <2>4. \A i \in Used : buffer[i] # e
    BY <2>1
  <2>5. \A i, j \in Used' : buffer'[i] = buffer'[j] => i = j
    BY <2>1, <2>3, <2>4
  <2>6. \A i \in Used' : buffer'[i] \notin taken' \cup fresh'
    BY <2>1, <2>2, <2>3
  <2>7. \A u \in Threads : arg'[u] = IF u = t THEN None ELSE arg[u]
    BY <2>2
  <2>8. \A i \in Used, u \in Threads : buffer[i] # arg'[u]
    BY <2>1, <2>7 DEF RingConsistent
  <2>9. \A u \in Threads : e # arg'[u]
    BY <2>1, <2>7
  <2>10. \A i \in Used', u \in Threads : buffer'[i] # arg'[u]
    BY <2>1, <2>3, <2>8, <2>9
  <2>11. QED
    BY <2>2, <2>5, <2>6, <2>7, <2>10
<1>9. ASSUME NEW t \in Threads, EnqNotify(t) PROVE RingOnce'
  BY <1>9 DEF EnqNotify
<1>10. ASSUME NEW w \in Workers, WorkerOuter(w) PROVE RingOnce'
  BY <1>10 DEF WorkerOuter
<1>11. ASSUME NEW w \in Workers, WorkerLock(w) PROVE RingOnce'
  BY <1>11 DEF WorkerLock
<1>12. ASSUME NEW w \in Workers, WorkerSleep(w) PROVE RingOnce'
  BY <1>12 DEF WorkerSleep
<1>13. ASSUME NEW w \in Workers, WorkerTimeout(w) PROVE RingOnce'
  BY <1>13 DEF WorkerTimeout
<1>14. ASSUME NEW w \in Workers, WorkerCheck(w) PROVE RingOnce'
  BY <1>14 DEF WorkerCheck
<1>15. ASSUME NEW w \in Workers, WorkerTake(w) PROVE RingOnce'
  <2> DEFINE e == buffer[head]
  <2>1. /\ Sized /\ head \in Used /\ e \in Entries /\ Used' = Used \ {head}
        /\ Used \subseteq Slots /\ buffer \in [Slots -> Entries \cup {None}]
        /\ buffer' = [buffer EXCEPT ![head] = None] /\ taken' = taken \cup {e}
    BY <1>15, TakeEffect DEF RingType
  <2>2. UNCHANGED <<arg, fresh>>
    BY <1>15 DEF WorkerTake
  <2>3. \A i \in Used' : i \in Used /\ buffer'[i] = buffer[i] /\ buffer[i] # e
    BY <2>1
  <2>4. e \notin fresh /\ \A u \in Threads : arg[u] # e
    BY <2>1
  <2>5. QED
    BY <2>1, <2>2, <2>3, <2>4
<1>16. ASSUME NEW w \in Workers, WorkerNotify(w) PROVE RingOnce'
  BY <1>16 DEF WorkerNotify
<1>17. ASSUME NEW w \in Workers, WorkerProcess(w) PROVE RingOnce'
  BY <1>17 DEF WorkerProcess
<1>18. ASSUME NEW w \in Workers, WorkerThrow(w) PROVE RingOnce'
  BY <1>18 DEF WorkerThrow
<1>19. ASSUME NEW w \in Workers, WorkerRelock(w) PROVE RingOnce'
  BY <1>19 DEF WorkerRelock
<1>20. ASSUME NEW w \in Workers, StartSpawn(w) PROVE RingOnce'
  BY <1>20 DEF StartSpawn
<1>21. ASSUME StartFlag PROVE RingOnce'
  BY <1>21 DEF StartFlag
<1>22. ASSUME StartReset PROVE RingOnce'
  BY <1>22 DEF StartReset
<1>23. ASSUME StartResize PROVE RingOnce'
  BY <1>23, DistanceType DEF StartResize, PhaseInv, Distance, Slots
<1>24. ASSUME StopFlag PROVE RingOnce'
  BY <1>24 DEF StopFlag
<1>25. ASSUME StopLock PROVE RingOnce'
  BY <1>25 DEF StopLock
<1>26. ASSUME StopNotify PROVE RingOnce'
  BY <1>26 DEF StopNotify
<1>27. ASSUME StopJoin PROVE RingOnce'
  BY <1>27 DEF StopJoin
<1>28. ASSUME StopClear PROVE RingOnce'
  BY <1>28 DEF StopClear
<1>29. CASE UNCHANGED vars
  BY <1>29 DEF vars
<1>30. QED
  BY <1>1, <1>2, <1>3, <1>4, <1>5, <1>6, <1>7, <1>8, <1>9, <1>10, <1>11,
     <1>12, <1>13, <1>14, <1>15, <1>16, <1>17, <1>18, <1>19, <1>20, <1>21,
     <1>22, <1>23, <1>24, <1>25, <1>26, <1>27, <1>28, <1>29 DEF Next,
     Acquire, EnqStep, WorkerAcquire, WorkerStep, StartStep, StopStep
LEMMA HeldOnceStep ==
  ASSUME IInv, Once, [Next]_vars
  PROVE  HeldOnce'
<1> USE IQueueAssumption DEF IInv, CallType, Once, HeldOnce, ring, calls, control
<1>1. ASSUME NEW t \in Threads, EnqCall(t) PROVE HeldOnce'
  BY <1>1 DEF EnqCall
<1>2. ASSUME NEW t \in Threads, EnqLockWaiting(t) PROVE HeldOnce'
  BY <1>2 DEF EnqLockWaiting
<1>3. ASSUME NEW t \in Threads, EnqFull(t) PROVE HeldOnce'
  BY <1>3 DEF EnqFull
<1>4. ASSUME NEW t \in Threads, EnqLock(t) PROVE HeldOnce'
  BY <1>4 DEF EnqLock
<1>5. ASSUME NEW t \in Threads, EnqSleep(t) PROVE HeldOnce'
  BY <1>5 DEF EnqSleep
<1>6. ASSUME NEW t \in Threads, EnqTimeout(t) PROVE HeldOnce'
  BY <1>6 DEF EnqTimeout
<1>7. ASSUME NEW t \in Threads, EnqCheck(t) PROVE HeldOnce'
  BY <1>7 DEF EnqCheck
<1>8. ASSUME NEW t \in Threads, EnqWrite(t) PROVE HeldOnce'
  BY <1>8 DEF EnqWrite
<1>9. ASSUME NEW t \in Threads, EnqNotify(t) PROVE HeldOnce'
  BY <1>9 DEF EnqNotify
<1>10. ASSUME NEW w \in Workers, WorkerOuter(w) PROVE HeldOnce'
  BY <1>10 DEF WorkerOuter
<1>11. ASSUME NEW w \in Workers, WorkerLock(w) PROVE HeldOnce'
  BY <1>11 DEF WorkerLock
<1>12. ASSUME NEW w \in Workers, WorkerSleep(w) PROVE HeldOnce'
  BY <1>12 DEF WorkerSleep
<1>13. ASSUME NEW w \in Workers, WorkerTimeout(w) PROVE HeldOnce'
  BY <1>13 DEF WorkerTimeout
<1>14. ASSUME NEW w \in Workers, WorkerCheck(w) PROVE HeldOnce'
  BY <1>14 DEF WorkerCheck
<1>15. ASSUME NEW w \in Workers, WorkerTake(w) PROVE HeldOnce'
  <2> DEFINE e == buffer[head]
  <2>1. Sized /\ head \in Used /\ e \in Entries
    BY <1>15, TakeEffect
  <2>2. held' = [held EXCEPT ![w] = e] /\ taken' = taken \cup {e}
    BY <1>15, TakeEffect
  <2>3. \A v \in Workers : held[v] # e
    BY <2>1 DEF RingOnce
  <2>4. \A v \in Workers : held'[v] = IF v = w THEN e ELSE held[v]
    BY <2>2
  <2>5. QED
    BY <2>1, <2>2, <2>3, <2>4
<1>16. ASSUME NEW w \in Workers, WorkerNotify(w) PROVE HeldOnce'
  BY <1>16 DEF WorkerNotify
<1>17. ASSUME NEW w \in Workers, WorkerProcess(w) PROVE HeldOnce'
  BY <1>17 DEF WorkerProcess
<1>18. ASSUME NEW w \in Workers, WorkerThrow(w) PROVE HeldOnce'
  BY <1>18 DEF WorkerThrow
<1>19. ASSUME NEW w \in Workers, WorkerRelock(w) PROVE HeldOnce'
  BY <1>19 DEF WorkerRelock
<1>20. ASSUME NEW w \in Workers, StartSpawn(w) PROVE HeldOnce'
  BY <1>20 DEF StartSpawn
<1>21. ASSUME StartFlag PROVE HeldOnce'
  BY <1>21 DEF StartFlag
<1>22. ASSUME StartReset PROVE HeldOnce'
  BY <1>22 DEF StartReset
<1>23. ASSUME StartResize PROVE HeldOnce'
  BY <1>23 DEF StartResize
<1>24. ASSUME StopFlag PROVE HeldOnce'
  BY <1>24 DEF StopFlag
<1>25. ASSUME StopLock PROVE HeldOnce'
  BY <1>25 DEF StopLock
<1>26. ASSUME StopNotify PROVE HeldOnce'
  BY <1>26 DEF StopNotify
<1>27. ASSUME StopJoin PROVE HeldOnce'
  BY <1>27 DEF StopJoin
<1>28. ASSUME StopClear PROVE HeldOnce'
  BY <1>28 DEF StopClear
<1>29. CASE UNCHANGED vars
  BY <1>29 DEF vars
<1>30. QED
  BY <1>1, <1>2, <1>3, <1>4, <1>5, <1>6, <1>7, <1>8, <1>9, <1>10, <1>11,
     <1>12, <1>13, <1>14, <1>15, <1>16, <1>17, <1>18, <1>19, <1>20, <1>21,
     <1>22, <1>23, <1>24, <1>25, <1>26, <1>27, <1>28, <1>29 DEF Next,
     Acquire, EnqStep, WorkerAcquire, WorkerStep, StartStep, StopStep
\* Each entry passed to enqueue is taken out of the ring at most once, and by one
\* worker only (lines 108 and 131-132).
THEOREM ProcessedAtMostOnce == ASSUME Disciplined PROVE Spec => []AtMostOnce
<1>1. IInv /\ Once /\ [Next]_vars => (IInv /\ Once)'
  BY Inductive, RingOnceStep, HeldOnceStep DEF Once
<1>2. Once => AtMostOnce
  BY DEF Once, RingOnce, HeldOnce, AtMostOnce
<1>3. QED
  BY <1>1, <1>2, RingInit, OnceInit, PTL DEF Spec

-----------------------------------------------------------------------------
(* No wake-up is lost in a running queue, for every number of threads,     *)
(* entries and slots: notify_one after each entry stored or taken is       *)
(* enough, and the 1000 ms of the waits are not needed.                    *)

\* Whoever is about to sleep has found a reason under the mutex and still owns it.
SleepFound ==
  \A t \in Threads : /\ pc[t] = "sleep" => count = 0
                     /\ pc[t] = "enq_sleep" => count >= BufferSize

Awake == SleepFound /\ NoLostWakeup

LEMMA AwakeInit == Init => Awake
BY IQueueAssumption DEF Init, Awake, SleepFound, NoLostWakeup, Threads

\* Only the owner of the mutex, and startQueue while nobody is there, changes count.
LEMMA SleepFoundStep ==
  ASSUME Disciplined, IInv, SleepFound, [Next]_vars
  PROVE  SleepFound'
<1> USE IQueueAssumption DEF IInv, ControlInv, ControlType, LockInv, CallType, RingType, SleepFound,
    EnqPC, WorkerPC, ThreadPC, Inside, EnqInside, WorkerInside, Threads, ring, calls, control,
    Home, MayProduce, MayProcess, NotifyOne
<1>1. ASSUME NEW t \in Threads, EnqCall(t) \/ EnqFull(t) \/ EnqLock(t) \/ EnqTimeout(t)
      PROVE  SleepFound'
  BY <1>1 DEF EnqCall, EnqFull, EnqLock, EnqTimeout
<1>2. ASSUME NEW t \in Threads, EnqLockWaiting(t) PROVE SleepFound'
  BY <1>2 DEF EnqLockWaiting
<1>3. ASSUME NEW t \in Threads, EnqSleep(t) \/ EnqCheck(t) PROVE SleepFound'
  BY <1>3 DEF EnqSleep, EnqCheck
<1>4. ASSUME NEW t \in Threads, EnqWrite(t) PROVE SleepFound'
  BY <1>4 DEF EnqWrite
<1>5. ASSUME NEW t \in Threads, EnqNotify(t) PROVE SleepFound'
  BY <1>5 DEF EnqNotify
<1>6. ASSUME NEW w \in Workers, WorkerOuter(w) \/ WorkerLock(w) \/ WorkerRelock(w)
      PROVE  SleepFound'
  BY <1>6 DEF WorkerOuter, WorkerLock, WorkerRelock
<1>7. ASSUME NEW w \in Workers, WorkerSleep(w) \/ WorkerTimeout(w) \/ WorkerCheck(w)
      PROVE  SleepFound'
  BY <1>7 DEF WorkerSleep, WorkerTimeout, WorkerCheck
<1>8. ASSUME NEW w \in Workers, WorkerTake(w) PROVE SleepFound'
  BY <1>8 DEF WorkerTake
<1>9. ASSUME NEW w \in Workers, WorkerNotify(w) PROVE SleepFound'
  BY <1>9 DEF WorkerNotify
<1>10. ASSUME NEW w \in Workers, WorkerProcess(w) \/ WorkerThrow(w) PROVE SleepFound'
  BY <1>10 DEF WorkerProcess, WorkerThrow
<1>11. ASSUME NEW w \in Workers, StartSpawn(w) PROVE SleepFound'
  BY <1>11 DEF StartSpawn
<1>12. CASE StartReset
  BY <1>12 DEF StartReset, PhaseInv, Starting
<1>13. CASE StartFlag \/ StartResize \/ StopFlag \/ StopLock \/ StopClear
  BY <1>13 DEF StartFlag, StartResize, StopFlag, StopLock, StopClear
<1>14. CASE StopNotify
  BY <1>14 DEF StopNotify
<1>15. CASE StopJoin
  BY <1>15 DEF StopJoin
<1>16. CASE UNCHANGED vars
  BY <1>16 DEF vars
<1>17. QED
  BY <1>1, <1>2, <1>3, <1>4, <1>5, <1>6, <1>7, <1>8, <1>9, <1>10, <1>11, <1>12, <1>13, <1>14,
     <1>15, <1>16 DEF Next, Acquire, EnqStep, WorkerAcquire, WorkerStep, StartStep, StopStep

\* How many threads are on their way, before and after a step.
LEMMA OnTheWay ==
  ASSUME NEW S \in SUBSET Threads, NEW T \in SUBSET Threads
  PROVE  /\ Cardinality(S) \in Nat /\ Cardinality(T) \in Nat
         /\ S \subseteq T => Cardinality(S) <= Cardinality(T)
         /\ \A t \in T \ S : S \subseteq T => Cardinality(S) + 1 <= Cardinality(T)
         /\ \A t : S \ {t} \subseteq T => Cardinality(S) - 1 <= Cardinality(T)
<1>1. IsFiniteSet(S) /\ IsFiniteSet(T)
  BY IQueueAssumption, FS_Subset
<1>2. Cardinality(S) \in Nat /\ Cardinality(T) \in Nat
  BY <1>1, FS_CardinalityType
<1>3. S \subseteq T => Cardinality(S) <= Cardinality(T)
  BY <1>1, FS_Subset
<1>4. ASSUME NEW t \in T \ S, S \subseteq T PROVE Cardinality(S) + 1 <= Cardinality(T)
  <2>1. IsFiniteSet(S \cup {t}) /\ Cardinality(S \cup {t}) = Cardinality(S) + 1
    BY <1>1, <1>4, FS_AddElement
  <2>2. S \cup {t} \subseteq T
    BY <1>4
  <2>3. Cardinality(S \cup {t}) <= Cardinality(T)
    BY <1>1, <2>2, FS_Subset
  <2>4. QED
    BY <2>1, <2>3
<1>5. ASSUME NEW t, S \ {t} \subseteq T PROVE Cardinality(S) - 1 <= Cardinality(T)
  <2>1. Cardinality(S \ {t}) = IF t \in S THEN Cardinality(S) - 1 ELSE Cardinality(S)
    BY <1>1, FS_RemoveElement
  <2>2. Cardinality(S \ {t}) <= Cardinality(T)
    BY <1>1, <1>5, FS_Subset
  <2>3. QED
    BY <1>2, <2>1, <2>2
<1>6. QED
  BY <1>2, <1>3, <1>4, <1>5

\* The two halves of NoLostWakeup.
RoomFound ==
  (\E t \in Threads : pc[t] = "enq_blocked") => BufferSize - count <= Cardinality(TowardsRoom)
EntryFound ==
  (\E w \in Workers : pc[w] = "blocked") => count <= Cardinality(TowardsEntry)

\* A step that takes nobody from his way and does not change count, after which
\* nobody sleeps who did not before.
LEMMA WayKept ==
  ASSUME RingType, RoomFound, EntryFound, count' = count,
         TowardsRoom \subseteq TowardsRoom', TowardsEntry \subseteq TowardsEntry',
         \A t \in Threads : pc'[t] = "enq_blocked" => pc[t] = "enq_blocked",
         \A w \in Workers : pc'[w] = "blocked" => pc[w] = "blocked"
  PROVE  RoomFound' /\ EntryFound'
<1>1. /\ TowardsRoom \subseteq Threads /\ TowardsRoom' \subseteq Threads
      /\ TowardsEntry \subseteq Threads /\ TowardsEntry' \subseteq Threads
  BY DEF TowardsRoom, TowardsEntry
<1>2. /\ Cardinality(TowardsRoom) \in Nat /\ Cardinality(TowardsRoom') \in Nat
      /\ Cardinality(TowardsRoom) <= Cardinality(TowardsRoom')
  BY <1>1, OnTheWay
<1>3. /\ Cardinality(TowardsEntry) \in Nat /\ Cardinality(TowardsEntry') \in Nat
      /\ Cardinality(TowardsEntry) <= Cardinality(TowardsEntry')
  BY <1>1, OnTheWay
<1>4. count \in Nat /\ BufferSize \in Nat
  BY IQueueAssumption DEF RingType
<1>5. RoomFound'
  BY <1>2, <1>4 DEF RoomFound
<1>6. EntryFound'
  BY <1>3, <1>4 DEF EntryFound
<1>7. QED
  BY <1>5, <1>6

\* Every step that frees or fills a slot, or sends a thread to sleep, leaves
\* one more on its way, or finds the ring full (or empty).
LEMMA WakeupStep ==
  ASSUME Disciplined, IInv, SleepFound, NoLostWakeup, ctl' = "running", Next
  PROVE  RoomFound' /\ EntryFound'
<1> USE IQueueAssumption DEF IInv, ControlInv, ControlType, StopInv, CallType, RingType,
    EnqPC, WorkerPC, ThreadPC, Stopping, Starting, Threads, ring, calls, control, Home
<1>1. CASE ctl # "running"
  <2>1. StartResize
    BY <1>1, Zenon DEF Next, Acquire, EnqStep, WorkerAcquire, WorkerStep, StartStep, StopStep,
       EnqCall, EnqLockWaiting, EnqFull, EnqLock, EnqSleep, EnqTimeout, EnqCheck, EnqWrite,
       EnqNotify, WorkerOuter, WorkerLock, WorkerSleep, WorkerTimeout, WorkerCheck, WorkerTake,
       WorkerNotify, WorkerProcess, WorkerThrow, WorkerRelock, StartFlag, StartReset, StartSpawn,
       StopFlag, StopLock, StopNotify, StopJoin, StopClear
  <2>2. count' = 0 /\ \A t \in Threads : pc'[t] # "enq_blocked"
    BY <2>1 DEF StartResize, PhaseInv
  <2>3. TowardsEntry' \subseteq Threads
    BY DEF TowardsEntry
  <2>4. Cardinality(TowardsEntry') \in Nat
    BY <2>3, OnTheWay
  <2>5. QED
    BY <2>2, <2>4 DEF RoomFound, EntryFound
<1>2. CASE ctl = "running"
  <2>1. RoomFound /\ EntryFound
    BY <1>2 DEF NoLostWakeup, RoomFound, EntryFound
  <2>2. ~stop
    BY <1>2
  <2>3. /\ TowardsRoom \in SUBSET Threads /\ TowardsRoom' \in SUBSET Threads
        /\ TowardsEntry \in SUBSET Threads /\ TowardsEntry' \in SUBSET Threads
    BY DEF TowardsRoom, TowardsEntry
  <2>4. /\ Cardinality(TowardsRoom) \in Nat /\ Cardinality(TowardsRoom') \in Nat
        /\ Cardinality(TowardsEntry) \in Nat /\ Cardinality(TowardsEntry') \in Nat
    BY <2>3, OnTheWay
  <2>5. ASSUME NEW t \in Threads, EnqCall(t) \/ EnqLock(t) \/ EnqTimeout(t)
        PROVE  RoomFound' /\ EntryFound'
    <3>1. /\ count' = count
          /\ TowardsRoom \subseteq TowardsRoom' /\ TowardsEntry \subseteq TowardsEntry'
          /\ \A u \in Threads : pc'[u] = "enq_blocked" => pc[u] = "enq_blocked"
          /\ \A w \in Workers : pc'[w] = "blocked" => pc[w] = "blocked"
      BY <2>5 DEF EnqCall, EnqLock, EnqTimeout, TowardsRoom, TowardsEntry
    <3>2. QED
      BY <2>1, <3>1, WayKept
  <2>6. ASSUME NEW t \in Threads, EnqCheck(t) PROVE RoomFound' /\ EntryFound'
    <3>1. /\ count' = count
          /\ TowardsRoom \subseteq TowardsRoom' /\ TowardsEntry \subseteq TowardsEntry'
          /\ \A u \in Threads : pc'[u] = "enq_blocked" => pc[u] = "enq_blocked"
          /\ \A w \in Workers : pc'[w] = "blocked" => pc[w] = "blocked"
      BY <2>2, <2>6 DEF EnqCheck, TowardsRoom, TowardsEntry
    <3>2. QED
      BY <2>1, <3>1, WayKept
  <2>7. ASSUME NEW w \in Workers,
               \/ WorkerOuter(w) \/ WorkerCheck(w) \/ WorkerTimeout(w) \/ WorkerProcess(w)
               \/ WorkerThrow(w) \/ WorkerRelock(w)
        PROVE  RoomFound' /\ EntryFound'
    <3>1. /\ count' = count
          /\ TowardsRoom \subseteq TowardsRoom' /\ TowardsEntry \subseteq TowardsEntry'
          /\ \A u \in Threads : pc'[u] = "enq_blocked" => pc[u] = "enq_blocked"
          /\ \A u \in Workers : pc'[u] = "blocked" => pc[u] = "blocked"
      BY <2>2, <2>7 DEF WorkerOuter, WorkerCheck, WorkerTimeout, WorkerProcess, WorkerThrow,
         WorkerRelock, TowardsRoom, TowardsEntry
    <3>2. QED
      BY <2>1, <3>1, WayKept
  <2>8. ASSUME NEW t \in Threads, EnqLockWaiting(t) \/ EnqFull(t) \/ EnqSleep(t)
        PROVE  RoomFound' /\ EntryFound'
    <3>1. CASE EnqLockWaiting(t) /\ count < BufferSize
      <4>1. /\ count' = count
            /\ TowardsRoom \subseteq TowardsRoom' /\ TowardsEntry \subseteq TowardsEntry'
            /\ \A u \in Threads : pc'[u] = "enq_blocked" => pc[u] = "enq_blocked"
            /\ \A w \in Workers : pc'[w] = "blocked" => pc[w] = "blocked"
        BY <3>1 DEF EnqLockWaiting, MayProduce, TowardsRoom, TowardsEntry
      <4>2. QED
        BY <2>1, <4>1, WayKept
    <3>2. CASE ~(EnqLockWaiting(t) /\ count < BufferSize)
      <4>1. count = BufferSize /\ count' = count
        BY <2>8, <3>2 DEF EnqLockWaiting, EnqFull, EnqSleep, SleepFound
      <4>2. /\ TowardsEntry \subseteq TowardsEntry'
            /\ \A w \in Workers : pc'[w] = "blocked" => pc[w] = "blocked"
        BY <2>8 DEF EnqLockWaiting, EnqFull, EnqSleep, TowardsEntry
      <4>3. Cardinality(TowardsEntry) <= Cardinality(TowardsEntry')
        BY <2>3, <4>2, OnTheWay
      <4>4. RoomFound'
        BY <2>4, <4>1 DEF RoomFound
      <4>5. EntryFound'
        BY <2>1, <2>4, <4>1, <4>2, <4>3 DEF EntryFound
      <4>6. QED
        BY <4>4, <4>5
    <3>3. QED
      BY <3>1, <3>2
  <2>9. ASSUME NEW w \in Workers, WorkerLock(w) \/ WorkerSleep(w)
        PROVE  RoomFound' /\ EntryFound'
    <3>1. CASE WorkerLock(w) /\ count > 0
      <4>1. /\ count' = count
            /\ TowardsRoom \subseteq TowardsRoom' /\ TowardsEntry \subseteq TowardsEntry'
            /\ \A u \in Threads : pc'[u] = "enq_blocked" => pc[u] = "enq_blocked"
            /\ \A u \in Workers : pc'[u] = "blocked" => pc[u] = "blocked"
        BY <3>1 DEF WorkerLock, MayProcess, TowardsRoom, TowardsEntry
      <4>2. QED
        BY <2>1, <4>1, WayKept
    <3>2. CASE ~(WorkerLock(w) /\ count > 0)
      <4>1. count = 0 /\ count' = count
        BY <2>9, <3>2 DEF WorkerLock, WorkerSleep, SleepFound
      <4>2. /\ TowardsRoom \subseteq TowardsRoom'
            /\ \A t \in Threads : pc'[t] = "enq_blocked" => pc[t] = "enq_blocked"
        BY <2>9 DEF WorkerLock, WorkerSleep, TowardsRoom
      <4>3. Cardinality(TowardsRoom) <= Cardinality(TowardsRoom')
        BY <2>3, <4>2, OnTheWay
      <4>4. EntryFound'
        BY <2>4, <4>1 DEF EntryFound
      <4>5. RoomFound'
        BY <2>1, <2>4, <4>1, <4>2, <4>3 DEF RoomFound
      <4>6. QED
        BY <4>4, <4>5
    <3>3. QED
      BY <3>1, <3>2
  <2>10. ASSUME NEW t \in Threads, EnqWrite(t) PROVE RoomFound' /\ EntryFound'
    <3>1. count' = count + 1 /\ count \in Nat
      BY <2>10 DEF EnqWrite
    <3>2. /\ TowardsRoom \ {t} \subseteq TowardsRoom'
          /\ TowardsEntry \subseteq TowardsEntry' /\ t \in TowardsEntry' \ TowardsEntry
          /\ \A u \in Threads : pc'[u] = "enq_blocked" => pc[u] = "enq_blocked"
          /\ \A w \in Workers : pc'[w] = "blocked" => pc[w] = "blocked"
      BY <2>10 DEF EnqWrite, TowardsRoom, TowardsEntry
    <3>3. /\ Cardinality(TowardsRoom) - 1 <= Cardinality(TowardsRoom')
          /\ Cardinality(TowardsEntry) + 1 <= Cardinality(TowardsEntry')
      BY <2>3, <3>2, OnTheWay
    <3>4. RoomFound'
      BY <2>1, <2>4, <3>1, <3>2, <3>3 DEF RoomFound
    <3>5. EntryFound'
      BY <2>1, <2>4, <3>1, <3>2, <3>3 DEF EntryFound
    <3>6. QED
      BY <3>4, <3>5
  <2>11. ASSUME NEW w \in Workers, WorkerTake(w) PROVE RoomFound' /\ EntryFound'
    <3>1. count' = count - 1 /\ count \in Nat
      BY <2>11 DEF WorkerTake
    <3>2. /\ TowardsEntry \ {w} \subseteq TowardsEntry'
          /\ TowardsRoom \subseteq TowardsRoom' /\ w \in TowardsRoom' \ TowardsRoom
          /\ \A u \in Threads : pc'[u] = "enq_blocked" => pc[u] = "enq_blocked"
          /\ \A u \in Workers : pc'[u] = "blocked" => pc[u] = "blocked"
      BY <2>11 DEF WorkerTake, TowardsRoom, TowardsEntry
    <3>3. /\ Cardinality(TowardsRoom) + 1 <= Cardinality(TowardsRoom')
          /\ Cardinality(TowardsEntry) - 1 <= Cardinality(TowardsEntry')
      BY <2>3, <3>2, OnTheWay
    <3>4. RoomFound'
      BY <2>1, <2>4, <3>1, <3>2, <3>3 DEF RoomFound
    <3>5. EntryFound'
      BY <2>1, <2>4, <3>1, <3>2, <3>3 DEF EntryFound
    <3>6. QED
      BY <3>4, <3>5
  <2>12. ASSUME NEW t \in Threads, EnqNotify(t) PROVE RoomFound' /\ EntryFound'
    <3> DEFINE asleep == {u \in Threads : pc[u] = "blocked"}
    <3>1. /\ count' = count /\ pc[t] = "enq_notify" /\ TowardsRoom \subseteq TowardsRoom'
          /\ \A u \in Threads : pc'[u] = "enq_blocked" => pc[u] = "enq_blocked"
          /\ \A u \in Workers : pc'[u] = "blocked" => pc[u] = "blocked"
      BY <2>12 DEF EnqNotify, NotifyOne, TowardsRoom
    <3>2. Cardinality(TowardsRoom) <= Cardinality(TowardsRoom')
      BY <2>3, <3>1, OnTheWay
    <3>3. RoomFound'
      BY <2>1, <2>4, <3>1, <3>2 DEF RoomFound
    <3>4. CASE asleep = {}
      <4>1. \A u \in Workers : pc'[u] # "blocked"
        BY <3>1, <3>4
      <4>2. QED
        BY <3>3, <4>1 DEF EntryFound
    <3>5. CASE asleep # {}
      <4>1. PICK u \in asleep : pc' = [pc EXCEPT ![t] = Home(t), ![u] = "lock"]
        BY <2>12, <3>5 DEF EnqNotify, NotifyOne
      <4> DEFINE middle == TowardsEntry \ {t}
      <4>2. /\ middle \subseteq TowardsEntry' /\ u \in TowardsEntry' \ middle
        BY <3>1, <4>1 DEF TowardsEntry
      <4>3. middle \in SUBSET Threads
        BY <2>3
      <4>4. Cardinality(TowardsEntry) - 1 <= Cardinality(middle) /\ Cardinality(middle) \in Nat
        BY <2>3, <4>3, OnTheWay
      <4>5. Cardinality(middle) + 1 <= Cardinality(TowardsEntry')
        BY <2>3, <4>2, <4>3, OnTheWay
      <4>6. Cardinality(TowardsEntry) <= Cardinality(TowardsEntry')
        BY <2>4, <4>4, <4>5
      <4>7. EntryFound'
        BY <2>1, <2>4, <3>1, <4>6 DEF EntryFound
      <4>8. QED
        BY <3>3, <4>7
    <3>6. QED
      BY <3>4, <3>5
  <2>13. ASSUME NEW w \in Workers, WorkerNotify(w) PROVE RoomFound' /\ EntryFound'
    <3> DEFINE asleep == {u \in Threads : pc[u] = "enq_blocked"}
    <3>1. /\ count' = count /\ pc[w] = "notify" /\ TowardsEntry \subseteq TowardsEntry'
          /\ \A u \in Threads : pc'[u] = "enq_blocked" => pc[u] = "enq_blocked"
          /\ \A u \in Workers : pc'[u] = "blocked" => pc[u] = "blocked"
      BY <2>13 DEF WorkerNotify, NotifyOne, TowardsEntry
    <3>2. Cardinality(TowardsEntry) <= Cardinality(TowardsEntry')
      BY <2>3, <3>1, OnTheWay
    <3>3. EntryFound'
      BY <2>1, <2>4, <3>1, <3>2 DEF EntryFound
    <3>4. CASE asleep = {}
      <4>1. \A u \in Threads : pc'[u] # "enq_blocked"
        BY <3>1, <3>4
      <4>2. QED
        BY <3>3, <4>1 DEF RoomFound
    <3>5. CASE asleep # {}
      <4>1. PICK u \in asleep : pc' = [pc EXCEPT ![w] = "process", ![u] = "enq_lock"]
        BY <2>13, <3>5 DEF WorkerNotify, NotifyOne
      <4> DEFINE middle == TowardsRoom \ {w}
      <4>2. /\ middle \subseteq TowardsRoom' /\ u \in TowardsRoom' \ middle
        BY <3>1, <4>1 DEF TowardsRoom
      <4>3. middle \in SUBSET Threads
        BY <2>3
      <4>4. Cardinality(TowardsRoom) - 1 <= Cardinality(middle) /\ Cardinality(middle) \in Nat
        BY <2>3, <4>3, OnTheWay
      <4>5. Cardinality(middle) + 1 <= Cardinality(TowardsRoom')
        BY <2>3, <4>2, <4>3, OnTheWay
      <4>6. Cardinality(TowardsRoom) <= Cardinality(TowardsRoom')
        BY <2>4, <4>4, <4>5
      <4>7. RoomFound'
        BY <2>1, <2>4, <3>1, <4>6 DEF RoomFound
      <4>8. QED
        BY <3>3, <4>7
    <3>6. QED
      BY <3>4, <3>5
  <2>14. ~(StartFlag \/ StartReset \/ StartResize \/ StopFlag \/ StopLock \/ StopNotify
           \/ StopJoin \/ StopClear \/ \E w \in Workers : StartSpawn(w))
    BY <1>2 DEF StartFlag, StartReset, StartSpawn, StartResize, StopFlag, StopLock, StopNotify,
       StopJoin, StopClear
  <2>15. QED
    BY <2>5, <2>6, <2>7, <2>8, <2>9, <2>10, <2>11, <2>12, <2>13, <2>14, Zenon
       DEF Next, Acquire, EnqStep, WorkerAcquire, WorkerStep, StartStep, StopStep
<1>3. QED
  BY <1>1, <1>2

\* No wake-up is lost, whatever the number of threads, entries and slots: line
\* 113 notifies one worker after each entry stored, line 138 one waiting call
\* after each entry taken, and whoever still sleeps is not needed.
THEOREM WakeupIsNotLost == ASSUME Disciplined PROVE Spec => []NoLostWakeup
<1>1. IInv /\ Awake /\ [Next]_vars => (IInv /\ Awake)'
  <2> SUFFICES ASSUME IInv, Awake, [Next]_vars PROVE (IInv /\ Awake)'
    OBVIOUS
  <2>1. IInv' /\ SleepFound'
    BY Inductive, SleepFoundStep DEF Awake
  <2>2. CASE UNCHANGED vars
    BY <2>1, <2>2 DEF Awake, NoLostWakeup, TowardsRoom, TowardsEntry, vars
  <2>3. CASE Next /\ ctl' = "running"
    BY <2>1, <2>3, WakeupStep DEF Awake, NoLostWakeup, RoomFound, EntryFound
  <2>4. CASE ctl' # "running"
    BY <2>1, <2>4 DEF Awake, NoLostWakeup
  <2>5. QED
    BY <2>2, <2>3, <2>4
<1>2. QED
  BY <1>1, RingInit, AwakeInit, PTL DEF Spec, Awake

-----------------------------------------------------------------------------
(* IQueue implements BoundedFifo, if the clients keep the discipline.      *)

\* The c entries from slot h on.
WindowOf(b, h, c) == [i \in 1 .. c |-> b[(h + i - 1) % BufferSize]]

LEMMA WindowType ==
  ASSUME NEW h \in Slots, NEW c \in 0 .. BufferSize, NEW b,
         \A i \in Slots : Distance(i, h) < c => b[i] \in Entries
  PROVE  /\ WindowOf(b, h, c) \in Seq(Entries) /\ Len(WindowOf(b, h, c)) = c
         /\ \A k \in 1 .. c : WindowOf(b, h, c)[k] = b[(h + (k - 1)) % BufferSize]
<1>1. ASSUME NEW k \in 1 .. c PROVE b[(h + k - 1) % BufferSize] \in Entries
  <2>1. k - 1 \in 0 .. BufferSize /\ k - 1 < BufferSize /\ k - 1 < c
    BY IQueueAssumption
  <2>2. /\ (h + (k - 1)) % BufferSize \in Slots
        /\ Distance((h + (k - 1)) % BufferSize, h) = k - 1
    BY <2>1, Around
  <2>3. b[(h + (k - 1)) % BufferSize] \in Entries
    BY <2>1, <2>2
  <2>4. h + (k - 1) = h + k - 1
    BY IQueueAssumption DEF Slots
  <2>5. QED
    BY <2>3, <2>4
<1>2. WindowOf(b, h, c) \in [1 .. c -> Entries]
  BY <1>1 DEF WindowOf
<1>3. \A k \in 1 .. c : h + (k - 1) = h + k - 1
  BY IQueueAssumption DEF Slots
<1>4. QED
  BY <1>2, <1>3 DEF WindowOf

\* What the ring invariant says of the slots behind head.
LEMMA UsedSlots ==
  ASSUME IInv, Sized
  PROVE  /\ head \in Slots /\ count \in 0 .. BufferSize
         /\ \A i \in Slots : Distance(i, head) < count => buffer[i] \in Entries
BY DEF IInv, RingType, RingConsistent, Used, Distance

LEMMA WindowProperties ==
  ASSUME IInv, Sized
  PROVE  /\ Window \in Seq(Entries) /\ Len(Window) = count
         /\ \A k \in 1 .. count : Window[k] = buffer[(head + (k - 1)) % BufferSize]
<1>1. Window = WindowOf(buffer, head, count)
  BY DEF Window, WindowOf
<1>2. QED
  BY <1>1, UsedSlots, WindowType

LEMMA PutMaps ==
  ASSUME IInv, IInv', NEW t \in Threads, EnqWrite(t)
  PROVE  Window' = Append(Window, arg[t]) /\ Len(Window) < BufferSize
<1> DEFINE e == arg[t]
<1>1. /\ Sized /\ Sized' /\ count \in 0 .. BufferSize - 1 /\ e \in Entries
      /\ tail \in Slots \ Used /\ buffer' = [buffer EXCEPT ![tail] = e]
  BY PutEffect
<1>2. /\ head' = head /\ count' = count + 1 /\ tail = (head + count) % BufferSize
      /\ head \in Slots /\ buffer \in [Slots -> Entries \cup {None}]
  BY <1>1 DEF EnqWrite, IInv, RingConsistent, RingType
<1>3. /\ Window \in Seq(Entries) /\ Len(Window) = count
      /\ \A k \in 1 .. count : Window[k] = buffer[(head + (k - 1)) % BufferSize]
  BY <1>1, WindowProperties
<1>4. /\ Window' \in Seq(Entries) /\ Len(Window') = count'
      /\ \A k \in 1 .. count' : Window'[k] = buffer'[(head' + (k - 1)) % BufferSize]
  <2>1. /\ head' \in Slots /\ count' \in 0 .. BufferSize
        /\ \A i \in Slots : Distance(i, head') < count' => buffer'[i] \in Entries
    BY <1>1 DEF IInv, RingType, RingConsistent, Used, Distance
  <2>2. Window' = WindowOf(buffer', head', count')
    BY DEF Window, WindowOf
  <2>3. QED
    BY <2>1, <2>2, WindowType
<1>5. ASSUME NEW k \in 1 .. count
      PROVE  (head + (k - 1)) % BufferSize \in Slots \ {tail}
  <2>1. k - 1 \in 0 .. BufferSize /\ k - 1 < BufferSize /\ k - 1 # count
    BY <1>1, IQueueAssumption
  <2>2. /\ (head + (k - 1)) % BufferSize \in Slots
        /\ Distance((head + (k - 1)) % BufferSize, head) = k - 1
    BY <1>2, <2>1, Around
  <2>3. Distance(tail, head) = count
    <3>1. count \in 0 .. BufferSize /\ count < BufferSize
      BY <1>1, IQueueAssumption
    <3>2. Distance((head + count) % BufferSize, head) = count
      BY <1>2, <3>1, Around
    <3>3. QED
      BY <1>2, <3>2
  <2>4. QED
    BY <2>1, <2>2, <2>3
<1>6. \A k \in 1 .. count : Window'[k] = Window[k]
  BY <1>1, <1>2, <1>3, <1>4, <1>5
<1>7. Window'[count + 1] = e
  BY <1>1, <1>2, <1>4
<1>8. /\ Append(Window, e) \in Seq(Entries) /\ Len(Append(Window, e)) = count + 1
      /\ \A k \in 1 .. count : Append(Window, e)[k] = Window[k]
      /\ Append(Window, e)[count + 1] = e
  BY <1>1, <1>3, AppendProperties
<1>9. \A k \in 1 .. count + 1 : Window'[k] = Append(Window, e)[k]
  BY <1>1, <1>6, <1>7, <1>8
<1>10. Len(Window') = count + 1
  BY <1>2, <1>4
<1>11. Window' = Append(Window, e)
  BY <1>4, <1>8, <1>9, <1>10, SeqEqual
<1>12. QED
  BY <1>1, <1>3, <1>11, IQueueAssumption

LEMMA TakeMaps ==
  ASSUME IInv, IInv', NEW w \in Workers, WorkerTake(w)
  PROVE  /\ Window # <<>> /\ Head(Window) = buffer[head] /\ Window' = Tail(Window)
<1>1. /\ Sized /\ Sized' /\ count \in 1 .. BufferSize /\ head \in Used
      /\ buffer' = [buffer EXCEPT ![head] = None]
  BY TakeEffect
<1>2. /\ head' = (head + 1) % BufferSize /\ count' = count - 1
      /\ head \in Slots /\ buffer \in [Slots -> Entries \cup {None}]
  BY <1>1 DEF WorkerTake, IInv, RingType
<1>3. /\ Window \in Seq(Entries) /\ Len(Window) = count
      /\ \A k \in 1 .. count : Window[k] = buffer[(head + (k - 1)) % BufferSize]
  BY <1>1, WindowProperties
<1>4. /\ Window' \in Seq(Entries) /\ Len(Window') = count'
      /\ \A k \in 1 .. count' : Window'[k] = buffer'[(head' + (k - 1)) % BufferSize]
  <2>1. /\ head' \in Slots /\ count' \in 0 .. BufferSize
        /\ \A i \in Slots : Distance(i, head') < count' => buffer'[i] \in Entries
    BY <1>1 DEF IInv, RingType, RingConsistent, Used, Distance
  <2>2. Window' = WindowOf(buffer', head', count')
    BY DEF Window, WindowOf
  <2>3. QED
    BY <2>1, <2>2, WindowType
<1>5. Window[1] = buffer[head]
  BY <1>1, <1>2, <1>3, ModSmall DEF Slots
<1>6. ASSUME NEW k \in 1 .. count - 1
      PROVE  /\ (head' + (k - 1)) % BufferSize = (head + k) % BufferSize
             /\ (head + k) % BufferSize \in Slots \ {head}
  <2>1. k \in 1 .. BufferSize /\ k \in 0 .. BufferSize /\ k < BufferSize /\ k # 0
    BY <1>1, IQueueAssumption
  <2>2. (head' + (k - 1)) % BufferSize = (head + k) % BufferSize
    BY <1>2, <2>1, AfterTake
  <2>3. (head + k) % BufferSize \in Slots /\ Distance((head + k) % BufferSize, head) = k
    BY <1>2, <2>1, Around
  <2>4. QED
    BY <1>2, <2>1, <2>2, <2>3, DistanceType
<1>7. \A k \in 1 .. count - 1 : Window'[k] = Window[k + 1]
  <2> TAKE k \in 1 .. count - 1
  <2>1. Window'[k] = buffer[(head + k) % BufferSize]
    BY <1>1, <1>2, <1>4, <1>6
  <2>2. k + 1 \in 1 .. count /\ k + 1 - 1 = k
    BY <1>1, IQueueAssumption
  <2>3. QED
    BY <1>3, <2>1, <2>2
<1>8. /\ Window # <<>> /\ Head(Window) = Window[1]
      /\ Tail(Window) \in Seq(Entries) /\ Len(Tail(Window)) = count - 1
      /\ \A k \in 1 .. count - 1 : Tail(Window)[k] = Window[k + 1]
  BY <1>1, <1>3, HeadTailProperties, EmptySeq
<1>9. QED
  BY <1>1, <1>2, <1>4, <1>5, <1>7, <1>8, SeqEqual

-----------------------------------------------------------------------------
(* Each step of IQueue is one step of BoundedFifo, or leaves it alone.     *)

\* What BoundedFifo sees of a state.
Seen == <<Phase, Items, taken>>

LEMMA Quiet ==
  ASSUME \/ UNCHANGED <<head, count, buffer, ctl, taken>>
         \/ UNCHANGED taken /\ Phase = "closed" /\ Phase' = "closed"
         \/ UNCHANGED <<head, count, buffer, taken>> /\ Phase' = Phase
  PROVE  UNCHANGED Seen
BY DEF Seen, Items, Window, Phase

LEMMA FifoPut ==
  ASSUME IInv, IInv', NEW t \in Threads, EnqWrite(t)
  PROVE  Fifo!Put
<1>1. /\ Window' = Append(Window, arg[t]) /\ Len(Window) < BufferSize /\ arg[t] \in Entries
  BY PutMaps, PutEffect
<1>2. Phase \in {"open", "closing"} /\ Phase' = Phase /\ UNCHANGED taken
  <2>1. Sized /\ pc[t] = "enq_write" /\ UNCHANGED <<ctl, taken>>
    BY PutEffect DEF EnqWrite, control
  <2>2. ctl # "stop_clear"
    BY <2>1 DEF IInv, PhaseInv, Threads
  <2>3. QED
    BY <2>1, <2>2 DEF Phase, Sized
<1>3. Items = Window /\ Items' = Window'
  BY <1>2 DEF Items
<1>4. QED
  BY <1>1, <1>2, <1>3 DEF Fifo!Put

LEMMA FifoTake ==
  ASSUME IInv, IInv', RingOnce, NEW w \in Workers, WorkerTake(w)
  PROVE  Fifo!Take
<1>1. /\ Window # <<>> /\ Head(Window) = buffer[head] /\ Window' = Tail(Window)
  BY TakeMaps
<1>2. /\ Sized /\ head \in Used /\ buffer[head] \in Entries
      /\ taken' = taken \cup {buffer[head]}
  BY TakeEffect
<1>3. buffer[head] \notin taken
  BY <1>2 DEF RingOnce
<1>4. Phase = "open" /\ Phase' = Phase
  BY DEF WorkerTake, IInv, PhaseInv, Phase, control
<1>5. Items = Window /\ Items' = Window'
  BY <1>4 DEF Items
<1>6. QED
  BY <1>1, <1>2, <1>3, <1>4, <1>5 DEF Fifo!Take

LEMMA FifoStep ==
  ASSUME IInv, IInv', RingOnce, [Next]_vars
  PROVE  Fifo!Next \/ UNCHANGED Seen
<1>1. ASSUME NEW t \in Threads, EnqWrite(t) PROVE Fifo!Next
  BY <1>1, FifoPut DEF Fifo!Next
<1>2. ASSUME NEW w \in Workers, WorkerTake(w) PROVE Fifo!Next
  BY <1>2, FifoTake DEF Fifo!Next
<1>3. CASE StartResize
  <2>1. count = 0 /\ count' = 0
    BY <1>3 DEF StartResize, IInv, PhaseInv
  <2>2. Window' = <<>>
    BY <2>1 DEF Window
  <2>3. Phase = "closed" /\ Phase' = "open" /\ UNCHANGED taken
    BY <1>3 DEF StartResize, Phase
  <2>4. QED
    BY <2>2, <2>3 DEF Items, Fifo!Next, Fifo!Open
<1>4. CASE StopLock
  <2>1. Phase = "open" /\ Phase' = "closing" /\ UNCHANGED <<taken, Window>>
    BY <1>4 DEF StopLock, Phase, Window, ring
  <2>2. QED
    BY <2>1 DEF Items, Fifo!Next, Fifo!Close
<1>5. CASE StopJoin
  <2>1. Phase = "closing" /\ Phase' = "closed" /\ UNCHANGED taken
    BY <1>5 DEF StopJoin, Phase
  <2>2. QED
    BY <2>1 DEF Items, Fifo!Next, Fifo!Discard
<1>6. CASE StartFlag \/ StartReset \/ StopFlag \/ StopNotify \/ StopClear
  <2>1. \/ UNCHANGED taken /\ Phase = "closed" /\ Phase' = "closed"
        \/ UNCHANGED <<head, count, buffer, taken>> /\ Phase' = Phase
    BY <1>6 DEF StartFlag, StartReset, StopFlag, StopNotify, StopClear, Phase, ring
  <2>2. QED
    BY <2>1, Quiet
<1>7. CASE /\ ~ \E t \in Threads : EnqWrite(t)
           /\ ~ \E w \in Workers : WorkerTake(w)
           /\ ~ (StartResize \/ StopLock \/ StopJoin)
           /\ ~ (StartFlag \/ StartReset \/ StopFlag \/ StopNotify \/ StopClear)
  <2>1. UNCHANGED <<head, count, buffer, ctl, taken>>
    BY <1>7 DEF Next, vars, ring, control, Acquire, EnqStep, WorkerAcquire, WorkerStep,
       StartStep, StopStep, EnqCall, EnqLockWaiting, EnqFull, EnqLock, EnqSleep,
       EnqTimeout, EnqCheck, EnqNotify, WorkerOuter, WorkerLock, WorkerSleep,
       WorkerTimeout, WorkerCheck, WorkerNotify, WorkerProcess, WorkerThrow,
       WorkerRelock, StartSpawn
  <2>2. QED
    BY <2>1, Quiet
<1>8. QED
  BY <1>1, <1>2, <1>3, <1>4, <1>5, <1>6, <1>7

\* A queue is a bounded first-in first-out queue: enqueue appends, process
\* takes the oldest entry and none twice, stopQueue discards what is left.
THEOREM ImplementsBoundedFifo == ASSUME Disciplined PROVE Spec => ImplementsFifo
<1>1. Init => Fifo!Init
  BY DEF Init, Fifo!Init, Phase, Items
<1>2. IInv /\ IInv' /\ RingOnce /\ [Next]_vars => [Fifo!Next]_(Fifo!vars)
  BY FifoStep DEF Seen, Fifo!vars
<1>3. IInv /\ RingOnce /\ [Next]_vars => IInv' /\ RingOnce'
  BY Inductive, RingOnceStep
<1>4. Init => RingOnce
  BY OnceInit DEF Once
<1>5. QED
  BY <1>1, <1>2, <1>3, <1>4, RingInit, PTL DEF Spec, ImplementsFifo, Fifo!Spec

=============================================================================
