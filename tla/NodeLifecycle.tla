---------------------------- MODULE NodeLifecycle ----------------------------
(***************************************************************************)
(* Nodes that are an INode and an IQueue with one worker, from their       *)
(* construction to their destruction (src/src/INode.cpp, INode.h,          *)
(* Output.cpp, and the queue as a client sees it).  The code that drives   *)
(* them, here the manager, is not in the repository: it does what the      *)
(* comments of INode.h promise to the nodes.  It sets up one node after    *)
(* the other, calls stop() of all before it calls waitForStop(), calls     *)
(* that serially, and only then destroys nodes, one after the other.  A    *)
(* node starts its queue in start().  It should stop it in waitForStop()   *)
(* ("Join threads here", INode.h:77), but a node may leave that to the     *)
(* destructor of IQueue.  Its input() is called in the thread of the node  *)
(* that sends (a synchronous output).                                      *)
(*                                                                         *)
(* A node is built of three parts that are destroyed in the order          *)
(* "derived" (its own class), "IQueue", "INode".  Using one that is gone   *)
(* may end the program (Crash) or seem to work.                            *)
(***************************************************************************)
EXTENDS Naturals

CONSTANTS
  Nodes,
  BufferSize,  \* entries a queue has room for
  Wirings,     \* from each node to those it may send to
  Careful,     \* sets of nodes that may stop their queues in waitForStop
  NoId         \* the empty string

ASSUME NodeLifecycleAssumption ==
  BufferSize \in Nat \ {0} /\ NoId \notin Nodes /\ Wirings \subseteq SUBSET (Nodes \X Nodes)
  /\ Careful \subseteq SUBSET Nodes

VARIABLES
  wires,
  waits,      \* nodes whose input() waits if the queue is full
  joins,      \* nodes that stop their queues in waitForStop
  stage,      \* what the manager has done with a node
  parts,      \* the parts of a node that exist
  id,         \* INode::_id
  outputId,   \* Output::_nodeId, a copy
  outputLog,  \* Output::_log points to INode::_log
  callbacks,  \* INode's callbacks that are set
  running,    \* ~_stopProcessingThread
  count,      \* entries in the queue
  worker,     \* "none", "idle", "busy" with an entry, "sending" to target, "lost"
  target,
  line        \* the line that the last step logged: the node and the identifier in it

setup == <<wires, waits, joins>>
identity == <<id, outputId, outputLog, callbacks>>
queues == <<running, count, worker, target>>
vars == <<setup, stage, parts, identity, queues, line>>

AllParts == {"derived", "IQueue", "INode"}

Init ==
  /\ wires \in Wirings
  /\ waits \in SUBSET Nodes
  /\ joins \in Careful
  /\ stage = [n \in Nodes |-> "new"]
  /\ parts = [n \in Nodes |-> {}]
  /\ id = [n \in Nodes |-> NoId]
  /\ outputId = [n \in Nodes |-> NoId]
  /\ outputLog = [n \in Nodes |-> FALSE]
  /\ callbacks = [n \in Nodes |-> {}]
  /\ running = [n \in Nodes |-> FALSE]
  /\ count = [n \in Nodes |-> 0]
  /\ worker = [n \in Nodes |-> "none"]
  /\ target = [n \in Nodes |-> NoId]
  /\ line = <<>>

-----------------------------------------------------------------------------
(* Setting up *)

\* What has been logged after Output has printed, which it does only if it has
\* a log that is set.
Printed(n) ==
  IF outputLog[n] /\ "log" \in callbacks[n] THEN <<n, outputId[n]>> ELSE <<>>

\* INode::log.
Logged(n) == IF "log" \in callbacks[n] THEN <<n, id[n]>> ELSE <<>>

\* The identifier is still empty when Output copies it.  The constructor of
\* the derived class may print.
Construct(n) ==
  /\ stage[n] = "new"
  /\ \A m \in Nodes : stage[m] \in {"new", "started", "waited"}
  /\ stage' = [stage EXCEPT ![n] = "constructed"]
  /\ parts' = [parts EXCEPT ![n] = AllParts]
  /\ outputId' = [outputId EXCEPT ![n] = id[n]]
  /\ outputLog' = [outputLog EXCEPT ![n] = FALSE]
  /\ line' = Printed(n)
  /\ UNCHANGED <<setup, id, callbacks, queues>>

\* Mutant of setId: the copy is forgotten.
setIdOnly(n) ==
  /\ stage[n] = "constructed"
  /\ id[n] = NoId
  /\ id' = [id EXCEPT ![n] = n]
  /\ line' = <<>>
  /\ UNCHANGED <<setup, stage, parts, outputId, outputLog, callbacks, queues>>

setId(n) ==
  /\ stage[n] = "constructed"
  /\ id[n] = NoId
  /\ id' = [id EXCEPT ![n] = n]
  /\ outputId' = [outputId EXCEPT ![n] = n]
  /\ line' = <<>>
  /\ UNCHANGED <<setup, stage, parts, outputLog, callbacks, queues>>

setLog(n) ==
  /\ stage[n] = "constructed"
  /\ "log" \notin callbacks[n]
  /\ callbacks' = [callbacks EXCEPT ![n] = @ \cup {"log"}]
  /\ outputLog' = [outputLog EXCEPT ![n] = TRUE]
  /\ line' = <<>>
  /\ UNCHANGED <<setup, stage, parts, id, outputId, queues>>

setOutput(n) ==
  /\ stage[n] = "constructed"
  /\ "output" \notin callbacks[n]
  /\ callbacks' = [callbacks EXCEPT ![n] = @ \cup {"output"}]
  /\ line' = <<>>
  /\ UNCHANGED <<setup, stage, parts, id, outputId, outputLog, queues>>

Ready(n) == stage[n] = "constructed" /\ id[n] # NoId /\ callbacks[n] = {"log", "output"}

start(n) ==
  /\ Ready(n)
  /\ stage' = [stage EXCEPT ![n] = "started"]
  /\ running' = [running EXCEPT ![n] = TRUE]
  /\ count' = [count EXCEPT ![n] = 0]
  /\ worker' = [worker EXCEPT ![n] = "idle"]
  /\ line' = Printed(n)
  /\ UNCHANGED <<setup, parts, identity, target>>

\* init() prints an error and returns false: the node is not started.
Refuse(n) ==
  /\ Ready(n)
  /\ stage' = [stage EXCEPT ![n] = "waited"]
  /\ line' = Printed(n)
  /\ UNCHANGED <<setup, parts, identity, queues>>

-----------------------------------------------------------------------------
(* Running *)

\* An event of the manager, which must not block: if the queue is full, the
\* entry is dropped, with an error message unless there was one recently.
Event(n) ==
  /\ stage[n] = "started"
  /\ \/ count[n] < BufferSize /\ count' = [count EXCEPT ![n] = @ + 1] /\ line' = <<>>
     \/ count[n] = BufferSize /\ line' \in {<<>>, Printed(n)} /\ UNCHANGED count
  /\ UNCHANGED <<setup, stage, parts, identity, running, worker, target>>

Take(n) ==
  /\ worker[n] = "idle"
  /\ running[n]
  /\ count[n] > 0
  /\ "derived" \in parts[n]
  /\ count' = [count EXCEPT ![n] = @ - 1]
  /\ worker' = [worker EXCEPT ![n] = "busy"]
  /\ line' = <<>>
  /\ UNCHANGED <<setup, stage, parts, identity, running, target>>

\* The entry has been processed, also if with an error.
Finish(n) ==
  /\ worker[n] = "busy"
  /\ worker' = [worker EXCEPT ![n] = "idle"]
  /\ line' \in {Printed(n), Logged(n)}
  /\ UNCHANGED <<setup, stage, parts, identity, running, count, target>>

\* Without the callback, or a node to send to, the message is lost.
output(n, m) ==
  /\ worker[n] = "busy"
  /\ <<n, m>> \in wires
  /\ LET sends == "output" \in callbacks[n] /\ stage[m] # "new" IN
     /\ worker' = [worker EXCEPT ![n] = IF sends THEN "sending" ELSE "idle"]
     /\ target' = IF sends THEN [target EXCEPT ![n] = m] ELSE target
  /\ line' = <<>>
  /\ UNCHANGED <<setup, stage, parts, identity, running, count>>

Sent(n) == worker' = [worker EXCEPT ![n] = "idle"] /\ target' = [target EXCEPT ![n] = NoId]

\* enqueue in input() of the target.  A node that is not started yet has a
\* stopped queue as well.
Store(n) ==
  LET m == target[n] IN
  /\ worker[n] = "sending"
  /\ running[m]
  /\ count[m] < BufferSize
  /\ count' = [count EXCEPT ![m] = @ + 1]
  /\ Sent(n)
  /\ line' = <<>>
  /\ UNCHANGED <<setup, stage, parts, identity, running>>

DropFull(n) ==
  LET m == target[n] IN
  /\ worker[n] = "sending"
  /\ running[m]
  /\ m \notin waits
  /\ count[m] = BufferSize
  /\ Sent(n)
  /\ line' \in {<<>>, Printed(m)}
  /\ UNCHANGED <<setup, stage, parts, identity, running, count>>

\* Mutant of DropStopped: a call that waits is not woken up by stopQueue.
DropStoppedEarly(n) ==
  LET m == target[n] IN
  /\ worker[n] = "sending"
  /\ ~running[m]
  /\ m \in waits => count[m] < BufferSize
  /\ Sent(n)
  /\ line' = <<>>
  /\ UNCHANGED <<setup, stage, parts, identity, running, count>>

\* The queue is stopped, before the call or while it waits.
DropStopped(n) ==
  /\ worker[n] = "sending"
  /\ ~running[target[n]]
  /\ Sent(n)
  /\ line' = <<>>
  /\ UNCHANGED <<setup, stage, parts, identity, running, count>>

WorkerReturn(n) ==
  /\ worker[n] = "idle"
  /\ ~running[n]
  /\ worker' = [worker EXCEPT ![n] = "none"]
  /\ line' = <<>>
  /\ UNCHANGED <<setup, stage, parts, identity, running, count, target>>

\* The next entry meets a pure virtual processQueueEntry, or the thread is
\* inside of something that is gone.  The other threads end with it, at the latest
\* when they need it.
Crash(n) ==
  /\ \/ worker[n] = "idle" /\ running[n] /\ count[n] > 0 /\ "derived" \notin parts[n]
     \/ worker[n] = "busy" /\ "derived" \notin parts[n]
     \/ worker[n] = "sending" /\ parts[target[n]] # AllParts
  /\ worker' = [worker EXCEPT ![n] = "lost"]
  /\ line' = <<>>
  /\ UNCHANGED <<setup, stage, parts, identity, running, count, target>>

Alive == \A n \in Nodes : worker[n] # "lost"

-----------------------------------------------------------------------------
(* Stopping *)

\* stop() must not block, as stopQueue does.
stop(n) ==
  /\ stage[n] = "started"
  /\ \A m \in Nodes : stage[m] \notin {"new", "constructed"}
  /\ stage' = [stage EXCEPT ![n] = "stopped"]
  /\ line' = <<>>
  /\ UNCHANGED <<setup, parts, identity, queues>>

\* waitForStop(): the flag of stopQueue, or nothing.
waitForStop(n) ==
  /\ stage[n] = "stopped"
  /\ \A m \in Nodes : stage[m] \in {"stopped", "waited"}
  /\ stage' = [stage EXCEPT ![n] = IF n \in joins THEN "waiting" ELSE "waited"]
  /\ running' = [running EXCEPT ![n] = @ /\ n \notin joins]
  /\ line' = <<>>
  /\ UNCHANGED <<setup, parts, identity, count, worker, target>>

\* The rest of stopQueue: it joins the worker and clears the buffer.
Join(n) ==
  /\ stage[n] = "waiting"
  /\ worker[n] = "none"
  /\ stage' = [stage EXCEPT ![n] = "waited"]
  /\ count' = [count EXCEPT ![n] = 0]
  /\ line' = <<>>
  /\ UNCHANGED <<setup, parts, identity, running, worker, target>>

Destroy(n) ==
  /\ \A m \in Nodes : stage[m] \in {"waited", "destroyed"} /\ parts[m] \in {{}, AllParts}
  /\ stage[n] = "waited"
  /\ stage' = [stage EXCEPT ![n] = "destroyed"]
  /\ parts' = [parts EXCEPT ![n] = @ \ {"derived"}]
  /\ line' = <<>>
  /\ UNCHANGED <<setup, identity, queues>>

\* IQueue::~IQueue of a queue that still runs: the flag of stopQueue.
stopLate(n) ==
  /\ parts[n] = {"IQueue", "INode"}
  /\ running[n]
  /\ stage' = [stage EXCEPT ![n] = "joining"]
  /\ running' = [running EXCEPT ![n] = FALSE]
  /\ line' = <<>>
  /\ UNCHANGED <<setup, parts, identity, count, worker, target>>

\* Mutant of DestroyIQueue: it does not wait for the worker.
DestroyUnjoined(n) ==
  /\ parts[n] = {"IQueue", "INode"}
  /\ ~running[n]
  /\ parts' = [parts EXCEPT ![n] = @ \ {"IQueue"}]
  /\ stage' = [stage EXCEPT ![n] = "destroyed"]
  /\ count' = [count EXCEPT ![n] = 0]
  /\ line' = <<>>
  /\ UNCHANGED <<setup, identity, running, worker, target>>

\* The rest of it: stopQueue joins the worker, or has seen the flag of an earlier
\* call and returned.
DestroyIQueue(n) ==
  /\ parts[n] = {"IQueue", "INode"}
  /\ ~running[n]
  /\ stage[n] = "joining" => worker[n] = "none"
  /\ parts' = [parts EXCEPT ![n] = @ \ {"IQueue"}]
  /\ stage' = [stage EXCEPT ![n] = "destroyed"]
  /\ count' = [count EXCEPT ![n] = 0]
  /\ line' = <<>>
  /\ UNCHANGED <<setup, identity, running, worker, target>>

\* INode::~INode.  An Output that something else still holds keeps its pointer.
DestroyINode(n) ==
  /\ parts[n] = {"INode"}
  /\ parts' = [parts EXCEPT ![n] = {}]
  /\ callbacks' = [callbacks EXCEPT ![n] = {}]
  /\ line' = <<>>
  /\ UNCHANGED <<setup, stage, id, outputId, outputLog, queues>>

-----------------------------------------------------------------------------

Manager(n) ==
  \/ Construct(n) \/ setId(n) \/ setLog(n) \/ setOutput(n) \/ start(n) \/ Refuse(n) \/ stop(n)

Teardown(n) ==
  waitForStop(n) \/ Join(n) \/ Destroy(n) \/ stopLate(n) \/ DestroyIQueue(n) \/ DestroyINode(n)

Worker(n) ==
  \/ Take(n) \/ Finish(n) \/ (\E m \in Nodes : output(n, m)) \/ Crash(n)
  \/ Store(n) \/ DropFull(n) \/ DropStopped(n) \/ WorkerReturn(n)

Next == \E n \in Nodes : Manager(n) \/ Teardown(n) \/ Event(n) \/ Worker(n)

\* Threads go on, and the manager with a teardown.  Nothing has to be stopped,
\* no event has to come, and who waits for room has no turn of its own.
Fairness ==
  \A n \in Nodes : WF_vars(Teardown(n)) /\ WF_vars(Worker(n))

Spec == Init /\ [][Next]_vars /\ Fairness

-----------------------------------------------------------------------------
(* Properties *)

\* While a worker exists, so do the mutex and the buffer of its queue and the log
\* it prints to, whoever stops the queue (IQueue.cpp:59).  A node that joins its
\* threads where INode.h:77 asks for it is whole while it has a worker, which
\* calls processQueueEntry of its own class, and so is the node it sends to.
NothingGone ==
  \A n \in Nodes : worker[n] # "none" =>
    /\ {"IQueue", "INode"} \subseteq parts[n]
    /\ n \in joins => /\ parts[n] = AllParts
                      /\ worker[n] = "sending" => parts[target[n]] = AllParts

\* Whatever is logged, by the node or by others into its queue, has the
\* identifier of the node in it, although Output is made without one.
LinesHaveId == \A n \in Nodes : \A i \in Nodes \cup {NoId} : line = <<n, i>> => i = n

AllGone == \A n \in Nodes : stage[n] = "destroyed" /\ parts[n] = {}

\* The manager waits for a worker that waits for others, which wait for each
\* other's queues in a circle that the manager has not come to yet.
HeldUp ==
  \E n \in Nodes : \E S \in SUBSET (Nodes \cap waits) :
    /\ stage[n] \in {"waiting", "joining"}
    /\ \A m \in S \cup {n} : worker[m] = "sending" /\ target[m] \in S
    /\ \A m \in S : running[m] /\ count[m] = BufferSize

\* A call stores an entry while another one waits for room in the same queue.
Overtaking ==
  \E n, k \in Nodes :
    n # k /\ Store(k) /\ worker[n] = "sending" /\ target[n] = target[k] /\ target[n] \in waits

\* Once all nodes are asked to stop, all are destroyed in the end, unless the
\* manager is held up for ever, or calls that wait for room are overtaken for
\* ever, or the program has crashed.  Neither of the first two happens if no
\* input() blocks (INode.h:165), nor the last, by NothingGone, if all nodes join
\* their threads (INode.h:77).
TeardownEnds ==
  <>[][~Overtaking]_vars =>
    ((\A n \in Nodes : stage[n] \in {"stopped", "waited"}) ~> (AllGone \/ ~Alive \/ []HeldUp))

=============================================================================
