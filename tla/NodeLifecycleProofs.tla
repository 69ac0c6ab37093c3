------------------------- MODULE NodeLifecycleProofs -------------------------
(***************************************************************************)
(* NothingGone and LinesHaveId hold for any nodes, wires, queue sizes and  *)
(* choice of queues that wait and of nodes that join their threads.  The   *)
(* argument: a node is whole from its construction to its destruction      *)
(* (Whole); the worker of a node that joins its threads has ended by the   *)
(* time that the manager destroys the first node (Employed, Teardowns),    *)
(* and that of any other node before the queue is destroyed (Stopping);    *)
(* from setId on the two identifiers of a node agree (Named).              *)
(* The second half is about HeldUp, an exception of TeardownEnds: that it  *)
(* is never resolved, and that workers come to a standstill in no other    *)
(* way.                                                                    *)
(***************************************************************************)
EXTENDS NodeLifecycle, TLAPS

Living  == {"constructed", "started", "stopped", "waiting", "waited"}
Gone    == {"destroyed", "joining"}
Stages  == Living \cup Gone \cup {"new"}
Working == {"started", "stopped", "waiting"}
Lines   == {<<>>} \cup (Nodes \X (Nodes \cup {NoId}))

TypeOK ==
  /\ wires \subseteq Nodes \X Nodes
  /\ joins \subseteq Nodes
  /\ stage \in [Nodes -> Stages]
  /\ parts \in [Nodes -> SUBSET AllParts]
  /\ id \in [Nodes -> Nodes \cup {NoId}]
  /\ outputId \in [Nodes -> Nodes \cup {NoId}]
  /\ outputLog \in [Nodes -> BOOLEAN]
  /\ callbacks \in [Nodes -> SUBSET {"log", "output"}]
  /\ running \in [Nodes -> BOOLEAN]
  /\ count \in [Nodes -> 0 .. BufferSize]
  /\ worker \in [Nodes -> {"none", "idle", "busy", "sending", "lost"}]
  /\ target \in [Nodes -> Nodes \cup {NoId}]
  /\ \A n \in Nodes : worker[n] = "sending" => target[n] \in Nodes
  /\ line \in Lines

\* A node is whole from its construction on, until it is destroyed.
Whole ==
  \A n \in Nodes : /\ stage[n] = "new" => parts[n] = {} /\ callbacks[n] = {}
                   /\ stage[n] \in Living => parts[n] = AllParts
                   /\ stage[n] = "joining" => parts[n] = {"IQueue", "INode"}

\* The worker of a node that joins its threads exists only between start() and
\* the end of waitForStop(); any other's queue runs at most until it is destroyed.
Employed ==
  \A n \in Nodes : /\ n \in joins /\ worker[n] # "none" => stage[n] \in Working
                   /\ n \in joins /\ running[n] => stage[n] \in {"started", "stopped"}
                   /\ running[n] => stage[n] \notin {"new", "constructed", "waiting", "joining"}

\* A worker whose queue has been stopped is being joined, and until then its
\* queue exists.
Stopping ==
  \A n \in Nodes : worker[n] # "none" \/ running[n] =>
    /\ ~running[n] => stage[n] \in {"waiting", "joining"}
    /\ stage[n] \notin {"new", "constructed"}
    /\ {"IQueue", "INode"} \subseteq parts[n]

\* Once a node is destroyed all have been waited for, and there is one at a time.
Teardowns ==
  /\ \A n, m \in Nodes : stage[n] \in Gone => stage[m] \in {"waited"} \cup Gone
  /\ \A n, m \in Nodes : parts[n] \notin {{}, AllParts} /\ parts[m] \notin {{}, AllParts} => n = m

\* Nothing is sent to a node before it exists.
Sending == \A n \in Nodes : worker[n] = "sending" => stage[target[n]] # "new"

\* The identifiers agree, and there is one from start() on.
Named ==
  \A n \in Nodes : /\ id[n] \in {NoId, n}
                   /\ stage[n] # "new" => outputId[n] = id[n]
                   /\ stage[n] \notin {"new", "constructed"} => id[n] = n

IInv == TypeOK /\ Whole /\ Employed /\ Stopping /\ Teardowns /\ Sending /\ Named /\ LinesHaveId

-----------------------------------------------------------------------------

LEMMA TypeInit == Init => TypeOK
BY NodeLifecycleAssumption DEF Init, TypeOK, Stages, Gone, Living, Lines

\* The manager's steps and those of the workers, one after the other, keep the types.
LEMMA TypeNext == TypeOK /\ [Next]_vars => TypeOK'
<1> USE NodeLifecycleAssumption DEF TypeOK, Stages, Living, Gone, Lines, AllParts
<1>1. SUFFICES ASSUME TypeOK, [Next]_vars PROVE TypeOK'
  OBVIOUS
<1>2. CASE UNCHANGED vars
  BY <1>1, <1>2 DEF vars, setup, identity, queues
<1>3. ASSUME NEW n \in Nodes, Manager(n) PROVE TypeOK'
  <2>1. CASE Construct(n)
    BY <1>1, <2>1 DEF Construct, Printed, setup, identity, queues
  <2>2. CASE setId(n)
    BY <1>1, <2>2 DEF setId, setup, identity, queues
  <2>3. CASE setLog(n)
    BY <1>1, <2>3 DEF setLog, setup, identity, queues
  <2>4. CASE setOutput(n)
    BY <1>1, <2>4 DEF setOutput, setup, identity, queues
  <2>5. CASE start(n)
    BY <1>1, <2>5 DEF start, Ready, Printed, setup, identity, queues
  <2>6. CASE Refuse(n)
    BY <1>1, <2>6 DEF Refuse, Ready, Printed, setup, identity, queues
  <2>7. CASE stop(n)
    BY <1>1, <2>7 DEF stop, setup, identity, queues
  <2> QED  BY <1>3, <2>1, <2>2, <2>3, <2>4, <2>5, <2>6, <2>7 DEF Manager
<1>4. ASSUME NEW n \in Nodes, Teardown(n) PROVE TypeOK'
  <2>1. CASE waitForStop(n)
    BY <1>1, <2>1 DEF waitForStop, setup, identity, queues
  <2>2. CASE Join(n)
    BY <1>1, <2>2 DEF Join, setup, identity, queues
  <2>3. CASE Destroy(n)
    BY <1>1, <2>3 DEF Destroy, setup, identity, queues
  <2>4. CASE stopLate(n)
    BY <1>1, <2>4 DEF stopLate, setup, identity, queues
  <2>5. CASE DestroyIQueue(n)
    BY <1>1, <2>5 DEF DestroyIQueue, setup, identity, queues
  <2>6. CASE DestroyINode(n)
    BY <1>1, <2>6 DEF DestroyINode, setup, identity, queues
  <2> QED  BY <1>4, <2>1, <2>2, <2>3, <2>4, <2>5, <2>6 DEF Teardown
<1>5. ASSUME NEW n \in Nodes, Worker(n) PROVE TypeOK'
  <2>1. CASE Take(n)
    BY <1>1, <2>1 DEF Take, setup, identity, queues
  <2>2. CASE Finish(n)
    BY <1>1, <2>2 DEF Finish, Printed, Logged, setup, identity, queues
  <2>3. ASSUME NEW m \in Nodes, output(n, m) PROVE TypeOK'
    BY <1>1, <2>3 DEF output, setup, identity, queues
  <2>4. CASE Crash(n)
    BY <1>1, <2>4 DEF Crash, setup, identity, queues
  <2>5. CASE Store(n)
    BY <1>1, <2>5 DEF Store, Sent, setup, identity, queues
  <2>6. CASE DropFull(n)
    BY <1>1, <2>6 DEF DropFull, Printed, Sent, setup, identity, queues
  <2>7. CASE DropStopped(n)
    BY <1>1, <2>7 DEF DropStopped, Sent, setup, identity, queues
  <2>8. CASE WorkerReturn(n)
    BY <1>1, <2>8 DEF WorkerReturn, setup, identity, queues
  <2> QED  BY <1>5, <2>1, <2>2, <2>3, <2>4, <2>5, <2>6, <2>7, <2>8 DEF Worker
<1>6. ASSUME NEW n \in Nodes, Event(n) PROVE TypeOK'
  <2>1. count' \in [Nodes -> 0 .. BufferSize]
    BY <1>1, <1>6 DEF Event
  <2>2. line' \in Lines
    BY <1>1, <1>6 DEF Event, Printed
  <2> QED  BY <1>1, <1>6, <2>1, <2>2 DEF Event, setup, identity, queues
<1> QED  BY <1>1, <1>2, <1>3, <1>4, <1>5, <1>6 DEF Next

LEMMA InvInit == Init => IInv
<1> SUFFICES ASSUME Init PROVE IInv
  OBVIOUS
<1> USE DEF Init, Living, Gone, Working
<1>1. TypeOK
  BY TypeInit
<1>2. Whole /\ Employed /\ Stopping /\ Teardowns /\ Sending
  BY DEF Whole, Employed, Stopping, Teardowns, Sending
<1>3. Named /\ LinesHaveId
  BY DEF Named, LinesHaveId
<1> QED  BY <1>1, <1>2, <1>3 DEF IInv

\* The sets of parts that the destructors leave.
LEMMA PartsDiffer ==
  /\ AllParts \ {"derived"} = {"IQueue", "INode"}
  /\ {"IQueue", "INode"} \ {"IQueue"} = {"INode"}
  /\ {"IQueue", "INode"} \notin {{}, AllParts} /\ {"INode"} \notin {{}, AllParts}
  /\ {"IQueue", "INode"} # {"INode"}
BY DEF AllParts

\* A node that lacks a part is being destroyed.
LEMMA PartlyGone ==
  ASSUME IInv, NEW n \in Nodes, parts[n] \notin {{}, AllParts}
  PROVE  stage[n] \in Gone /\ stage[n] \notin Living \cup {"new"}
<1>1. stage[n] \notin Living \cup {"new"}
  BY DEF IInv, Whole
<1> QED  BY <1>1 DEF IInv, TypeOK, Stages

LEMMA WholeNext == IInv /\ [Next]_vars => Whole'
<1> SUFFICES ASSUME IInv, [Next]_vars PROVE Whole'
  OBVIOUS
<1> USE NodeLifecycleAssumption DEF IInv, TypeOK, Whole, Stages, Living, Gone, AllParts
<1>1. CASE UNCHANGED vars
  BY <1>1 DEF vars, setup, identity, queues
<1>2. ASSUME NEW n \in Nodes, Manager(n) PROVE Whole'
  <2>1. CASE Construct(n)
    BY <2>1 DEF Construct, Printed, setup, identity, queues
  <2>2. CASE start(n)
    BY <2>2 DEF start, Ready, Printed, setup, identity, queues
  <2>3. CASE Refuse(n)
    BY <2>3 DEF Refuse, Ready, Printed, setup, identity, queues
  <2>4. CASE stop(n)
    BY <2>4 DEF stop, setup, identity, queues
  <2>5. CASE setId(n) \/ setLog(n) \/ setOutput(n)
    BY <2>5 DEF setId, setLog, setOutput, setup, identity, queues
  <2> QED  BY <1>2, <2>1, <2>2, <2>3, <2>4, <2>5 DEF Manager
<1>3. ASSUME NEW n \in Nodes, Teardown(n) PROVE Whole'
  <2>1. CASE waitForStop(n)
    BY <2>1 DEF waitForStop, setup, identity, queues
  <2>2. CASE Join(n)
    BY <2>2 DEF Join, setup, identity, queues
  <2>3. CASE Destroy(n)
    BY <2>3 DEF Destroy, setup, identity, queues
  <2>4. CASE stopLate(n)
    BY <2>4 DEF stopLate, setup, identity, queues
  <2>5. CASE DestroyIQueue(n)
    BY <2>5 DEF DestroyIQueue, setup, identity, queues
  <2>6. CASE DestroyINode(n)
    <3>1. stage[n] = "destroyed"
      BY <2>6, PartlyGone, PartsDiffer DEF DestroyINode
    <3> QED  BY <2>6, <3>1 DEF DestroyINode, setup, identity, queues
  <2> QED  BY <1>3, <2>1, <2>2, <2>3, <2>4, <2>5, <2>6 DEF Teardown
<1>4. ASSUME NEW n \in Nodes, Worker(n) PROVE Whole'
  BY <1>4 DEF Worker, Take, Finish, output, Crash, Store, DropFull, DropStopped, WorkerReturn, Sent, setup, identity, queues
<1>5. ASSUME NEW n \in Nodes, Event(n) PROVE Whole'
  BY <1>5 DEF Event, setup, identity, queues
<1> QED  BY <1>1, <1>2, <1>3, <1>4, <1>5 DEF Next

LEMMA EmployedNext == IInv /\ [Next]_vars => Employed'
<1> SUFFICES ASSUME IInv, [Next]_vars PROVE Employed'
  OBVIOUS
<1> USE NodeLifecycleAssumption DEF IInv, TypeOK, Employed, Whole, Stages, Working, Living, Gone
<1>1. CASE UNCHANGED vars
  BY <1>1 DEF vars, setup, identity, queues
<1>2. ASSUME NEW n \in Nodes, Manager(n) PROVE Employed'
  <2>1. CASE Construct(n)
    BY <2>1 DEF Construct, Printed, setup, identity, queues
  <2>2. CASE start(n)
    BY <2>2 DEF start, Ready, Printed, setup, identity, queues
  <2>3. CASE Refuse(n)
    BY <2>3 DEF Refuse, Ready, Printed, setup, identity, queues
  <2>4. CASE stop(n)
    BY <2>4 DEF stop, setup, identity, queues
  <2>5. CASE setId(n) \/ setLog(n) \/ setOutput(n)
    BY <2>5 DEF setId, setLog, setOutput, setup, identity, queues
  <2> QED  BY <1>2, <2>1, <2>2, <2>3, <2>4, <2>5 DEF Manager
<1>3. ASSUME NEW n \in Nodes, Teardown(n) PROVE Employed'
  <2>1. CASE waitForStop(n)
    <3>1. CASE n \in joins
      <4>1. stage' = [stage EXCEPT ![n] = "waiting"] /\ running' = [running EXCEPT ![n] = FALSE]
        BY <2>1, <3>1 DEF waitForStop
      <4>2. UNCHANGED <<joins, worker>>
        BY <2>1 DEF waitForStop, setup
      <4> QED  BY <3>1, <4>1, <4>2
    <3>2. CASE n \notin joins
      <4>1. stage' = [stage EXCEPT ![n] = "waited"] /\ running' = running
        BY <2>1, <3>2 DEF waitForStop
      <4>2. UNCHANGED <<joins, worker>> /\ stage[n] = "stopped"
        BY <2>1 DEF waitForStop, setup
      <4> QED  BY <3>2, <4>1, <4>2
    <3> QED  BY <3>1, <3>2
  <2>2. CASE Join(n)
    BY <2>2 DEF Join, setup, identity, queues
  <2>3. CASE Destroy(n)
    BY <2>3 DEF Destroy, setup, identity, queues
  <2>4. CASE stopLate(n)
    <3>1. n \notin joins \/ worker[n] = "none"
      BY <2>4, PartlyGone, PartsDiffer DEF stopLate
    <3> QED  BY <2>4, <3>1 DEF stopLate, setup, identity, queues
  <2>5. CASE DestroyIQueue(n)
    <3>1. n \notin joins \/ worker[n] = "none"
      BY <2>5, PartlyGone, PartsDiffer DEF DestroyIQueue
    <3> QED  BY <2>5, <3>1 DEF DestroyIQueue, setup, identity, queues
  <2>6. CASE DestroyINode(n)
    BY <2>6 DEF DestroyINode, setup, identity, queues
  <2> QED  BY <1>3, <2>1, <2>2, <2>3, <2>4, <2>5, <2>6 DEF Teardown
<1>4. ASSUME NEW n \in Nodes, Worker(n) PROVE Employed'
  <2>1. CASE Take(n)
    BY <2>1 DEF Take, setup, identity, queues
  <2>2. CASE Finish(n)
    BY <2>2 DEF Finish, Printed, Logged, setup, identity, queues
  <2>3. ASSUME NEW m \in Nodes, output(n, m) PROVE Employed'
    BY <2>3 DEF output, setup, identity, queues
  <2>4. CASE Crash(n)
    BY <2>4 DEF Crash, setup, identity, queues
  <2>5. CASE Store(n)
    BY <2>5 DEF Store, Sent, setup, identity, queues
  <2>6. CASE DropFull(n)
    BY <2>6 DEF DropFull, Printed, Sent, setup, identity, queues
  <2>7. CASE DropStopped(n)
    BY <2>7 DEF DropStopped, Sent, setup, identity, queues
  <2>8. CASE WorkerReturn(n)
    BY <2>8 DEF WorkerReturn, setup, identity, queues
  <2> QED  BY <1>4, <2>1, <2>2, <2>3, <2>4, <2>5, <2>6, <2>7, <2>8 DEF Worker
<1>5. ASSUME NEW n \in Nodes, Event(n) PROVE Employed'
  BY <1>5 DEF Event, setup, identity, queues
<1> QED  BY <1>1, <1>2, <1>3, <1>4, <1>5 DEF Next

LEMMA StoppingNext == IInv /\ [Next]_vars => Stopping'
<1> SUFFICES ASSUME IInv, [Next]_vars PROVE Stopping'
  OBVIOUS
<1> USE NodeLifecycleAssumption DEF IInv, TypeOK, Stopping, Employed, Whole, Stages, Living, Gone, AllParts
<1>1. CASE UNCHANGED vars
  BY <1>1 DEF vars, setup, identity, queues
<1>2. ASSUME NEW n \in Nodes, Manager(n) PROVE Stopping'
  <2>1. CASE Construct(n)
    BY <2>1 DEF Construct, Printed, setup, identity, queues
  <2>2. CASE start(n)
    BY <2>2 DEF start, Ready, Printed, setup, identity, queues
  <2>3. CASE Refuse(n)
    BY <2>3 DEF Refuse, Ready, Printed, setup, identity, queues
  <2>4. CASE stop(n)
    BY <2>4 DEF stop, setup, identity, queues
  <2>5. CASE setId(n) \/ setLog(n) \/ setOutput(n)
    BY <2>5 DEF setId, setLog, setOutput, setup, identity, queues
  <2> QED  BY <1>2, <2>1, <2>2, <2>3, <2>4, <2>5 DEF Manager
<1>3. ASSUME NEW n \in Nodes, Teardown(n) PROVE Stopping'
  <2>1. CASE waitForStop(n)
    BY <2>1 DEF waitForStop, setup, identity, queues
  <2>2. CASE Join(n)
    BY <2>2 DEF Join, setup, identity, queues
  <2>3. CASE Destroy(n)
    BY <2>3 DEF Destroy, setup, identity, queues
  <2>4. CASE stopLate(n)
    BY <2>4 DEF stopLate, setup, identity, queues
  <2>5. CASE DestroyIQueue(n)
    <3>1. worker[n] = "none"
      BY <2>5, PartlyGone, PartsDiffer DEF DestroyIQueue
    <3> QED  BY <2>5, <3>1 DEF DestroyIQueue, setup, identity, queues
  <2>6. CASE DestroyINode(n)
    BY <2>6 DEF DestroyINode, setup, identity, queues
  <2> QED  BY <1>3, <2>1, <2>2, <2>3, <2>4, <2>5, <2>6 DEF Teardown
<1>4. ASSUME NEW n \in Nodes, Worker(n) PROVE Stopping'
  <2>1. CASE Take(n)
    BY <2>1 DEF Take, setup, identity, queues
  <2>2. CASE Finish(n)
    BY <2>2 DEF Finish, Printed, Logged, setup, identity, queues
  <2>3. ASSUME NEW m \in Nodes, output(n, m) PROVE Stopping'
    BY <2>3 DEF output, setup, identity, queues
  <2>4. CASE Crash(n)
    BY <2>4 DEF Crash, setup, identity, queues
  <2>5. CASE Store(n)
    BY <2>5 DEF Store, Sent, setup, identity, queues
  <2>6. CASE DropFull(n)
    BY <2>6 DEF DropFull, Printed, Sent, setup, identity, queues
  <2>7. CASE DropStopped(n)
    BY <2>7 DEF DropStopped, Sent, setup, identity, queues
  <2>8. CASE WorkerReturn(n)
    BY <2>8 DEF WorkerReturn, setup, identity, queues
  <2> QED  BY <1>4, <2>1, <2>2, <2>3, <2>4, <2>5, <2>6, <2>7, <2>8 DEF Worker
<1>5. ASSUME NEW n \in Nodes, Event(n) PROVE Stopping'
  BY <1>5 DEF Event, setup, identity, queues
<1> QED  BY <1>1, <1>2, <1>3, <1>4, <1>5 DEF Next

LEMMA TeardownsNext == IInv /\ [Next]_vars => Teardowns'
<1> SUFFICES ASSUME IInv, [Next]_vars PROVE Teardowns'
  OBVIOUS
<1>1. TypeOK /\ Teardowns
  BY DEF IInv
<1>2. ASSUME UNCHANGED <<stage, parts>> PROVE Teardowns'
  BY <1>1, <1>2 DEF Teardowns
<1>3. ASSUME NEW n \in Nodes, NEW s \in Stages \ Gone, stage[n] \notin {"waited"} \cup Gone,
             stage' = [stage EXCEPT ![n] = s], UNCHANGED parts
      PROVE  Teardowns'
  <2>1. \A m \in Nodes : stage'[m] \notin Gone
    BY <1>1, <1>3 DEF Teardowns, TypeOK
  <2> QED  BY <1>1, <1>3, <2>1 DEF Teardowns
<1>4. ASSUME NEW n \in Nodes, parts[n] \notin {{}, AllParts}, NEW s \in Gone, NEW P,
             stage' = [stage EXCEPT ![n] = s], parts' = [parts EXCEPT ![n] = P]
      PROVE  Teardowns'
  <2>1. stage[n] \in Gone
    BY <1>4, PartlyGone
  <2>2. \A m \in Nodes : stage'[m] \in {"waited"} \cup Gone
    BY <1>1, <1>4, <2>1 DEF Teardowns, TypeOK
  <2>3. \A m \in Nodes : parts'[m] \notin {{}, AllParts} => m = n
    BY <1>1, <1>4 DEF Teardowns, TypeOK
  <2> QED  BY <2>2, <2>3 DEF Teardowns
<1>5. CASE UNCHANGED vars
  BY <1>2, <1>5 DEF vars
<1>6. ASSUME NEW n \in Nodes, Manager(n) PROVE Teardowns'
  <2>1. CASE Construct(n)
    <3>1. \A m \in Nodes : stage'[m] \notin Gone
      BY <1>1, <2>1 DEF Construct, TypeOK, Gone
    <3>2. \A m \in Nodes : parts[m] \in {{}, AllParts}
      BY <2>1, PartlyGone DEF Construct, Gone
    <3>3. \A m \in Nodes : parts'[m] \in {{}, AllParts}
      BY <1>1, <2>1, <3>2 DEF Construct, TypeOK
    <3> QED  BY <3>1, <3>3 DEF Teardowns
  <2>2. CASE start(n)
    BY <1>3, <2>2 DEF start, Ready, Stages, Living, Gone
  <2>3. CASE Refuse(n)
    BY <1>3, <2>3 DEF Refuse, Ready, Stages, Living, Gone
  <2>4. CASE stop(n)
    BY <1>3, <2>4 DEF stop, Stages, Living, Gone
  <2>5. CASE setId(n) \/ setLog(n) \/ setOutput(n)
    BY <1>2, <2>5 DEF setId, setLog, setOutput
  <2> QED  BY <1>6, <2>1, <2>2, <2>3, <2>4, <2>5 DEF Manager
<1>7. ASSUME NEW n \in Nodes, Teardown(n) PROVE Teardowns'
  <2>1. CASE waitForStop(n)
    BY <1>3, <2>1 DEF waitForStop, Stages, Living, Gone
  <2>2. CASE Join(n)
    BY <1>3, <2>2 DEF Join, Stages, Living, Gone
  <2>3. CASE Destroy(n)
    <3>1. \A m \in Nodes : stage'[m] \in {"waited"} \cup Gone
      BY <1>1, <2>3 DEF Destroy, TypeOK, Gone
    <3>2. \A m \in Nodes : parts'[m] \notin {{}, AllParts} => m = n
      BY <1>1, <2>3 DEF Destroy, TypeOK
    <3> QED  BY <3>1, <3>2 DEF Teardowns
  <2>4. CASE stopLate(n)
    <3>1. parts' = [parts EXCEPT ![n] = parts[n]]
      BY <1>1, <2>4 DEF stopLate, TypeOK
    <3> QED  BY <1>4, <2>4, <3>1, PartsDiffer DEF stopLate, Gone
  <2>5. CASE DestroyIQueue(n)
    <3>1. parts' = [parts EXCEPT ![n] = parts[n] \ {"IQueue"}]
      BY <2>5 DEF DestroyIQueue
    <3> QED  BY <1>4, <2>5, <3>1, PartsDiffer DEF DestroyIQueue, Gone
  <2>6. CASE DestroyINode(n)
    <3>1. stage[n] \in Gone
      BY <2>6, PartlyGone, PartsDiffer DEF DestroyINode
    <3>2. stage' = [stage EXCEPT ![n] = stage[n]]
      BY <1>1, <2>6 DEF DestroyINode, TypeOK
    <3> QED  BY <1>4, <2>6, <3>1, <3>2, PartsDiffer DEF DestroyINode
  <2> QED  BY <1>7, <2>1, <2>2, <2>3, <2>4, <2>5, <2>6 DEF Teardown
<1>8. ASSUME NEW n \in Nodes, Worker(n) PROVE Teardowns'
  BY <1>2, <1>8 DEF Worker, Take, Finish, output, Crash, Store, DropFull, DropStopped, WorkerReturn
<1>9. ASSUME NEW n \in Nodes, Event(n) PROVE Teardowns'
  BY <1>2, <1>9 DEF Event
<1> QED  BY <1>5, <1>6, <1>7, <1>8, <1>9 DEF Next

LEMMA SendingNext == IInv /\ [Next]_vars => Sending'
<1> SUFFICES ASSUME IInv, [Next]_vars PROVE Sending'
  OBVIOUS
<1> USE NodeLifecycleAssumption DEF IInv, TypeOK, Sending, Stages, Living, Gone
<1>1. CASE UNCHANGED vars
  BY <1>1 DEF vars, setup, identity, queues
<1>2. ASSUME NEW n \in Nodes, Manager(n) PROVE Sending'
  <2>1. CASE Construct(n)
    BY <2>1 DEF Construct, Printed, setup, identity, queues
  <2>2. CASE start(n)
    BY <2>2 DEF start, Ready, Printed, setup, identity, queues
  <2>3. CASE Refuse(n)
    BY <2>3 DEF Refuse, Ready, Printed, setup, identity, queues
  <2>4. CASE stop(n)
    BY <2>4 DEF stop, setup, identity, queues
  <2>5. CASE setId(n) \/ setLog(n) \/ setOutput(n)
    BY <2>5 DEF setId, setLog, setOutput, setup, identity, queues
  <2> QED  BY <1>2, <2>1, <2>2, <2>3, <2>4, <2>5 DEF Manager
<1>3. ASSUME NEW n \in Nodes, Teardown(n) PROVE Sending'
  <2>1. CASE waitForStop(n)
    BY <2>1 DEF waitForStop, setup, identity, queues
  <2>2. CASE Join(n)
    BY <2>2 DEF Join, setup, identity, queues
  <2>3. CASE Destroy(n)
    BY <2>3 DEF Destroy, setup, identity, queues
  <2>4. CASE stopLate(n)
    BY <2>4 DEF stopLate, setup, identity, queues
  <2>5. CASE DestroyIQueue(n)
    BY <2>5 DEF DestroyIQueue, setup, identity, queues
  <2>6. CASE DestroyINode(n)
    BY <2>6 DEF DestroyINode, setup, identity, queues
  <2> QED  BY <1>3, <2>1, <2>2, <2>3, <2>4, <2>5, <2>6 DEF Teardown
<1>4. ASSUME NEW n \in Nodes, Worker(n) PROVE Sending'
  <2>1. CASE Take(n)
    BY <2>1 DEF Take, setup, identity, queues
  <2>2. CASE Finish(n)
    BY <2>2 DEF Finish, Printed, Logged, setup, identity, queues
  <2>3. ASSUME NEW m \in Nodes, output(n, m) PROVE Sending'
    BY <2>3 DEF output, setup, identity, queues
  <2>4. CASE Crash(n)
    BY <2>4 DEF Crash, setup, identity, queues
  <2>5. CASE Store(n)
    BY <2>5 DEF Store, Sent, setup, identity, queues
  <2>6. CASE DropFull(n)
    BY <2>6 DEF DropFull, Printed, Sent, setup, identity, queues
  <2>7. CASE DropStopped(n)
    BY <2>7 DEF DropStopped, Sent, setup, identity, queues
  <2>8. CASE WorkerReturn(n)
    BY <2>8 DEF WorkerReturn, setup, identity, queues
  <2> QED  BY <1>4, <2>1, <2>2, <2>3, <2>4, <2>5, <2>6, <2>7, <2>8 DEF Worker
<1>5. ASSUME NEW n \in Nodes, Event(n) PROVE Sending'
  BY <1>5 DEF Event, setup, identity, queues
<1> QED  BY <1>1, <1>2, <1>3, <1>4, <1>5 DEF Next

LEMMA NamedNext == IInv /\ [Next]_vars => Named'
<1> SUFFICES ASSUME IInv, [Next]_vars PROVE Named'
  OBVIOUS
<1> USE NodeLifecycleAssumption DEF IInv, TypeOK, Named, Stages, Living, Gone
<1>1. CASE UNCHANGED vars
  BY <1>1 DEF vars, setup, identity, queues
<1>2. ASSUME NEW n \in Nodes, Manager(n) PROVE Named'
  <2>1. CASE Construct(n)
    BY <2>1 DEF Construct, Printed, setup, identity, queues
  <2>2. CASE setId(n)
    BY <2>2 DEF setId, setup, identity, queues
  <2>3. CASE start(n)
    BY <2>3 DEF start, Ready, Printed, setup, identity, queues
  <2>4. CASE Refuse(n)
    BY <2>4 DEF Refuse, Ready, Printed, setup, identity, queues
  <2>5. CASE stop(n)
    BY <2>5 DEF stop, setup, identity, queues
  <2>6. CASE setLog(n) \/ setOutput(n)
    BY <2>6 DEF setLog, setOutput, setup, identity, queues
  <2> QED  BY <1>2, <2>1, <2>2, <2>3, <2>4, <2>5, <2>6 DEF Manager
<1>3. ASSUME NEW n \in Nodes, Teardown(n) PROVE Named'
  <2>1. CASE waitForStop(n)
    BY <2>1 DEF waitForStop, setup, identity, queues
  <2>2. CASE Join(n)
    BY <2>2 DEF Join, setup, identity, queues
  <2>3. CASE Destroy(n)
    BY <2>3 DEF Destroy, setup, identity, queues
  <2>4. CASE stopLate(n)
    <3>1. stage[n] \in Gone
      BY <2>4, PartlyGone, PartsDiffer DEF stopLate
    <3> QED  BY <2>4, <3>1 DEF stopLate, setup, identity, queues
  <2>5. CASE DestroyIQueue(n)
    <3>1. stage[n] \in Gone
      BY <2>5, PartlyGone, PartsDiffer DEF DestroyIQueue
    <3> QED  BY <2>5, <3>1 DEF DestroyIQueue, setup, identity, queues
  <2>6. CASE DestroyINode(n)
    BY <2>6 DEF DestroyINode, setup, identity, queues
  <2> QED  BY <1>3, <2>1, <2>2, <2>3, <2>4, <2>5, <2>6 DEF Teardown
<1>4. ASSUME NEW n \in Nodes, Worker(n) PROVE Named'
  BY <1>4 DEF Worker, Take, Finish, output, Crash, Store, DropFull, DropStopped, WorkerReturn, Sent, setup, identity, queues
<1>5. ASSUME NEW n \in Nodes, Event(n) PROVE Named'
  BY <1>5 DEF Event, setup, identity, queues
<1> QED  BY <1>1, <1>2, <1>3, <1>4, <1>5 DEF Next

LEMMA LinesHaveIdNext == IInv /\ [Next]_vars => LinesHaveId'
<1> SUFFICES ASSUME IInv, [Next]_vars PROVE LinesHaveId'
  OBVIOUS
<1> USE NodeLifecycleAssumption DEF IInv, TypeOK, LinesHaveId, Named, Whole, Stopping
<1>1. CASE UNCHANGED vars
  BY <1>1 DEF vars, setup, identity, queues
<1>2. ASSUME NEW n \in Nodes, Manager(n) PROVE LinesHaveId'
  <2>1. CASE Construct(n)
    BY <2>1 DEF Construct, Printed, setup, identity, queues
  <2>2. CASE start(n)
    BY <2>2 DEF start, Ready, Printed, setup, identity, queues
  <2>3. CASE Refuse(n)
    BY <2>3 DEF Refuse, Ready, Printed, setup, identity, queues
  <2>4. CASE setId(n) \/ setLog(n) \/ setOutput(n) \/ stop(n)
    BY <2>4 DEF setId, setLog, setOutput, stop, setup, identity, queues
  <2> QED  BY <1>2, <2>1, <2>2, <2>3, <2>4 DEF Manager
<1>3. ASSUME NEW n \in Nodes, Teardown(n) PROVE LinesHaveId'
  BY <1>3 DEF Teardown, waitForStop, Join, Destroy, stopLate, DestroyIQueue, DestroyINode, setup, identity, queues
<1>4. ASSUME NEW n \in Nodes, Worker(n) PROVE LinesHaveId'
  <2>1. CASE Finish(n)
    BY <2>1 DEF Finish, Printed, Logged, setup, identity, queues
  <2>2. CASE DropFull(n)
    BY <2>2 DEF DropFull, Printed, Sent, setup, identity, queues
  <2>3. CASE Take(n) \/ Crash(n) \/ Store(n) \/ DropStopped(n) \/ WorkerReturn(n) \/ \E m \in Nodes : output(n, m)
    BY <2>3 DEF Take, output, Crash, Store, Sent, DropStopped, WorkerReturn, setup, identity, queues
  <2> QED  BY <1>4, <2>1, <2>2, <2>3 DEF Worker
<1>5. ASSUME NEW n \in Nodes, Event(n) PROVE LinesHaveId'
  <2>1. outputId[n] = n
    BY <1>5 DEF Event
  <2>2. line' \in {<<>>, <<n, outputId[n]>>}
    BY <1>5 DEF Event, Printed
  <2> QED  BY <2>1, <2>2
<1> QED  BY <1>1, <1>2, <1>3, <1>4, <1>5 DEF Next

LEMMA InvNext == IInv /\ [Next]_vars => IInv'
BY TypeNext, WholeNext, EmployedNext, StoppingNext, TeardownsNext, SendingNext, NamedNext, LinesHaveIdNext DEF IInv

LEMMA Invariance == Spec => []IInv
BY InvInit, InvNext, PTL DEF Spec

\* No worker outlives its queue and log, and that of a node that joins its threads
\* finds its node and the one it sends to whole.
THEOREM NothingGoneIsUsed == Spec => []NothingGone
<1>1. ASSUME IInv PROVE NothingGone
  <2> SUFFICES ASSUME NEW n \in Nodes, worker[n] # "none"
               PROVE  /\ {"IQueue", "INode"} \subseteq parts[n]
                      /\ n \in joins => /\ parts[n] = AllParts
                                        /\ worker[n] = "sending" => parts[target[n]] = AllParts
    BY DEF NothingGone
  <2>1. {"IQueue", "INode"} \subseteq parts[n]
    BY <1>1 DEF IInv, Stopping
  <2>2. ASSUME n \in joins PROVE parts[n] = AllParts
    BY <1>1, <2>2 DEF IInv, Employed, Whole, Living, Working
  <2>3. ASSUME n \in joins, worker[n] = "sending" PROVE parts[target[n]] = AllParts
    <3>1. target[n] \in Nodes /\ stage[target[n]] # "new"
      BY <1>1, <2>3 DEF IInv, TypeOK, Sending
    <3>2. stage[n] \in Working
      BY <1>1, <2>3 DEF IInv, Employed
    <3>3. stage[target[n]] \notin Gone
      BY <1>1, <3>1, <3>2 DEF IInv, Teardowns, Working, Gone
    <3>4. stage[target[n]] \in Living
      BY <1>1, <3>1, <3>3 DEF IInv, TypeOK, Stages
    <3> QED  BY <1>1, <3>1, <3>4 DEF IInv, Whole
  <2> QED  BY <2>1, <2>2, <2>3
<1> QED  BY <1>1, Invariance, PTL

\* Every line has the identifier of its node.
THEOREM EveryLineHasId == Spec => []LinesHaveId
<1>1. IInv => LinesHaveId
  BY DEF IInv
<1> QED  BY <1>1, Invariance, PTL

-----------------------------------------------------------------------------
(* What holds the manager up *)

\* The parts of HeldUp, for the node that the manager waits for and a set of nodes.
Held(n, S) ==
  /\ stage[n] \in {"waiting", "joining"}
  /\ \A m \in S \cup {n} : worker[m] = "sending" /\ target[m] \in S
  /\ \A m \in S : running[m] /\ count[m] = BufferSize

\* A worker changes nothing of other workers, and leaves its own thread only in
\* WorkerReturn.
LEMMA WorkerAlone ==
  ASSUME TypeOK, NEW k \in Nodes, Worker(k)
  PROVE  /\ \A m \in Nodes : m # k => worker'[m] = worker[m] /\ target'[m] = target[m]
         /\ worker'[k] # "none" \/ ~running[k]
         /\ running' = running /\ stage' = stage /\ waits' = waits
<1> USE DEF TypeOK, Sent, setup
<1>1. CASE Take(k)
  BY <1>1 DEF Take
<1>2. CASE Finish(k)
  BY <1>2 DEF Finish
<1>3. ASSUME NEW m \in Nodes, output(k, m)
      PROVE  /\ \A l \in Nodes : l # k => worker'[l] = worker[l] /\ target'[l] = target[l]
             /\ worker'[k] # "none" /\ running' = running /\ stage' = stage /\ waits' = waits
  BY <1>3 DEF output
<1>4. CASE Store(k)
  BY <1>4 DEF Store
<1>5. CASE DropFull(k) \/ DropStopped(k)
  BY <1>5 DEF DropFull, DropStopped
<1>6. CASE WorkerReturn(k)
  BY <1>6 DEF WorkerReturn
<1>7. CASE Crash(k)
  BY <1>7 DEF Crash
<1> QED  BY <1>1, <1>2, <1>3, <1>4, <1>5, <1>6, <1>7 DEF Worker

\* While the manager waits for n, the nodes whose queues run are whole.
LEMMA RunningWhole ==
  ASSUME IInv, NEW n \in Nodes, stage[n] \in {"waiting", "joining"}, NEW m \in Nodes, running[m]
  PROVE  parts[m] = AllParts /\ stage[m] \notin {"new", "constructed"}
<1>1. stage[m] \notin {"new", "constructed", "joining"}
  BY DEF IInv, Employed
<1>2. m # n
  BY DEF IInv, Employed
<1>3. CASE stage[m] = "destroyed"
  <2>1. stage[n] = "joining"
    BY <1>3 DEF IInv, Teardowns, Gone
  <2>2. parts[n] = {"IQueue", "INode"}
    BY <2>1 DEF IInv, Whole
  <2>3. {"IQueue", "INode"} \subseteq parts[m]
    BY DEF IInv, Stopping
  <2>4. parts[n] \notin {{}, AllParts} /\ parts[m] # {}
    BY <2>2, <2>3 DEF AllParts
  <2> QED  BY <1>1, <1>2, <2>4 DEF IInv, Teardowns
<1>4. CASE stage[m] # "destroyed"
  <2>1. stage[m] \in Living
    BY <1>1, <1>4 DEF IInv, TypeOK, Stages, Gone
  <2> QED  BY <1>1, <2>1 DEF IInv, Whole
<1> QED  BY <1>3, <1>4

\* A node whose own part is gone while the manager waits for n is n, whose worker
\* is being joined.
LEMMA NotDestroyed ==
  ASSUME IInv, NEW n \in Nodes, stage[n] \in {"waiting", "joining"}, worker[n] # "none", NEW k \in Nodes
  PROVE  ~stopLate(k) /\ ~DestroyIQueue(k)
<1>1. ~stopLate(k)
  BY RunningWhole DEF stopLate, AllParts
<1>2. ASSUME DestroyIQueue(k) PROVE FALSE
  <2>1. parts[k] = {"IQueue", "INode"} /\ parts[k] \notin {{}, AllParts}
    BY <1>2, PartsDiffer DEF DestroyIQueue
  <2>2. stage[k] \in Gone
    BY <2>1 DEF IInv, Whole, TypeOK, Stages
  <2>3. stage[n] = "joining"
    BY <2>2 DEF IInv, Teardowns, Gone
  <2>4. parts[n] \notin {{}, AllParts}
    BY <2>3 DEF IInv, Whole, AllParts
  <2>5. k = n
    BY <2>1, <2>4 DEF IInv, Teardowns
  <2> QED  BY <1>2, <2>3, <2>5 DEF DestroyIQueue
<1> QED  BY <1>1, <1>2

\* A worker that sends to a full queue and waits does nothing, and the manager
\* does nothing to its queue.
LEMMA HeldOn ==
  ASSUME IInv, [Next]_vars, NEW n \in Nodes, NEW S \in SUBSET (Nodes \cap waits), Held(n, S)
  PROVE  waits' = waits /\ Held(n, S)'
<1> USE NodeLifecycleAssumption DEF Held
<1>1. TypeOK /\ \A m \in S \cup {n} : m \in Nodes /\ stage[m] \notin {"new", "constructed"}
  BY DEF IInv, Stopping
<1>2. CASE UNCHANGED vars
  BY <1>2 DEF vars, setup, queues
<1>3. ASSUME NEW k \in Nodes, Manager(k) PROVE waits' = waits /\ Held(n, S)'
  <2>1. CASE Construct(k)
    BY <1>1, <2>1 DEF Construct, TypeOK, setup, queues
  <2>2. CASE setId(k) \/ setLog(k) \/ setOutput(k)
    BY <2>2 DEF setId, setLog, setOutput, setup, queues
  <2>3. CASE start(k)
    <3>1. k \notin S \cup {n}
      BY <1>1, <2>3 DEF start, Ready
    <3> QED  BY <1>1, <2>3, <3>1 DEF start, TypeOK, setup
  <2>4. CASE Refuse(k)
    BY <1>1, <2>4 DEF Refuse, Ready, TypeOK, setup, queues
  <2>5. CASE stop(k)
    BY <1>1, <2>5 DEF stop, TypeOK, setup, queues
  <2> QED  BY <1>3, <2>1, <2>2, <2>3, <2>4, <2>5 DEF Manager
<1>4. ASSUME NEW k \in Nodes, Teardown(k) PROVE waits' = waits /\ Held(n, S)'
  <2>1. CASE waitForStop(k)
    BY <2>1 DEF waitForStop
  <2>2. CASE Join(k)
    <3>1. k \notin S \cup {n}
      BY <2>2 DEF Join
    <3> QED  BY <1>1, <2>2, <3>1 DEF Join, TypeOK, setup
  <2>3. CASE Destroy(k)
    BY <2>3 DEF Destroy
  <2>4. CASE stopLate(k) \/ DestroyIQueue(k)
    BY <2>4, NotDestroyed
  <2>5. CASE DestroyINode(k)
    BY <2>5 DEF DestroyINode, setup, queues
  <2> QED  BY <1>4, <2>1, <2>2, <2>3, <2>4, <2>5 DEF Teardown
<1>5. ASSUME NEW k \in Nodes, Event(k) PROVE waits' = waits /\ Held(n, S)'
  <2>1. k \in S => UNCHANGED count
    BY <1>1, <1>5 DEF Event
  <2>2. \A m \in Nodes : m # k => count'[m] = count[m]
    BY <1>1, <1>5 DEF Event, TypeOK
  <2> QED  BY <1>1, <1>5, <2>1, <2>2 DEF Event, setup
<1>6. ASSUME NEW k \in Nodes, Worker(k) PROVE waits' = waits /\ Held(n, S)'
  <2>1. ASSUME k \in S \cup {n} PROVE FALSE
    <3>1. worker[k] = "sending" /\ target[k] \in S /\ S \subseteq waits
      BY <2>1
    <3>2. running[target[k]] /\ count[target[k]] = BufferSize
      BY <3>1
    <3>3. parts[target[k]] = AllParts
      BY <1>1, <3>1, <3>2, RunningWhole
    <3> QED  BY <1>6, <3>1, <3>2, <3>3
             DEF Worker, Take, Finish, output, Crash, Store, DropFull, DropStopped, WorkerReturn
  <2>2. /\ waits' = waits /\ stage' = stage /\ running' = running
        /\ \A m \in S \cup {n} : worker'[m] = worker[m] /\ target'[m] = target[m]
    <3>1. waits' = waits /\ stage' = stage /\ running' = running
      BY <1>1, <1>6, WorkerAlone
    <3>2. \A m \in Nodes : m # k => worker'[m] = worker[m] /\ target'[m] = target[m]
      BY <1>1, <1>6, WorkerAlone
    <3> QED  BY <1>1, <2>1, <3>1, <3>2
  <2>3. \A m \in S : count'[m] = count[m]
    <3>1. CASE Take(k)
      BY <1>1, <2>1, <3>1 DEF Take, TypeOK
    <3>2. CASE Store(k)
      <4>1. target[k] \notin S
        BY <3>2 DEF Store
      <4> QED  BY <1>1, <3>2, <4>1 DEF Store, TypeOK
    <3> QED  BY <1>6, <3>1, <3>2 DEF Worker, Finish, output, Crash, DropFull, DropStopped, WorkerReturn
  <2> QED  BY <1>1, <2>2, <2>3
<1> QED  BY <1>2, <1>3, <1>4, <1>5, <1>6 DEF Next

\* Held up once, the manager is held up forever: nothing resolves the circle, whatever
\* else happens.
THEOREM HeldUpForever == Spec => [](HeldUp => []HeldUp)
<1>1. IInv /\ HeldUp /\ [Next]_vars => HeldUp'
  <2> SUFFICES ASSUME IInv, HeldUp, [Next]_vars PROVE HeldUp'
    OBVIOUS
  <2>1. PICK n \in Nodes, S \in SUBSET (Nodes \cap waits) : Held(n, S)
    BY DEF HeldUp, Held
  <2>2. waits' = waits /\ Held(n, S)'
    BY <2>1, HeldOn
  <2> QED  BY <2>2 DEF HeldUp, Held
<1> QED  BY <1>1, Invariance, PTL DEF Spec

\* The worker of n is in a call that waits for room.
Waiting(n) ==
  /\ worker[n] = "sending"
  /\ target[n] \in waits /\ running[target[n]] /\ count[target[n]] = BufferSize

\* waitForStop or the destructor of some node waits for its worker, and all
\* workers wait for room.
Standstill ==
  /\ \E n \in Nodes : stage[n] \in {"waiting", "joining"} /\ worker[n] # "none"
  /\ \A n \in Nodes : worker[n] # "none" => Waiting(n)

\* A queue that runs has a worker.
Manned == \A n \in Nodes : running[n] => worker[n] # "none"

LEMMA AlwaysManned == Spec => []Manned
<1>1. Init => Manned
  BY DEF Init, Manned
<1>2. IInv /\ Manned /\ [Next]_vars => Manned'
  <2> SUFFICES ASSUME TypeOK, Manned, [Next]_vars PROVE Manned'
    BY DEF IInv
  <2> USE DEF TypeOK, Manned
  <2>1. CASE UNCHANGED vars
    BY <2>1 DEF vars, queues
  <2>2. ASSUME NEW k \in Nodes, Manager(k) PROVE Manned'
    BY <2>2 DEF Manager, Construct, setId, setLog, setOutput, start, Refuse, stop, queues
  <2>3. ASSUME NEW k \in Nodes, Event(k) \/ Teardown(k) PROVE Manned'
    BY <2>3 DEF Event, Teardown, waitForStop, Join, Destroy, stopLate, DestroyIQueue, DestroyINode, queues
  <2>4. ASSUME NEW k \in Nodes, Worker(k) PROVE Manned'
    <3> SUFFICES ASSUME NEW m \in Nodes, running'[m] PROVE worker'[m] # "none"
      OBVIOUS
    <3>1. running[m]
      BY <2>4, WorkerAlone
    <3>2. worker[m] # "none"
      BY <3>1
    <3> QED  BY <2>4, <3>1, <3>2, WorkerAlone
  <2> QED  BY <2>1, <2>2, <2>3, <2>4 DEF Next
<1> QED  BY <1>1, <1>2, Invariance, PTL DEF Spec

\* The workers come to a standstill only by waiting for each other's queues in a
\* circle, so that HeldUp leaves nothing out.
THEOREM OnlyCirclesHoldUp == Spec => [](Standstill => HeldUp)
<1>1. IInv /\ Manned /\ Standstill => HeldUp
  <2> SUFFICES ASSUME IInv, Manned, Standstill PROVE HeldUp
    OBVIOUS
  <2> DEFINE S == {m \in Nodes \cap waits : running[m] /\ count[m] = BufferSize}
  <2>1. PICK n \in Nodes : stage[n] \in {"waiting", "joining"} /\ worker[n] # "none"
    BY DEF Standstill
  <2>2. \A m \in S \cup {n} : worker[m] # "none"
    BY <2>1 DEF Manned
  <2>3. \A m \in S \cup {n} : worker[m] = "sending" /\ target[m] \in S
    BY <2>2 DEF Standstill, Waiting, IInv, TypeOK
  <2>4. \A m \in S : running[m] /\ count[m] = BufferSize
    OBVIOUS
  <2>5. S \in SUBSET (Nodes \cap waits)
    OBVIOUS
  <2> HIDE DEF S
  <2>6. Held(n, S)
    BY <2>1, <2>3, <2>4 DEF Held
  <2> QED  BY <2>5, <2>6 DEF HeldUp, Held
<1> QED  BY <1>1, Invariance, AlwaysManned, PTL

=============================================================================
