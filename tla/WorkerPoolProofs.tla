-------------------------- MODULE WorkerPoolProofs --------------------------
(***************************************************************************)
(* Proofs about WorkerPool, for any number of nodes and workers, any       *)
(* entries and any bounds.  Each invariant is inductive relative to the    *)
(* ones proved before it:                                                  *)
(*   Control   types, the launch order of workers, the WaitGroup's count   *)
(*   Quiesce   what a closed quit channel and a finished Shutdown imply    *)
(*   Fates     where every delivered entry is                              *)
(***************************************************************************)
EXTENDS WorkerPool, FiniteSetTheorems, TLAPS

-----------------------------------------------------------------------------
(* The counted workers                                                     *)

LEMMA LiveFinite ==
  ASSUME NEW n
  PROVE  IsFiniteSet(Live(n)) /\ Cardinality(Live(n)) \in Nat
<1>1. IsFiniteSet(Slots)
  BY ConcurrencyAssumption, FS_Interval DEF Slots
<1>2. Live(n) \in SUBSET Slots
  BY DEF Live
<1> QED
  BY <1>1, <1>2, FS_Subset, FS_CardinalityType

\* A step of one worker that keeps it counted leaves every count alone.
LEMMA LiveUnchanged ==
  ASSUME pc \in [Workers -> PC], NEW w \in Workers, NEW l \in PC,
         pc[w] \notin {"off", "done"}, l \notin {"off", "done"}, Goto(w, l)
  PROVE  \A n \in Nodes : Live(n)' = Live(n)
BY DEF Live, Goto, Workers

LEMMA LiveSame ==
  ASSUME pc' = pc
  PROVE  \A n \in Nodes : Live(n)' = Live(n)
BY DEF Live

-----------------------------------------------------------------------------
(* The queue's own steps                                                   *)

QNext ==
  \/ \E k \in Kinds : Enqueue(k)
  \/ EnsureGroup
  \/ ReadGroup
  \/ \E e \in 1..cursor : Ack(e)

\* The stream and the cursor only grow, and an entry never changes.
LEMMA QueueStep ==
  ASSUME QTypeOK, [QNext]_qvars
  PROVE  /\ QTypeOK'
         /\ cursor' \in {cursor, cursor + 1}
         /\ Len(stream) <= Len(stream')
         /\ \A e \in 1..Len(stream) : stream'[e] = stream[e]
<1>1. CASE \E k \in Kinds : Enqueue(k)
  <2>1. PICK k \in Kinds : Enqueue(k)
    BY <1>1
  <2>2. stream' \in Seq(Kinds) /\ Len(stream') = Len(stream) + 1
    BY <2>1 DEF Enqueue, QTypeOK
  <2>3. \A e \in 1..Len(stream) : stream'[e] = stream[e]
    BY <2>1 DEF Enqueue, QTypeOK
  <2>4. QTypeOK' /\ cursor' = cursor
    BY <2>1, <2>2 DEF Enqueue, QTypeOK
  <2> QED
    BY <2>2, <2>3, <2>4 DEF QTypeOK
<1>2. CASE EnsureGroup
  BY <1>2 DEF EnsureGroup, QTypeOK
<1>3. CASE ReadGroup
  BY <1>3 DEF ReadGroup, QTypeOK
<1>4. CASE \E e \in 1..cursor : Ack(e)
  <2>1. pel' \subseteq pel /\ UNCHANGED <<stream, group, cursor>>
    BY <1>4 DEF Ack, XAck
  <2> QED
    BY <2>1 DEF QTypeOK
<1>5. CASE UNCHANGED qvars
  BY <1>5 DEF qvars, QTypeOK
<1> QED
  BY <1>1, <1>2, <1>3, <1>4, <1>5 DEF QNext

\* Every step of the system is one of those, or leaves the queue alone.
LEMMA NextIsQueueStep ==
  ASSUME TypeOK, TaskInv, [Next]_vars
  PROVE  [QNext]_qvars
<1>1. CASE \E k \in Kinds : Produce(k)
  BY <1>1 DEF Produce, QNext
<1>2. ASSUME NEW w \in Workers, WorkerStep(w) \/ WorkerFault(w)
      PROVE  [QNext]_qvars
  <2>1. CASE ReportAck(w)
    <3>1. task[w] \in 1..cursor
      BY <2>1 DEF ReportAck, TypeOK, QTypeOK, TaskInv, Busy
    <3> QED
      BY <2>1, <3>1 DEF ReportAck, QNext
  <2>2. CASE HandlerPanic(w)
    BY <2>2 DEF HandlerPanic, Kill, qvars
  <2>3. CASE Poll(w) \/ DequeueNoGroup(w) \/ Wake(w) \/ Handle(w) \/ DequeueGroupFails(w)
    BY <2>3 DEF Poll, DequeueNoGroup, Wake, Handle, DequeueGroupFails
  <2>4. CASE DequeueGroup(w) \/ Deliver(w) \/ DeliverBad(w) \/ DequeueFails(w)
    BY <2>4 DEF DequeueGroup, Deliver, DeliverBad, DequeueFails, QNext
  <2>5. CASE DequeueEmpty(w) \/ ReportNack(w)
    BY <2>5 DEF DequeueEmpty, ReadGroupEmpty, ReportNack, Nack
  <2> QED
    BY <1>2, <2>1, <2>2, <2>3, <2>4, <2>5 DEF WorkerStep, WorkerFault
<1>3. ASSUME NEW n \in Nodes, NodeStep(n)
      PROVE  UNCHANGED qvars
  BY <1>3 DEF NodeStep, StartWorker, Shutdown, ShutdownDone, ShutdownTimeout,
     Exit, Crash, Kill, Restart
<1>4. CASE UNCHANGED vars
  BY <1>4 DEF vars
<1> QED
  BY <1>1, <1>2, <1>3, <1>4 DEF Next

-----------------------------------------------------------------------------
(* Control                                                                 *)

Control == TypeOK /\ TaskInv /\ LaunchInv /\ WaitGroupCounts

LEMMA ControlInit == Init => Control
<1> SUFFICES ASSUME Init PROVE Control
  OBVIOUS
<1>1. TypeOK /\ TaskInv
  <2>1. QTypeOK
    <3>1. stream = <<>> /\ group = FALSE /\ cursor = 0 /\ pel = {}
      BY DEF Init, QInit
    <3>2. stream \in Seq(Kinds) /\ Len(stream) = 0
      BY <3>1
    <3>3. cursor \in 0..Len(stream) /\ pel \subseteq 1..cursor
      BY <3>1, <3>2
    <3> QED
      BY <3>1, <3>2, <3>3 DEF QTypeOK
  <2>2. cursor = 0
    BY DEF Init, QInit
  <2>3. /\ up \in [Nodes -> BOOLEAN]
        /\ launched \in [Nodes -> 0..Concurrency]
        /\ wg \in [Nodes -> Nat]
        /\ quit \in [Nodes -> BOOLEAN]
        /\ shut \in [Nodes -> {"none", "waiting", "nil", "timeout"}]
    BY ConcurrencyAssumption DEF Init
  <2>4. /\ pc \in [Workers -> PC]
        /\ task \in [Workers -> 0..cursor]
        /\ late \in [Workers -> Nat]
    BY <2>2 DEF Init, PC
  <2> QED
    BY <2>1, <2>3, <2>4, BoundsAssumption DEF Init, TypeOK, TaskInv, Busy
<1>2. LaunchInv
  BY DEF Init, LaunchInv, Workers
<1>3. ASSUME NEW n \in Nodes PROVE wg[n] = Cardinality(Live(n))
  <2>1. Live(n) = {}
    BY DEF Init, Live, Workers
  <2> QED
    BY <2>1, FS_EmptySet DEF Init
<1> QED
  BY <1>1, <1>2, <1>3 DEF Control, WaitGroupCounts

\* The end of a process resets its pool and its workers, and only those.
LEMMA ControlKill ==
  ASSUME Control, NEW n \in Nodes, Kill(n),
         faults' \in 0..MaxFaults, stops' \in 0..MaxStops
  PROVE  Control'
<1> USE DEF Control
<1>1. QTypeOK' /\ UNCHANGED <<stream, cursor>>
  BY QueueStep DEF Kill, TypeOK, qvars
<1>2. /\ up' \in [Nodes -> BOOLEAN] /\ quit' \in [Nodes -> BOOLEAN]
      /\ launched' \in [Nodes -> 0..Concurrency] /\ wg' \in [Nodes -> Nat]
      /\ shut' \in [Nodes -> {"none", "waiting", "nil", "timeout"}]
  BY ConcurrencyAssumption DEF Kill, TypeOK
<1>3. /\ pc' \in [Workers -> PC] /\ task' \in [Workers -> 0..cursor]
      /\ late' \in [Workers -> Nat]
  BY DEF Kill, TypeOK, QTypeOK, PC
<1>4. TaskInv'
  BY DEF Kill, TaskInv, Busy
<1>5. lost' \subseteq 1..cursor'
  <2> SUFFICES ASSUME NEW w \in Workers, pc[w] \in Busy PROVE task[w] \in 1..cursor
    BY <1>1 DEF Kill, WorkersOf, TypeOK
  <2> QED
    BY DEF TypeOK, QTypeOK, TaskInv
<1>6. TypeOK'
  BY <1>1, <1>2, <1>3, <1>5 DEF Kill, TypeOK
<1>7. LaunchInv'
  BY DEF Kill, TypeOK, LaunchInv, NodeOf, Workers, Slots
<1>8. WaitGroupCounts'
  <2>1. Live(n)' = {}
    BY DEF Kill, Live, Workers, NodeOf
  <2>2. ASSUME NEW m \in Nodes, m # n PROVE Live(m)' = Live(m)
    BY <2>2 DEF Kill, Live, Workers, NodeOf
  <2> QED
    BY <2>1, <2>2, FS_EmptySet DEF Kill, TypeOK, WaitGroupCounts
<1> QED
  BY <1>4, <1>6, <1>7, <1>8

\* The node-level variables and the fault counters keep their types.
LEMMA ControlNodeStep ==
  ASSUME Control, NEW n \in Nodes, NodeStep(n)
  PROVE  Control'
<1> USE DEF Control
<1>1. QTypeOK' /\ UNCHANGED <<stream, cursor>>
  BY QueueStep DEF NodeStep, StartWorker, Shutdown, ShutdownDone, ShutdownTimeout,
     Exit, Crash, Kill, Restart, TypeOK, qvars
<1>2. CASE StartWorker(n)
  <2> DEFINE w == <<n, launched[n]>>
  <2>1. launched[n] \in Slots /\ w \in Workers /\ NodeOf(w) = n
    BY <1>2, ConcurrencyAssumption DEF StartWorker, TypeOK, Slots, Workers, NodeOf
  <2>2. pc[w] = "off"
    BY <2>1 DEF LaunchInv, Slots
  <2>3. TypeOK' /\ TaskInv'
    BY <1>1, <1>2, <2>1, <2>2, ConcurrencyAssumption
       DEF StartWorker, TypeOK, TaskInv, Goto, Busy, PC, hvars, NoFault
  <2>4. LaunchInv'
    BY <1>2, <2>1, <2>2, ConcurrencyAssumption
       DEF StartWorker, TypeOK, LaunchInv, Goto, Slots, Workers
  <2>5. WaitGroupCounts'
    <3>1. Live(n)' = Live(n) \cup {launched[n]} /\ launched[n] \notin Live(n)
      BY <1>2, <2>1, <2>2 DEF StartWorker, TypeOK, Live, Goto, Workers
    <3>2. \A m \in Nodes : m # n => Live(m)' = Live(m)
      BY <1>2, <2>1 DEF StartWorker, TypeOK, Live, Goto, Workers
    <3>3. Cardinality(Live(n)') = Cardinality(Live(n)) + 1
      BY <3>1, LiveFinite, FS_AddElement
    <3> QED
      BY <1>2, <3>2, <3>3 DEF StartWorker, TypeOK, WaitGroupCounts
  <2> QED
    BY <2>3, <2>4, <2>5
<1>3. CASE Shutdown(n) \/ ShutdownDone(n) \/ ShutdownTimeout(n) \/ Restart(n)
  <2>1. UNCHANGED <<launched, wg, pc, task, late, acked, nacked, lost>>
    BY <1>3 DEF Shutdown, ShutdownDone, ShutdownTimeout, Restart, wvars, hvars
  <2>2. /\ up' \in [Nodes -> BOOLEAN] /\ quit' \in [Nodes -> BOOLEAN]
        /\ shut' \in [Nodes -> {"none", "waiting", "nil", "timeout"}]
    BY <1>3 DEF Shutdown, ShutdownDone, ShutdownTimeout, Restart, TypeOK
  <2>5. faults' \in 0..MaxFaults /\ stops' \in 0..MaxStops
    BY <1>3, BoundsAssumption
       DEF Shutdown, ShutdownDone, ShutdownTimeout, Restart, TypeOK, NoFault
  <2>6. TypeOK' /\ TaskInv'
    BY <1>1, <2>1, <2>2, <2>5 DEF TypeOK, TaskInv
  <2>3. LaunchInv'
    BY <1>3, <2>1 DEF Shutdown, ShutdownDone, ShutdownTimeout, Restart, TypeOK, LaunchInv
  <2>4. WaitGroupCounts'
    BY <2>1, LiveSame DEF WaitGroupCounts
  <2> QED
    BY <2>3, <2>4, <2>6
<1>4. CASE Exit(n) \/ Crash(n)
  BY <1>4, ControlKill, BoundsAssumption DEF Exit, Crash, Fault, NoFault, TypeOK
<1> QED
  BY <1>2, <1>3, <1>4, NodeStep(n) DEF NodeStep

\* A step of a running worker that stays a running worker.
LEMMA ControlMove ==
  ASSUME Control, NEW w \in Workers, NEW l \in PC \ {"off", "done"},
         pc[w] \notin {"off", "done"}, Goto(w, l), UNCHANGED pvars,
         QTypeOK', cursor' \in {cursor, cursor + 1},
         task' \in [Workers -> 0..cursor'], TaskInv', late' \in [Workers -> Nat],
         acked' \subseteq 1..cursor', nacked' \subseteq 1..cursor',
         lost' \subseteq 1..cursor',
         faults' \in 0..MaxFaults, stops' \in 0..MaxStops
  PROVE  Control'
<1> USE DEF Control
<1>1. TypeOK'
  BY DEF TypeOK, Goto, pvars
<1>2. LaunchInv'
  BY DEF TypeOK, LaunchInv, Goto, pvars, Workers
<1>3. WaitGroupCounts'
  BY LiveUnchanged DEF WaitGroupCounts, TypeOK, pvars
<1> QED
  BY <1>1, <1>2, <1>3

LEMMA ControlWorkerStep ==
  ASSUME Control, NEW w \in Workers, WorkerStep(w) \/ WorkerFault(w)
  PROVE  Control'
<1> USE DEF Control
<1>q. QTypeOK' /\ cursor' \in {cursor, cursor + 1}
  <2>1. [Next]_vars
    BY DEF Next
  <2> QED
    BY <2>1, NextIsQueueStep, QueueStep DEF TypeOK
<1>t. /\ acked \subseteq 1..cursor' /\ nacked \subseteq 1..cursor'
      /\ lost \subseteq 1..cursor' /\ task \in [Workers -> 0..cursor']
  BY <1>q DEF TypeOK, QTypeOK
<1>n. NodeOf(w) \in Nodes
  BY DEF Workers, NodeOf
<1>1. CASE HandlerPanic(w)
  BY <1>1, <1>n, ControlKill, BoundsAssumption DEF HandlerPanic, Fault, TypeOK
<1>2. CASE Poll(w) /\ quit[NodeOf(w)]
  <2>1. /\ Goto(w, "done") /\ pc[w] = "top"
        /\ wg' = [wg EXCEPT ![NodeOf(w)] = @ - 1]
        /\ UNCHANGED <<qvars, up, launched, quit, shut, task, late, hvars, faults, stops>>
    BY <1>2 DEF Poll, NoFault
  <2>2. PICK i \in Slots : w = <<NodeOf(w), i>>
    BY DEF Workers, NodeOf
  <2>3. Live(NodeOf(w))' = Live(NodeOf(w)) \ {i} /\ i \in Live(NodeOf(w))
    <3>1. \A j \in Slots : /\ <<NodeOf(w), j>> \in Workers
                           /\ <<NodeOf(w), j>> = w <=> j = i
      BY <1>n, <2>2 DEF Workers
    <3>2. \A j \in Slots : pc'[<<NodeOf(w), j>>] =
                              IF j = i THEN "done" ELSE pc[<<NodeOf(w), j>>]
      BY <2>1, <3>1 DEF Goto, TypeOK
    <3>3. pc[<<NodeOf(w), i>>] = "top"
      BY <2>1, <2>2
    <3> QED
      BY <3>2, <3>3 DEF Live
  <2>4. \A m \in Nodes : m # NodeOf(w) => Live(m)' = Live(m)
    BY <1>n, <2>1, <2>2 DEF Live, Goto, TypeOK, Workers
  <2>5. Cardinality(Live(NodeOf(w))') = Cardinality(Live(NodeOf(w))) - 1
    BY <2>3, LiveFinite, FS_RemoveElement
  <2>6. WaitGroupCounts' /\ wg' \in [Nodes -> Nat]
    <3>1. Cardinality(Live(NodeOf(w))') \in Nat
      BY LiveFinite, <2>3, FS_RemoveElement, FS_CardinalityType
    <3> QED
      BY <1>n, <2>1, <2>4, <2>5, <3>1 DEF WaitGroupCounts, TypeOK
  <2>7. TypeOK' /\ TaskInv'
    BY <1>q, <2>1, <2>6 DEF TypeOK, TaskInv, Goto, PC, Busy, qvars, hvars
  <2>8. LaunchInv'
    BY <2>1, <2>2 DEF LaunchInv, Goto, TypeOK, Workers
  <2> QED
    BY <2>6, <2>7, <2>8
<1>3. CASE Poll(w) /\ ~ quit[NodeOf(w)]
  BY <1>3, <1>q, <1>t, ControlMove DEF Poll, pvars, hvars, NoFault, TypeOK, TaskInv, Goto, PC, Busy
<1>4. CASE DequeueGroup(w) \/ DequeueNoGroup(w) \/ DequeueEmpty(w) \/ Wake(w)
  BY <1>4, <1>q, <1>t, ControlMove
     DEF DequeueGroup, DequeueNoGroup, DequeueEmpty, Wake, pvars, hvars, NoFault, TypeOK,
         TaskInv, Goto, PC, Busy
<1>5. CASE DequeueGroupFails(w) \/ DequeueFails(w)
  <2>1. faults' \in 0..MaxFaults /\ stops' \in 0..MaxStops
    BY <1>5, BoundsAssumption DEF DequeueGroupFails, DequeueFails, Fault, TypeOK
  <2>2. /\ UNCHANGED <<pvars, task, late, acked, nacked>>
        /\ \/ pc[w] = "dequeue" /\ Goto(w, "read")
           \/ pc[w] = "read" /\ Goto(w, "sleep")
    BY <1>5 DEF DequeueGroupFails, DequeueFails, hvars
  <2>3. lost' \subseteq 1..cursor'
    <3>1. \/ lost' = lost
          \/ cursor' = cursor + 1 /\ lost' = lost \cup {cursor + 1}
      BY <1>5 DEF DequeueGroupFails, DequeueFails, ReadGroup, hvars
    <3>2. cursor + 1 \in 1..(cursor + 1)
      BY DEF TypeOK, QTypeOK
    <3> QED
      BY <1>t, <3>1, <3>2
  <2>4. TaskInv'
    BY <2>2 DEF TaskInv, Goto, Busy, TypeOK
  <2> QED
    BY <1>q, <1>t, <2>1, <2>2, <2>3, <2>4, ControlMove DEF TypeOK, PC
<1>6. CASE Deliver(w)
  <2>1. /\ pc[w] = "read" /\ Goto(w, "handle") /\ cursor' = cursor + 1
        /\ task' = [task EXCEPT ![w] = cursor + 1]
        /\ UNCHANGED <<pvars, acked, nacked, lost, faults, stops>>
    BY <1>6 DEF Deliver, ReadGroup, hvars, NoFault
  <2>2. task' \in [Workers -> 0..cursor'] /\ TaskInv'
    <3>1. cursor + 1 \in 1..cursor'
      BY <2>1 DEF TypeOK, QTypeOK
    <3>2. task' \in [Workers -> 0..cursor']
      BY <1>t, <2>1, <3>1
    <3> QED
      BY <2>1, <3>1, <3>2 DEF TypeOK, TaskInv, Goto, Busy
  <2>3. late' \in [Workers -> Nat]
    BY <1>6 DEF Deliver, TypeOK
  <2> QED
    BY <1>q, <1>t, <2>1, <2>2, <2>3, ControlMove DEF TypeOK, PC, Busy
<1>7. CASE DeliverBad(w)
  <2>1. /\ pc[w] = "read" /\ Goto(w, "sleep") /\ cursor' = cursor + 1
        /\ lost' = lost \cup {cursor + 1}
        /\ UNCHANGED <<pvars, task, late, acked, nacked, faults, stops>>
    BY <1>7 DEF DeliverBad, ReadGroup, NoFault
  <2>2. TaskInv' /\ lost' \subseteq 1..cursor'
    BY <1>t, <2>1 DEF TypeOK, QTypeOK, TaskInv, Goto, Busy
  <2> QED
    BY <1>q, <1>t, <2>1, <2>2, ControlMove DEF TypeOK, PC
<1>8. CASE Handle(w)
  BY <1>8, <1>q, <1>t, ControlMove DEF Handle, hvars, NoFault, TypeOK, TaskInv, Goto, PC, Busy
<1>9. CASE ReportAck(w) \/ ReportNack(w)
  <2>1. /\ pc[w] \in Busy /\ Goto(w, "top") /\ task' = [task EXCEPT ![w] = 0]
        /\ UNCHANGED <<pvars, late, lost, faults, stops>>
        /\ acked' \in {acked, acked \cup {task[w]}}
        /\ nacked' \in {nacked, nacked \cup {task[w]}}
    BY <1>9 DEF ReportAck, ReportNack, NoFault, Busy
  <2>2. cursor' = cursor /\ task[w] \in 1..cursor
    BY <1>9, <2>1 DEF ReportAck, ReportNack, Ack, XAck, Nack, qvars, TypeOK, QTypeOK, TaskInv
  <2>3. task' \in [Workers -> 0..cursor'] /\ TaskInv'
    BY <2>1, <2>2 DEF TypeOK, QTypeOK, TaskInv, Goto, Busy
  <2>4. acked' \subseteq 1..cursor' /\ nacked' \subseteq 1..cursor'
    BY <1>t, <2>1, <2>2
  <2> QED
    BY <1>q, <1>t, <2>1, <2>2, <2>3, <2>4, ControlMove DEF TypeOK, PC, Busy
<1> QED
  BY <1>1, <1>2, <1>3, <1>4, <1>5, <1>6, <1>7, <1>8, <1>9 DEF WorkerStep, WorkerFault

LEMMA ControlNext == Control /\ [Next]_vars => Control'
<1> SUFFICES ASSUME Control, [Next]_vars PROVE Control'
  OBVIOUS
<1>1. CASE \E k \in Kinds : Produce(k)
  <2>1. QTypeOK' /\ cursor' = cursor
    BY <1>1, QueueStep DEF Control, TypeOK, Produce, Enqueue, QNext
  <2> QED
    BY <1>1, <2>1, LiveSame DEF Control, TypeOK, TaskInv, LaunchInv, WaitGroupCounts,
       Produce, pvars, wvars, hvars, NoFault
<1>2. CASE UNCHANGED vars
  <2>1. QTypeOK' /\ cursor' = cursor
    BY <1>2, QueueStep DEF Control, TypeOK, vars, qvars
  <2> QED
    BY <1>2, <2>1, LiveSame DEF Control, TypeOK, TaskInv, LaunchInv, WaitGroupCounts,
       vars, pvars, wvars, hvars
<1> QED
  BY <1>1, <1>2, ControlNodeStep, ControlWorkerStep DEF Next

\* Type correctness of WorkerPool: no worker, counter or entry leaves its range
\* (wg in particular never goes negative, which would panic in Go).
THEOREM TypeCorrect == Spec => []TypeOK
<1>1. Spec => []Control
  BY ControlInit, ControlNext, PTL DEF Spec
<1> QED
  BY <1>1, PTL DEF Control

\* The WaitGroup's counter is the number of workers that may still work.
THEOREM WaitGroupCorrect == Spec => []WaitGroupCounts
<1>1. Spec => []Control
  BY ControlInit, ControlNext, PTL DEF Spec
<1> QED
  BY <1>1, PTL DEF Control

-----------------------------------------------------------------------------
(* Quiesce                                                                 *)

Quiesce == LateInv /\ ShutdownQuiesces

LEMMA QuiesceInit == Init => Quiesce
BY DEF Init, Quiesce, LateInv, ShutdownQuiesces, Workers, NodeOf

\* When the WaitGroup is at zero every worker is outside its loop.
LEMMA ZeroMeansIdle ==
  ASSUME Control, NEW w \in Workers, wg[NodeOf(w)] = 0
  PROVE  pc[w] \in {"off", "done"}
<1>1. PICK i \in Slots : w = <<NodeOf(w), i>> /\ NodeOf(w) \in Nodes
  BY DEF Workers, NodeOf
<1>2. Live(NodeOf(w)) = {}
  BY <1>1, LiveFinite, FS_EmptySet DEF Control, WaitGroupCounts
<1> QED
  BY <1>1, <1>2 DEF Live

LEMMA QuiesceNext == Control /\ Quiesce /\ [Next]_vars => Quiesce'
<1> SUFFICES ASSUME Control, Quiesce, [Next]_vars PROVE Quiesce'
  OBVIOUS
<1> USE DEF Control, Quiesce
<1>0. \A w \in Workers : NodeOf(w) \in Nodes
  BY DEF Workers, NodeOf
<1>1. CASE (\E k \in Kinds : Produce(k)) \/ UNCHANGED vars
  BY <1>1 DEF Produce, vars, pvars, wvars, LateInv, ShutdownQuiesces
<1>2. ASSUME NEW n \in Nodes, StartWorker(n) PROVE Quiesce'
  <2> DEFINE v == <<n, launched[n]>>
  <2>1. v \in Workers /\ pc[v] = "off"
    BY <1>2, ConcurrencyAssumption DEF StartWorker, TypeOK, LaunchInv, Slots, Workers
  <2> HIDE DEF v
  <2>2. pc' = [pc EXCEPT ![v] = "top"] /\ UNCHANGED <<quit, shut, late>>
    BY <1>2 DEF StartWorker, Goto, v
  <2> QED
    BY <2>1, <2>2 DEF LateInv, ShutdownQuiesces, TypeOK, Busy
<1>3. ASSUME NEW n \in Nodes, Shutdown(n) \/ ShutdownTimeout(n) PROVE Quiesce'
  <2>1. /\ UNCHANGED <<pc, late>>
        /\ quit' = quit \/ quit' = [quit EXCEPT ![n] = TRUE]
        /\ shut' \in {[shut EXCEPT ![n] = "waiting"], [shut EXCEPT ![n] = "timeout"]}
    BY <1>3 DEF Shutdown, ShutdownTimeout, wvars
  <2>2. LateInv'
    BY <1>0, <2>1 DEF LateInv, TypeOK
  <2>3. ShutdownQuiesces'
    BY <1>0, <2>1 DEF ShutdownQuiesces, TypeOK
  <2> QED
    BY <2>2, <2>3
<1>4. ASSUME NEW n \in Nodes, ShutdownDone(n) PROVE Quiesce'
  BY <1>0, <1>4, ZeroMeansIdle DEF ShutdownDone, TypeOK, wvars, LateInv, ShutdownQuiesces
<1>5. ASSUME NEW n \in Nodes, Restart(n) PROVE Quiesce'
  BY <1>5 DEF Restart, wvars, LateInv, ShutdownQuiesces
<1>6. ASSUME NEW n \in Nodes, Kill(n) PROVE Quiesce'
  BY <1>0, <1>6 DEF Kill, TypeOK, LateInv, ShutdownQuiesces
<1>7. ASSUME NEW w \in Workers, Poll(w) PROVE Quiesce'
  <2>1. /\ pc[w] = "top" /\ UNCHANGED <<quit, shut, late>>
        /\ pc' = [pc EXCEPT ![w] = IF quit[NodeOf(w)] THEN "done" ELSE "dequeue"]
    BY <1>7 DEF Poll, Goto
  <2>2. shut[NodeOf(w)] = "nil" => quit[NodeOf(w)]
    BY <1>0 DEF LaunchInv
  <2> QED
    BY <2>1, <2>2 DEF TypeOK, LateInv, ShutdownQuiesces, Busy
<1>8. ASSUME NEW w \in Workers, Deliver(w) PROVE Quiesce'
  BY <1>0, <1>8 DEF Deliver, Goto, TypeOK, LateInv, ShutdownQuiesces, pvars, Busy
<1>9. ASSUME NEW w \in Workers,
             \/ DequeueGroup(w) \/ DequeueGroupFails(w) \/ DequeueFails(w)
             \/ DequeueEmpty(w) \/ DequeueNoGroup(w) \/ DeliverBad(w) \/ Wake(w)
             \/ Handle(w) \/ ReportAck(w) \/ ReportNack(w)
      PROVE  Quiesce'
  BY <1>0, <1>9 DEF DequeueGroup, DequeueGroupFails, DequeueFails, DequeueEmpty,
     DequeueNoGroup, DeliverBad, Wake, Handle, ReportAck, ReportNack,
     Goto, TypeOK, LateInv, ShutdownQuiesces, pvars, Busy
<1> QED
  BY <1>0, <1>1, <1>2, <1>3, <1>4, <1>5, <1>6, <1>7, <1>8, <1>9
     DEF Next, WorkerStep, WorkerFault, NodeStep, HandlerPanic, Exit, Crash

\* No pool works after its Shutdown has returned nil.
THEOREM ShutdownQuiescesCorrect == Spec => []ShutdownQuiesces
<1>1. Spec => [](Control /\ Quiesce)
  BY ControlInit, ControlNext, QuiesceInit, QuiesceNext, PTL DEF Spec
<1> QED
  BY <1>1, PTL DEF Quiesce

\* No worker takes a second task after quit was closed.
THEOREM AtMostOneLateTaskCorrect == Spec => []AtMostOneLateTask
<1>1. Spec => [](Control /\ Quiesce)
  BY ControlInit, ControlNext, QuiesceInit, QuiesceNext, PTL DEF Spec
<1>2. Control /\ Quiesce => AtMostOneLateTask
  BY DEF Quiesce, LateInv, AtMostOneLateTask
<1> QED
  BY <1>1, <1>2, PTL

\* A process that ends after its Shutdown returned nil drops no task: the only
\* steps that end a process lose exactly what its workers hold, and by
\* Quiesce they hold nothing.
THEOREM GracefulExitCorrect == Spec => GracefulExitLosesNothing
<1>1. ASSUME Control, Quiesce, [Next]_vars
      PROVE  [\A n \in Nodes : shut[n] = "nil" /\ up[n] /\ ~ up'[n] => lost' = lost]_vars
  <2> SUFFICES ASSUME NEW n \in Nodes, shut[n] = "nil", up[n], ~ up'[n], Next
               PROVE  lost' = lost
    BY <1>1
  <2>1. ASSUME NEW m \in Nodes, Kill(m) PROVE lost' = lost
    <3>1. m = n
      BY <2>1, <1>1 DEF Kill, Control, TypeOK
    <3>2. {w \in WorkersOf(n) : pc[w] \in Busy} = {}
      BY <1>1 DEF Quiesce, ShutdownQuiesces, WorkersOf, Busy
    <3> QED
      BY <2>1, <3>1, <3>2 DEF Kill
  <2>2. ASSUME UNCHANGED up PROVE FALSE
    BY <2>2
  <2>3. ASSUME NEW m \in Nodes, Restart(m) PROVE FALSE
    BY <2>3, <1>1 DEF Restart, Control, TypeOK
  <2>4. CASE \E k \in Kinds : Produce(k)
    BY <2>2, <2>4 DEF Produce, pvars
  <2>5. ASSUME NEW w \in Workers, WorkerStep(w) \/ WorkerFault(w), ~ HandlerPanic(w)
        PROVE  FALSE
    BY <2>2, <2>5 DEF WorkerStep, WorkerFault, Poll, DequeueGroup, DequeueGroupFails,
       Deliver, DeliverBad, DequeueEmpty, DequeueNoGroup, DequeueFails, Wake, Handle,
       ReportAck, ReportNack, pvars
  <2>6. ASSUME NEW w \in Workers, HandlerPanic(w) PROVE lost' = lost
    BY <2>1, <2>6 DEF HandlerPanic, Workers, NodeOf
  <2>7. ASSUME NEW m \in Nodes, NodeStep(m) PROVE lost' = lost
    BY <2>1, <2>2, <2>3, <2>7 DEF NodeStep, StartWorker, Shutdown, ShutdownDone,
       ShutdownTimeout, Exit, Crash
  <2> QED
    BY <2>4, <2>5, <2>6, <2>7 DEF Next
<1>2. Spec => [](Control /\ Quiesce)
  BY ControlInit, ControlNext, QuiesceInit, QuiesceNext, PTL DEF Spec
<1> QED
  BY <1>1, <1>2, PTL DEF Spec, GracefulExitLosesNothing

-----------------------------------------------------------------------------
(* Fates                                                                   *)

Unique ==
  \A v, w \in Workers :
    pc[v] \in Busy /\ pc[w] \in Busy /\ task[v] = task[w] => v = w

Fates == OneFate /\ PendingOnlyGrows

LEMMA FatesInit == Init => Fates
<1> SUFFICES ASSUME Init PROVE Fates
  OBVIOUS
<1>1. Held = {} /\ Unique /\ cursor = 0 /\ pel = {} /\ acked = {} /\ nacked = {} /\ lost = {}
  BY DEF Init, QInit, Held, Unique, Busy
<1> QED
  BY <1>1 DEF Fates, OneFate, PendingOnlyGrows, Unique

\* What a step may do to the queue and to the fates; every case but Idle is a
\* step of TaskDelivery.
Idle    == UNCHANGED <<cursor, pel, acked, nacked, lost>> /\ Held' = Held
Start   == /\ cursor < Len(stream) /\ cursor' = cursor + 1
           /\ pel' = pel \cup {cursor + 1}
           /\ UNCHANGED <<stream, acked, nacked>>
           /\ \/ Held' = Held \cup {cursor + 1} /\ UNCHANGED lost
              \/ lost' = lost \cup {cursor + 1} /\ Held' = Held
Report  == /\ UNCHANGED <<stream, cursor, pel, lost>>
           /\ \E e \in Held :
                /\ Held' = Held \ {e}
                /\ \/ acked' = acked \cup {e} /\ UNCHANGED nacked
                   \/ nacked' = nacked \cup {e} /\ UNCHANGED acked
Abandon == /\ UNCHANGED <<stream, cursor, pel, acked, nacked>>
           /\ \E S \in SUBSET Held : Held' = Held \ S /\ lost' = lost \cup S

\* A worker that moves without touching its task holds what it held.
LEMMA HeldSame ==
  ASSUME TypeOK, NEW w \in Workers, NEW l \in PC, Goto(w, l),
         pc[w] \in Busy <=> l \in Busy, UNCHANGED task
  PROVE  Held' = Held /\ (Unique => Unique')
<1>1. \A v \in Workers : pc'[v] \in Busy <=> pc[v] \in Busy
  BY DEF Goto, TypeOK
<1> QED
  BY <1>1 DEF Held, Unique

LEMMA HeldStart ==
  ASSUME TypeOK, Unique, NEW w \in Workers, Goto(w, "handle"), pc[w] \notin Busy,
         task' = [task EXCEPT ![w] = cursor + 1]
  PROVE  Held' = Held \cup {cursor + 1} /\ Unique'
<1>1. \A v \in Workers : v # w => /\ pc'[v] = pc[v] /\ task'[v] = task[v]
                                 /\ task[v] # cursor + 1
  BY DEF Goto, TypeOK, QTypeOK
<1>2. pc'[w] \in Busy /\ task'[w] = cursor + 1
  BY DEF Goto, TypeOK, Busy
<1> QED
  BY <1>1, <1>2 DEF Held, Unique

LEMMA HeldReport ==
  ASSUME TypeOK, Unique, NEW w \in Workers, Goto(w, "top"), pc[w] \in Busy,
         task' = [task EXCEPT ![w] = 0]
  PROVE  Held' = Held \ {task[w]} /\ task[w] \in Held /\ Unique'
<1>1. \A v \in Workers : v # w => pc'[v] = pc[v] /\ task'[v] = task[v]
  BY DEF Goto, TypeOK
<1>2. pc'[w] \notin Busy
  BY DEF Goto, TypeOK, Busy
<1> QED
  BY <1>1, <1>2 DEF Held, Unique

LEMMA HeldKill ==
  ASSUME Unique, NEW n \in Nodes, Kill(n)
  PROVE  Abandon /\ Unique'
<1> DEFINE S == {task[w] : w \in {v \in WorkersOf(n) : pc[v] \in Busy}}
<1>1. \A v \in Workers : IF NodeOf(v) = n THEN pc'[v] \notin Busy
                         ELSE pc'[v] = pc[v] /\ task'[v] = task[v]
  BY DEF Kill, Busy
<1>2. S \subseteq Held
  BY DEF Held, WorkersOf
<1>3. Held' = Held \ S
  BY <1>1 DEF Held, WorkersOf, Unique
<1>4. Unique'
  BY <1>1 DEF Unique
<1> QED
  BY <1>2, <1>3, <1>4 DEF Kill, Abandon, qvars

LEMMA StepShapes ==
  ASSUME Control, Unique, [Next]_vars
  PROVE  (Idle \/ Start \/ Report \/ Abandon) /\ Unique'
<1> USE DEF Control
<1>1. CASE (\E k \in Kinds : Produce(k)) \/ UNCHANGED vars
  BY <1>1 DEF Produce, Enqueue, vars, qvars, wvars, hvars, Idle, Held, Unique
<1>2. ASSUME NEW n \in Nodes, NodeStep(n) PROVE (Idle \/ Abandon) /\ Unique'
  <2>1. CASE StartWorker(n)
    <3> DEFINE w == <<n, launched[n]>>
    <3>1. w \in Workers /\ pc[w] = "off"
      BY <2>1, ConcurrencyAssumption DEF StartWorker, TypeOK, LaunchInv, Slots, Workers
    <3>2. Goto(w, "top") /\ UNCHANGED <<qvars, task, hvars>>
      BY <2>1 DEF StartWorker
    <3> HIDE DEF w
    <3> QED
      BY <3>1, <3>2, HeldSame DEF Idle, qvars, hvars, PC, Busy
  <2>2. CASE Exit(n) \/ Crash(n)
    BY <2>2, HeldKill DEF Exit, Crash
  <2> QED
    BY <1>2, <2>1, <2>2 DEF NodeStep, Shutdown, ShutdownDone, ShutdownTimeout, Restart,
       Idle, Held, Unique, qvars, wvars, hvars
<1>3. ASSUME NEW w \in Workers, HandlerPanic(w) PROVE Abandon /\ Unique'
  BY <1>3, HeldKill DEF HandlerPanic, Workers, NodeOf
<1>4. ASSUME NEW w \in Workers,
             \/ Poll(w) \/ DequeueGroup(w) \/ DequeueGroupFails(w) \/ DequeueEmpty(w)
             \/ DequeueNoGroup(w) \/ Wake(w) \/ Handle(w)
      PROVE  Idle /\ Unique'
  <2>1. UNCHANGED <<cursor, pel, acked, nacked, lost, task>>
    BY <1>4 DEF Poll, DequeueGroup, EnsureGroup, DequeueGroupFails, DequeueEmpty,
       ReadGroupEmpty, DequeueNoGroup, Wake, Handle, qvars, hvars
  <2>2. \E l \in PC : Goto(w, l) /\ (pc[w] \in Busy <=> l \in Busy)
    BY <1>4 DEF Poll, DequeueGroup, DequeueGroupFails, DequeueEmpty, DequeueNoGroup,
       Wake, Handle, PC, Busy
  <2> QED
    BY <2>1, <2>2, HeldSame DEF Idle
<1>5. ASSUME NEW w \in Workers, DequeueFails(w) \/ DeliverBad(w)
      PROVE  (Idle \/ Start) /\ Unique'
  <2>1. /\ UNCHANGED <<acked, nacked, task>>
        /\ pc[w] = "read" /\ Goto(w, "sleep")
        /\ \/ UNCHANGED <<cursor, pel, lost>>
           \/ /\ cursor < Len(stream) /\ cursor' = cursor + 1
              /\ pel' = pel \cup {cursor + 1} /\ UNCHANGED stream
              /\ lost' = lost \cup {cursor + 1}
    BY <1>5 DEF DequeueFails, DeliverBad, ReadGroup, qvars
  <2>2. Held' = Held /\ Unique'
    BY <2>1, HeldSame DEF PC, Busy
  <2> QED
    BY <2>1, <2>2 DEF Idle, Start
<1>6. ASSUME NEW w \in Workers, Deliver(w) PROVE Start /\ Unique'
  BY <1>6, HeldStart DEF Deliver, ReadGroup, Start, hvars, Busy
<1>7. ASSUME NEW w \in Workers, ReportAck(w) \/ ReportNack(w) PROVE Report /\ Unique'
  <2>1. /\ pc[w] \in Busy /\ Goto(w, "top") /\ task' = [task EXCEPT ![w] = 0]
        /\ UNCHANGED <<stream, cursor, lost>>
        /\ \/ acked' = acked \cup {task[w]} /\ UNCHANGED nacked
           \/ nacked' = nacked \cup {task[w]} /\ UNCHANGED acked
    BY <1>7 DEF ReportAck, ReportNack, Ack, XAck, Nack, qvars, Busy
  <2>2. pel' = pel
    <3>1. task[w] \in 1..cursor
      BY <2>1 DEF TypeOK, QTypeOK, TaskInv
    <3>2. TaskID(task[w]) \notin pel
      BY <3>1 DEF TaskID, TypeOK, QTypeOK
    <3> QED
      BY <1>7, <3>2 DEF ReportAck, ReportNack, Ack, XAck, Nack, qvars
  <2>3. Held' = Held \ {task[w]} /\ task[w] \in Held /\ Unique'
    BY <2>1, HeldReport
  <2> QED
    BY <2>1, <2>2, <2>3 DEF Report
<1> QED
  BY <1>1, <1>2, <1>3, <1>4, <1>5, <1>6, <1>7 DEF Next, WorkerStep, WorkerFault

LEMMA FatesNext == Control /\ Fates /\ [Next]_vars => Fates'
<1> SUFFICES ASSUME Control, Fates, [Next]_vars PROVE Fates'
  OBVIOUS
<1>1. Unique /\ cursor \in Nat
  BY DEF Fates, OneFate, Unique, Control, TypeOK, QTypeOK
<1>2. (Idle \/ Start \/ Report \/ Abandon) /\ Unique'
  BY <1>1, StepShapes
<1>3. CASE Idle
  BY <1>2, <1>3 DEF Idle, Fates, OneFate, PendingOnlyGrows, Unique
<1>4. CASE Start
  <2>1. cursor + 1 \notin 1..cursor /\ 1..(cursor + 1) = 1..cursor \cup {cursor + 1}
    BY <1>1
  <2> QED
    BY <1>2, <1>4, <2>1 DEF Start, Fates, OneFate, PendingOnlyGrows, Unique
<1>5. CASE Report
  BY <1>2, <1>5 DEF Report, Fates, OneFate, PendingOnlyGrows, Unique
<1>6. CASE Abandon
  BY <1>2, <1>6 DEF Abandon, Fates, OneFate, PendingOnlyGrows, Unique
<1> QED
  BY <1>2, <1>3, <1>4, <1>5, <1>6

\* No delivered entry is dropped by a worker or shared by two.
THEOREM OneFateCorrect == Spec => []OneFate
<1>1. Spec => [](Control /\ Fates)
  BY ControlInit, ControlNext, FatesInit, FatesNext, PTL DEF Spec
<1> QED
  BY <1>1, PTL DEF Fates

\* The pending entries list never shrinks.
THEOREM PendingOnlyGrowsCorrect == Spec => []PendingOnlyGrows
<1>1. Spec => [](Control /\ Fates)
  BY ControlInit, ControlNext, FatesInit, FatesNext, PTL DEF Spec
<1> QED
  BY <1>1, PTL DEF Fates

\* Queue and pools together implement at-most-once delivery in stream order.
THEOREM AtMostOnceCorrect == Spec => AtMostOnce
<1>1. Init => Delivery!DInit
  <2>1. ASSUME Init PROVE Held = {} /\ Len(stream) = 0
    BY <2>1 DEF Init, QInit, Held, Busy
  <2> QED
    BY <2>1 DEF Init, QInit, Delivery!DInit
<1>2. ASSUME Control, Fates, [Next]_vars
      PROVE  [Delivery!DNext]_(Delivery!dvars)
  <2>1. Unique /\ cursor \in Nat /\ Held \cap (acked \cup nacked) = {}
    BY <1>2 DEF Fates, OneFate, Unique, Control, TypeOK, QTypeOK
  <2>2. Idle \/ Start \/ Report \/ Abandon
    BY <1>2, <2>1, StepShapes
  <2>3. Len(stream') \in {Len(stream), Len(stream) + 1}
    <3>1. [QNext]_qvars
      BY <1>2, NextIsQueueStep DEF Control
    <3>2. ASSUME NEW k \in Kinds, Enqueue(k) PROVE Len(stream') = Len(stream) + 1
      BY <1>2, <3>2 DEF Enqueue, Control, TypeOK, QTypeOK
    <3> QED
      BY <3>1, <3>2 DEF QNext, EnsureGroup, ReadGroup, Ack, XAck, qvars
  <2>4. CASE Idle
    <3>1. UNCHANGED <<cursor, Held, acked \cup nacked, lost>>
      BY <2>4 DEF Idle
    <3> QED
      BY <2>3, <3>1 DEF Delivery!DNext, Delivery!Submit, Delivery!dvars
  <2>5. CASE Start
    BY <2>5 DEF Start, Delivery!DNext, Delivery!StartNext
  <2>6. CASE Report
    <3>1. PICK e \in Held : Held' = Held \ {e} /\ (acked \cup nacked)' = acked \cup nacked \cup {e}
      BY <2>6 DEF Report
    <3> QED
      BY <2>6, <3>1 DEF Report, Delivery!DNext, Delivery!Finish
  <2>7. CASE Abandon
    BY <2>7 DEF Abandon, Delivery!DNext, Delivery!Lose
  <2> QED
    BY <2>2, <2>4, <2>5, <2>6, <2>7
<1>3. Spec => [](Control /\ Fates)
  BY ControlInit, ControlNext, FatesInit, FatesNext, PTL DEF Spec
<1> QED
  BY <1>1, <1>2, <1>3, PTL DEF Spec, AtMostOnce, Delivery!DSpec
=============================================================================
