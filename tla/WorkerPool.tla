----------------------------- MODULE WorkerPool -----------------------------
(***************************************************************************)
(* The worker pools of the bzy-runner nodes (internal/worker/worker.go)    *)
(* consuming one task queue, with the process around each pool: Start is   *)
(* launched by the OnStart hook, Shutdown is called by the OnStop hook     *)
(* (cmd/main.go), the process exits when Shutdown returned, may crash at   *)
(* any time and may be started again.                                      *)
(***************************************************************************)
EXTENDS TaskQueue, FiniteSets

CONSTANTS
  Nodes,         \* the bzy-runner processes
  Concurrency,   \* workers per pool
  MaxFaults,     \* bound: crashes, panics and failed Redis commands, in total
  MaxStops       \* bound: orderly shutdowns, in total

ASSUME ConcurrencyAssumption == Concurrency \in Nat
ASSUME BoundsAssumption == MaxFaults \in Nat /\ MaxStops \in Nat

Slots == 0..(Concurrency - 1)
Workers == Nodes \X Slots
NodeOf(w) == w[1]

VARIABLES
  up,         \* up[n]: the process of node n runs and called pool.Start
  launched,   \* launched[n]: iterations Start's loop has done
  wg,         \* wg[n]: the counter of the pool's WaitGroup
  quit,       \* quit[n]: the quit channel is closed
  shut,       \* shut[n]: how far the call of Shutdown is, or what it returned
  pc,         \* pc[w]: where worker w is in runWorker/processTask
  task,       \* task[w]: the entry w works on, 0 for none
  late,       \* late[w]: history, tasks w took after quit was closed
  acked,      \* history: entries reported to Ack
  nacked,     \* history: entries reported to Nack
  lost,       \* history: delivered entries no worker will report on
  faults,     \* faults so far
  stops       \* shutdowns so far

pvars == <<up, launched, wg, quit, shut>>
wvars == <<pc, task, late>>
hvars == <<acked, nacked, lost>>
vars == <<qvars, pvars, wvars, hvars, faults, stops>>

Busy == {"handle", "ack", "nack"}                \* the worker has a task
PC == {"off", "top", "dequeue", "read", "sleep", "done"} \cup Busy

TypeOK ==
  /\ QTypeOK
  /\ up \in [Nodes -> BOOLEAN]
  /\ launched \in [Nodes -> 0..Concurrency]
  /\ wg \in [Nodes -> Nat]
  /\ quit \in [Nodes -> BOOLEAN]
  /\ shut \in [Nodes -> {"none", "waiting", "nil", "timeout"}]
  /\ pc \in [Workers -> PC]
  /\ task \in [Workers -> 0..cursor]
  /\ late \in [Workers -> Nat]
  /\ acked \subseteq 1..cursor
  /\ nacked \subseteq 1..cursor
  /\ lost \subseteq 1..cursor
  /\ faults \in 0..MaxFaults
  /\ stops \in 0..MaxStops

Init ==
  /\ QInit
  /\ up = [n \in Nodes |-> TRUE]
  /\ launched = [n \in Nodes |-> 0]
  /\ wg = [n \in Nodes |-> 0]
  /\ quit = [n \in Nodes |-> FALSE]
  /\ shut = [n \in Nodes |-> "none"]
  /\ pc = [w \in Workers |-> "off"]
  /\ task = [w \in Workers |-> 0]
  /\ late = [w \in Workers |-> 0]
  /\ acked = {} /\ nacked = {} /\ lost = {}
  /\ faults = 0
  /\ stops = 0

Goto(w, label) == pc' = [pc EXCEPT ![w] = label]

Fault ==
  /\ faults < MaxFaults
  /\ faults' = faults + 1
  /\ UNCHANGED stops

NoFault == UNCHANGED <<faults, stops>>

-----------------------------------------------------------------------------
(* Producers: the scheduler and every other caller of Queue.Enqueue.       *)

Produce(k) ==
  /\ Enqueue(k)
  /\ UNCHANGED <<pvars, wvars, hvars>> /\ NoFault

-----------------------------------------------------------------------------
(* Pool.Start                                                              *)

\* Variant for mutation: the worker is not added to the WaitGroup.
StartWorkerUncounted(n) ==
  /\ up[n]
  /\ launched[n] < Concurrency
  /\ launched' = [launched EXCEPT ![n] = @ + 1]
  /\ Goto(<<n, launched[n]>>, "top")
  /\ UNCHANGED <<qvars, up, wg, quit, shut, task, late, hvars>> /\ NoFault

\* One iteration of Start's loop: wg.Add(1), go runWorker.  Until the
\* goroutine is scheduled it is at the top of its loop.
StartWorker(n) ==
  /\ up[n]
  /\ launched[n] < Concurrency
  /\ launched' = [launched EXCEPT ![n] = @ + 1]
  /\ wg' = [wg EXCEPT ![n] = @ + 1]
  /\ Goto(<<n, launched[n]>>, "top")
  /\ UNCHANGED <<qvars, up, quit, shut, task, late, hvars>> /\ NoFault

-----------------------------------------------------------------------------
(* runWorker                                                               *)

\* Variant for mutation: the loop never looks at quit.
PollIgnoringQuit(w) ==
  /\ pc[w] = "top"
  /\ Goto(w, "dequeue")
  /\ UNCHANGED <<qvars, pvars, task, late, hvars>> /\ NoFault

\* Variant for mutation: the worker returns without the deferred wg.Done.
PollWithoutDone(w) ==
  /\ pc[w] = "top"
  /\ Goto(w, IF quit[NodeOf(w)] THEN "done" ELSE "dequeue")
  /\ UNCHANGED <<qvars, pvars, task, late, hvars>> /\ NoFault

\* The select at the top of the loop.  The context is Background: only quit
\* ends the worker, whose deferred wg.Done runs as it returns.
Poll(w) ==
  /\ pc[w] = "top"
  /\ \/ /\ quit[NodeOf(w)]
        /\ Goto(w, "done")
        /\ wg' = [wg EXCEPT ![NodeOf(w)] = @ - 1]
     \/ /\ ~ quit[NodeOf(w)]
        /\ Goto(w, "dequeue")
        /\ UNCHANGED wg
  /\ UNCHANGED <<qvars, up, launched, quit, shut, task, late, hvars>> /\ NoFault

\* Dequeue, first command.
DequeueGroup(w) ==
  /\ pc[w] = "dequeue"
  /\ EnsureGroup
  /\ Goto(w, "read")
  /\ UNCHANGED <<pvars, task, late, hvars>> /\ NoFault

\* Its error is ignored, whatever it is.
DequeueGroupFails(w) ==
  /\ pc[w] = "dequeue"
  /\ Fault
  /\ Goto(w, "read")
  /\ UNCHANGED <<qvars, pvars, task, late, hvars>>

\* Dequeue, second command: the worker gets a task.
Deliver(w) ==
  /\ pc[w] = "read"
  /\ ReadGroup
  /\ stream[cursor + 1] # "bad"
  /\ Goto(w, "handle")
  /\ task' = [task EXCEPT ![w] = cursor + 1]
  /\ late' = IF quit[NodeOf(w)] THEN [late EXCEPT ![w] = @ + 1] ELSE late
  /\ UNCHANGED <<pvars, hvars>> /\ NoFault

\* An entry without a readable task is delivered, hence pending, but Dequeue
\* returns an error: the worker logs it and sleeps.
DeliverBad(w) ==
  /\ pc[w] = "read"
  /\ ReadGroup
  /\ stream[cursor + 1] = "bad"
  /\ Goto(w, "sleep")
  /\ lost' = lost \cup {cursor + 1}
  /\ UNCHANGED <<pvars, task, late, acked, nacked>> /\ NoFault

\* redis.Nil: no task, back to the top.
DequeueEmpty(w) ==
  /\ pc[w] = "read"
  /\ ReadGroupEmpty
  /\ Goto(w, "top")
  /\ UNCHANGED <<pvars, task, late, hvars>> /\ NoFault

\* NOGROUP: an earlier XGROUP CREATE failed.
DequeueNoGroup(w) ==
  /\ pc[w] = "read"
  /\ ~ group
  /\ Goto(w, "sleep")
  /\ UNCHANGED <<qvars, pvars, task, late, hvars>> /\ NoFault

\* The command fails before the server ran it, or after: then the entry it
\* delivered is pending and its reply is gone.
DequeueFails(w) ==
  /\ pc[w] = "read"
  /\ Fault
  /\ Goto(w, "sleep")
  /\ \/ UNCHANGED <<qvars, lost>>
     \/ ReadGroup /\ lost' = lost \cup {cursor + 1}
  /\ UNCHANGED <<pvars, task, late, acked, nacked>>

\* time.Sleep(time.Second) after a dequeue error.
Wake(w) ==
  /\ pc[w] = "sleep"
  /\ Goto(w, "top")
  /\ UNCHANGED <<qvars, pvars, task, late, hvars>> /\ NoFault

-----------------------------------------------------------------------------
(* processTask                                                             *)

\* The handler returns, with nil or with an error (its timeout included); a
\* task type without a handler counts as an error.
Handle(w) ==
  /\ pc[w] = "handle"
  /\ \/ stream[task[w]] = "known" /\ Goto(w, "ack")
     \/ Goto(w, "nack")
  /\ UNCHANGED <<qvars, pvars, task, late, hvars>> /\ NoFault

ReportAck(w) ==
  /\ pc[w] = "ack"
  /\ Ack(task[w])
  /\ acked' = acked \cup {task[w]}
  /\ Goto(w, "top")
  /\ task' = [task EXCEPT ![w] = 0]
  /\ UNCHANGED <<pvars, late, nacked, lost>> /\ NoFault

\* Variant for mutation: processTask returns without calling Nack.
ReportNackSkipped(w) ==
  /\ pc[w] = "nack"
  /\ Goto(w, "top")
  /\ task' = [task EXCEPT ![w] = 0]
  /\ UNCHANGED <<qvars, pvars, late, hvars>> /\ NoFault

ReportNack(w) ==
  /\ pc[w] = "nack"
  /\ Nack(task[w])
  /\ nacked' = nacked \cup {task[w]}
  /\ Goto(w, "top")
  /\ task' = [task EXCEPT ![w] = 0]
  /\ UNCHANGED <<pvars, late, acked, lost>> /\ NoFault

-----------------------------------------------------------------------------
(* Pool.Shutdown and the life of the process                               *)

Shutdown(n) ==
  /\ up[n]
  /\ shut[n] = "none"
  /\ stops < MaxStops
  /\ stops' = stops + 1
  /\ quit' = [quit EXCEPT ![n] = TRUE]
  /\ shut' = [shut EXCEPT ![n] = "waiting"]
  /\ UNCHANGED <<qvars, up, launched, wg, wvars, hvars, faults>>

\* wg.Wait returned.
ShutdownDone(n) ==
  /\ shut[n] = "waiting"
  /\ wg[n] = 0
  /\ shut' = [shut EXCEPT ![n] = "nil"]
  /\ UNCHANGED <<qvars, up, launched, wg, quit, wvars, hvars>> /\ NoFault

\* The 30 seconds of main's context are over.
ShutdownTimeout(n) ==
  /\ shut[n] = "waiting"
  /\ shut' = [shut EXCEPT ![n] = "timeout"]
  /\ UNCHANGED <<qvars, up, launched, wg, quit, wvars, hvars>> /\ NoFault

WorkersOf(n) == {w \in Workers : NodeOf(w) = n}

\* The process of n ends.  Nothing claims its pending entries for another
\* consumer, and a restarted consumer reads ">" only.
Kill(n) ==
  /\ up[n]
  /\ up' = [up EXCEPT ![n] = FALSE]
  /\ launched' = [launched EXCEPT ![n] = 0]
  /\ wg' = [wg EXCEPT ![n] = 0]
  /\ quit' = [quit EXCEPT ![n] = FALSE]
  /\ shut' = [shut EXCEPT ![n] = "none"]
  /\ pc' = [w \in Workers |-> IF NodeOf(w) = n THEN "off" ELSE pc[w]]
  /\ task' = [w \in Workers |-> IF NodeOf(w) = n THEN 0 ELSE task[w]]
  /\ late' = [w \in Workers |-> IF NodeOf(w) = n THEN 0 ELSE late[w]]
  /\ lost' = lost \cup {task[w] : w \in {v \in WorkersOf(n) : pc[v] \in Busy}}
  /\ UNCHANGED <<qvars, acked, nacked>>

\* fx has run the OnStop hooks: main returns, or exits with 1 after a timeout.
Exit(n) ==
  /\ shut[n] \in {"nil", "timeout"}
  /\ Kill(n)
  /\ NoFault

Crash(n) == Fault /\ Kill(n)

\* processTask recovers nothing: a panic in one handler ends the process.
HandlerPanic(w) ==
  /\ pc[w] = "handle"
  /\ Fault
  /\ Kill(NodeOf(w))

Restart(n) ==
  /\ ~ up[n]
  /\ up' = [up EXCEPT ![n] = TRUE]
  /\ UNCHANGED <<qvars, launched, wg, quit, shut, wvars, hvars>> /\ NoFault

-----------------------------------------------------------------------------
\* What a worker does when nothing fails.
WorkerStep(w) ==
  \/ Poll(w) \/ DequeueGroup(w) \/ Deliver(w) \/ DeliverBad(w)
  \/ DequeueEmpty(w) \/ DequeueNoGroup(w) \/ Wake(w)
  \/ Handle(w) \/ ReportAck(w) \/ ReportNack(w)

WorkerFault(w) == DequeueGroupFails(w) \/ DequeueFails(w) \/ HandlerPanic(w)

NodeStep(n) ==
  \/ StartWorker(n) \/ Shutdown(n) \/ ShutdownDone(n) \/ ShutdownTimeout(n)
  \/ Exit(n) \/ Crash(n) \/ Restart(n)

Next ==
  \/ \E k \in Kinds : Produce(k)
  \/ \E w \in Workers : WorkerStep(w) \/ WorkerFault(w)
  \/ \E n \in Nodes : NodeStep(n)

Spec == Init /\ [][Next]_vars

\* A running worker keeps running: Redis answers (a blocking read within
\* 500 ms), handlers return (they are given a deadline), sleeps end.  Nothing
\* obliges the operator to stop or restart a node, or the timeout to fire.
Fairness ==
  /\ \A w \in Workers : WF_vars(WorkerStep(w))
  /\ \A n \in Nodes : WF_vars(StartWorker(n)) /\ WF_vars(ShutdownDone(n))

FairSpec == Spec /\ Fairness

-----------------------------------------------------------------------------
(* Properties                                                              *)

Held == {task[w] : w \in {v \in Workers : pc[v] \in Busy}}

\* Delivery implements the at-most-once promise of TaskDelivery: entries are
\* started in stream order, no entry is started twice whatever crashes and
\* lost replies happen, and a verdict on an entry is final.
Delivery == INSTANCE TaskDelivery WITH
  submitted <- Len(stream),
  started <- cursor,
  running <- Held,
  finished <- acked \cup nacked

AtMostOnce == Delivery!DSpec

\* Every delivered entry has exactly one fate: held by exactly one worker,
\* reported to Ack, reported to Nack, or lost.  processTask drops no task
\* on any of its return paths, and no two workers share one.
OneFate ==
  /\ Held \cup acked \cup nacked \cup lost = 1..cursor
  /\ Held \cap (acked \cup nacked \cup lost) = {}
  /\ acked \cap nacked = {}
  /\ lost \cap (acked \cup nacked) = {}
  /\ \A v, w \in Workers :
       pc[v] \in Busy /\ pc[w] \in Busy /\ task[v] = task[w] => v = w

Live(n) == {i \in Slots : pc[<<n, i>>] \notin {"off", "done"}}

\* The WaitGroup counts exactly the workers that may still be working, at
\* every moment of Start's loop, of Shutdown and of a worker's return: this is
\* what makes wg.Wait mean anything.
WaitGroupCounts == \A n \in Nodes : wg[n] = Cardinality(Live(n))

\* Once Shutdown has returned nil no worker of that pool has a task or is
\* about to read one, although the goroutine running Start may still be
\* launching workers.
ShutdownQuiesces ==
  \A w \in Workers :
    shut[NodeOf(w)] = "nil" => pc[w] \in {"off", "top", "done"}

\* After close(quit) a worker takes at most the one task it was already
\* polling for.
AtMostOneLateTask == \A w \in Workers : late[w] <= 1

\* A process that ends after Shutdown returned nil takes no task with it.
GracefulExitLosesNothing ==
  [][\A n \in Nodes : shut[n] = "nil" /\ up[n] /\ ~ up'[n] => lost' = lost]_vars

\* Every entry ever delivered is still pending: neither Ack nor Nack nor
\* anything else removes it, so the pending list grows with the stream.
PendingOnlyGrows == pel = 1..cursor

Serving(n) == up[n] /\ ~ quit[n]

\* As long as some node serves, every entry in the stream is reported on,
\* unless a fault took it away after its delivery or it holds no readable
\* task.
EveryEntryReported ==
  \A e \in 1..MaxEntries :
    e <= Len(stream) ~> \/ e \in acked \cup nacked \cup lost
                       \/ \A n \in Nodes : ~ Serving(n)

\* The workers drain by themselves: Shutdown returns without the help of its
\* context's deadline, unless the process dies first.
ShutdownReturns == \A n \in Nodes : shut[n] = "waiting" ~> shut[n] # "waiting"

\* What the proofs add to the properties above to make them inductive.
LaunchInv ==
  /\ \A n \in Nodes, i \in Slots : i >= launched[n] => pc[<<n, i>>] = "off"
  /\ \A n \in Nodes : ~ up[n] => launched[n] = 0 /\ shut[n] = "none"
  /\ \A n \in Nodes : quit[n] <=> shut[n] # "none"

LateInv ==
  \A w \in Workers :
    late[w] # 0 =>
      late[w] = 1 /\ quit[NodeOf(w)] /\ pc[w] \in Busy \cup {"top", "done"}

TaskInv == \A w \in Workers : task[w] # 0 <=> pc[w] \in Busy

\* queue.go, Queue.Ack: "marks a task as successfully completed", that is, an
\* acknowledged entry is no longer pending.
AckCompletes == acked \cap pel = {}
=============================================================================
