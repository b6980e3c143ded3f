---------------------------- MODULE NodeRegistry ----------------------------
(***************************************************************************)
(* The registration of bzy-runner nodes: the heartbeat goroutine of each   *)
(* node (internal/heartbeat), the registry that reads what they wrote      *)
(* (internal/cluster), and the lifecycle hooks of the process that start   *)
(* and stop them next to the worker pool (cmd/main.go).  A node is started *)
(* here by running its OnStart hooks.                                      *)
(*                                                                         *)
(* Tick is one unit of time.  A goroutine that can run does so before the  *)
(* next one; a command takes as long as it takes, for nothing in the code  *)
(* limits it, and one that its caller has given up may still run.  The     *)
(* pool itself is in WorkerPool.                                           *)
(***************************************************************************)
EXTENDS Naturals, FiniteSets

CONSTANTS
  Nodes,        \* processes
  Ids,          \* node ids
  IdOf,         \* the id each process is configured with
  Nobody,       \* no writer: the key does not exist
  Interval,     \* between heartbeats (10 s)
  TTL,          \* of a node's key, and the cutoff of HealthyNodes (30 s)
  Late,         \* a heartbeat whose command takes longer than this is slow
  MaxMiss,      \* the failures in a row that the TTL has room for
  StartCtxEnds  \* whether the context of OnStart ends after the start

ASSUME NodesAssumption == IdOf \in [Nodes -> Ids] /\ Nobody \notin Nodes
\* Heartbeats begin this far apart at most, if they are not slow.
Cycle == IF Late > Interval THEN Late ELSE Interval

\* Late and MaxMiss do not bound what happens.  They say what the TTL has room
\* for: with 10 s and 30 s, no failure and commands of 9 s, or one failure and
\* commands of 4 s.
ASSUME TimesAssumption ==
  /\ Interval \in Nat \ {0} /\ MaxMiss \in Nat /\ Late \in Nat
  /\ TTL \in Nat /\ TTL > MaxMiss * Cycle + Interval + 2 * Late
  /\ StartCtxEnds \in BOOLEAN

VARIABLES
  left,    \* what is left of the TTL of each key
  by,      \* the process that wrote the key (NodeInfo.Hostname)
  seen,    \* how long the record's LastSeen stays within the TTL
  proc,    \* the process: "down", "up", or "stopping" in app.Stop
  hb,      \* where heartbeat's Run is; "set" and "del" are commands under way
  age,     \* how long the command has been under way, up to the TTL
  stray,   \* the age of a SET that was given up and may still run, or NoStray
  next,    \* until the ticker fires; 0 before there is a ticker
  tick,    \* the ticker's channel holds a tick
  quit,    \* Stop closed the channel
  ctx,     \* the context Run was given has ended
  miss,    \* heartbeats in a row that failed, up to one more than MaxMiss
  slow,    \* a slow SET ran or is under way since the last prompt success
  beaten,  \* a heartbeat of this process has succeeded
  todo,    \* ListNodes: the keys it still has to read
  got,     \* ListNodes: the processes it found
  unread,  \* ListNodes: the keys whose GET failed
  must     \* the processes healthy since ListNodes began

kvars == <<left, by, seen>>
hvars == <<hb, age, stray, next, tick, miss, slow, beaten>>
lvars == <<todo, got, unread, must>>
nodeVars == <<kvars, proc, hvars, quit, ctx, lvars>>

NoStray == TTL + 1

NodeTypeOK ==
  /\ left \in [Ids -> 0..TTL] /\ seen \in [Ids -> 0..TTL]
  /\ by \in [Ids -> Nodes \cup {Nobody}]
  /\ \A i \in Ids : left[i] = 0 <=> by[i] = Nobody
  /\ proc \in [Nodes -> {"down", "up", "stopping"}]
  /\ hb \in [Nodes -> {"ended", "set", "wait", "del"}]
  /\ age \in [Nodes -> 0..TTL] /\ next \in [Nodes -> 0..Interval]
  /\ stray \in [Nodes -> 0..NoStray] /\ slow \in [Nodes -> BOOLEAN]
  /\ tick \in [Nodes -> BOOLEAN] /\ quit \in [Nodes -> BOOLEAN]
  /\ ctx \in [Nodes -> BOOLEAN] /\ beaten \in [Nodes -> BOOLEAN]
  /\ miss \in [Nodes -> 0..(MaxMiss + 1)]
  /\ todo \subseteq Ids /\ unread \subseteq Ids
  /\ got \subseteq Nodes /\ must \subseteq Nodes

NodeInit ==
  /\ left = [i \in Ids |-> 0] /\ seen = [i \in Ids |-> 0]
  /\ by = [i \in Ids |-> Nobody]
  /\ proc = [n \in Nodes |-> "down"]
  /\ hb = [n \in Nodes |-> "ended"]
  /\ age = [n \in Nodes |-> 0] /\ next = [n \in Nodes |-> 0]
  /\ tick = [n \in Nodes |-> FALSE] /\ quit = [n \in Nodes |-> FALSE]
  /\ ctx = [n \in Nodes |-> FALSE] /\ beaten = [n \in Nodes |-> FALSE]
  /\ miss = [n \in Nodes |-> 0] /\ slow = [n \in Nodes |-> FALSE]
  /\ stray = [n \in Nodes |-> NoStray]
  /\ todo = {} /\ got = {} /\ unread = {} /\ must = {}

Alive(n) == proc[n] # "down"
InFlight(n) == hb[n] \in {"set", "del"}

\* The process serves, and has said so on the context it started with.
Registered(n) == proc[n] = "up" /\ beaten[n] /\ ~ ctx[n]

\* Its heartbeats are no later, and fail no more often, than the TTL has room for.
Prompt(n) == ~ slow[n] /\ miss[n] <= MaxMiss

-----------------------------------------------------------------------------
(* Time                                                                    *)

\* Nothing that can run now is left waiting.
Quiet ==
  \A n \in Nodes : Alive(n) /\ hb[n] = "wait" => ~ (tick[n] \/ quit[n] \/ ctx[n])

NoExpiry == TTL + 1

Older(a) == IF a < TTL THEN a + 1 ELSE a

\* A ticker drops a tick that nobody took.
Tick ==
  LET fires(n) == Alive(n) /\ next[n] = 1
      expired == {i \in Ids : left[i] = 1} IN
  /\ Quiet
  /\ left' = [i \in Ids |-> IF left[i] \in {0, NoExpiry} THEN left[i] ELSE left[i] - 1]
  /\ by' = [i \in Ids |-> IF i \in expired THEN Nobody ELSE by[i]]
  /\ seen' = [i \in Ids |-> IF seen[i] = 0 \/ i \in expired THEN 0 ELSE seen[i] - 1]
  /\ age' = [n \in Nodes |-> IF InFlight(n) THEN Older(age[n]) ELSE 0]
  /\ stray' = [n \in Nodes |-> Older(stray[n])]
  /\ slow' = [n \in Nodes |-> slow[n] \/ (hb[n] = "set" /\ age'[n] > Late)]
  /\ next' = [n \in Nodes |-> IF fires(n) THEN Interval
                              ELSE IF next[n] = 0 THEN 0 ELSE next[n] - 1]
  /\ tick' = [n \in Nodes |-> tick[n] \/ fires(n)]
  /\ must' = {n \in must : ~ slow'[n]}
  /\ UNCHANGED <<proc, hb, quit, ctx, miss, beaten, todo, got, unread>>

-----------------------------------------------------------------------------
(* The server                                                              *)

\* Variant for mutation: SET without an expiry.
SetKeyForever(n, a) ==
  /\ left' = [left EXCEPT ![IdOf[n]] = NoExpiry]
  /\ by' = [by EXCEPT ![IdOf[n]] = n]
  /\ seen' = [seen EXCEPT ![IdOf[n]] = TTL - a]

\* SET with the TTL; the record's LastSeen is the time of the call, a ago.
SetKey(n, a) ==
  /\ left' = [left EXCEPT ![IdOf[n]] = TTL]
  /\ by' = [by EXCEPT ![IdOf[n]] = n]
  /\ seen' = [seen EXCEPT ![IdOf[n]] = TTL - a]

DelKey(n) ==
  /\ left' = [left EXCEPT ![IdOf[n]] = 0]
  /\ by' = [by EXCEPT ![IdOf[n]] = Nobody]
  /\ seen' = [seen EXCEPT ![IdOf[n]] = 0]

-----------------------------------------------------------------------------
(* heartbeat.Service                                                       *)

Beat(n, label) ==
  /\ hb' = [hb EXCEPT ![n] = label]
  /\ age' = [age EXCEPT ![n] = 0]

\* A beat is over.  The first one is the registration: the ticker exists only
\* after it.
AfterBeat(n) ==
  /\ Beat(n, "wait")
  /\ next' = [next EXCEPT ![n] = IF @ = 0 THEN Interval ELSE @]
  /\ UNCHANGED <<proc, tick, quit, ctx>>

\* The client sent the SET again, or its time was up, and the one it no longer
\* waits for may still run (one at a time here).
LeavesStray(n) ==
  \/ UNCHANGED stray
  \/ stray[n] = NoStray /\ stray' = [stray EXCEPT ![n] = age[n]]

\* The key is written and the call returns.
BeatDone(n) ==
  /\ hb[n] = "set" /\ Alive(n)
  /\ SetKey(n, age[n])
  /\ LeavesStray(n)
  /\ AfterBeat(n)
  /\ miss' = [miss EXCEPT ![n] = 0]
  /\ slow' = [slow EXCEPT ![n] = age[n] > Late]
  /\ beaten' = [beaten EXCEPT ![n] = TRUE]
  /\ UNCHANGED lvars

\* The error is logged, and the loop goes on.  The command ran, or will, or
\* was never sent, its context being over for instance.
BeatFails(n) ==
  /\ hb[n] = "set" /\ Alive(n)
  /\ SetKey(n, age[n]) \/ UNCHANGED kvars
  /\ LeavesStray(n)
  /\ AfterBeat(n)
  /\ miss' = [miss EXCEPT ![n] = IF @ > MaxMiss THEN @ ELSE @ + 1]
  /\ must' = {m \in must : m = n => miss'[n] <= MaxMiss}
  /\ UNCHANGED <<slow, beaten, todo, got, unread>>

\* A SET that nobody waits for any more runs, or is lost.
StrayRuns(n) ==
  /\ stray[n] # NoStray
  /\ SetKey(n, stray[n])
  /\ stray' = [stray EXCEPT ![n] = NoStray]
  /\ slow' = [slow EXCEPT ![n] = @ \/ stray[n] > Late]
  /\ must' = {m \in must : m = n => ~ slow'[n]}
  /\ UNCHANGED <<proc, hb, age, next, tick, quit, ctx, miss, beaten, todo, got, unread>>

StrayLost(n) ==
  /\ stray[n] # NoStray
  /\ stray' = [stray EXCEPT ![n] = NoStray]
  /\ UNCHANGED <<kvars, proc, hb, age, next, tick, quit, ctx, miss, slow, beaten, lvars>>

\* Variant for mutation: the loop beats once, when the node registers.
SelectTickOnly(n) ==
  /\ hb[n] = "wait" /\ Alive(n) /\ tick[n]
  /\ tick' = [tick EXCEPT ![n] = FALSE]
  /\ Beat(n, "wait")
  /\ UNCHANGED <<kvars, proc, stray, next, quit, ctx, miss, slow, beaten, lvars>>

\* select: a tick.
SelectTick(n) ==
  /\ hb[n] = "wait" /\ Alive(n) /\ tick[n]
  /\ tick' = [tick EXCEPT ![n] = FALSE]
  /\ Beat(n, "set")
  /\ UNCHANGED <<kvars, proc, stray, next, quit, ctx, miss, slow, beaten, lvars>>

\* Variant for mutation: the quit channel is not selected on.
SelectQuitNever(n) == FALSE /\ UNCHANGED nodeVars

\* select: Stop was called; one DEL is sent.
SelectQuit(n) ==
  /\ hb[n] = "wait" /\ Alive(n) /\ quit[n]
  /\ Beat(n, "del")
  /\ UNCHANGED <<kvars, proc, stray, next, tick, quit, ctx, miss, slow, beaten, lvars>>

\* select: the context ended; Run returns and the key is left to expire.
SelectCtx(n) ==
  /\ hb[n] = "wait" /\ Alive(n) /\ ctx[n]
  /\ Beat(n, "ended")
  /\ UNCHANGED <<kvars, proc, stray, next, tick, quit, ctx, miss, slow, beaten, lvars>>

\* The DEL returns; its error is dropped.
DeregisterDone(n) ==
  /\ hb[n] = "del" /\ Alive(n)
  /\ DelKey(n) \/ UNCHANGED kvars
  /\ Beat(n, "ended")
  /\ UNCHANGED <<proc, stray, next, tick, quit, ctx, miss, slow, beaten, lvars>>

\* A command that outlives its process runs or is lost.
Orphaned(n) ==
  /\ InFlight(n) /\ ~ Alive(n)
  /\ \/ UNCHANGED kvars
     \/ hb[n] = "set" /\ SetKey(n, age[n])
     \/ hb[n] = "del" /\ DelKey(n)
  /\ Beat(n, "ended")
  /\ UNCHANGED <<proc, stray, next, tick, quit, ctx, miss, slow, beaten, lvars>>

-----------------------------------------------------------------------------
(* The process                                                             *)

\* What is in a process's memory is gone with it.
Forget(n) ==
  /\ tick' = [tick EXCEPT ![n] = FALSE]
  /\ quit' = [quit EXCEPT ![n] = FALSE]
  /\ ctx' = [ctx EXCEPT ![n] = FALSE]
  /\ beaten' = [beaten EXCEPT ![n] = FALSE]
  /\ slow' = [slow EXCEPT ![n] = FALSE]

\* The OnStart hooks: the pool starts, and Run registers at once.  A restart
\* takes longer than what is left of the commands of the process before.
StartNode(n) ==
  /\ proc[n] = "down" /\ ~ InFlight(n) /\ stray[n] = NoStray
  /\ proc' = [proc EXCEPT ![n] = "up"]
  /\ Beat(n, "set")
  /\ UNCHANGED <<kvars, stray, next, tick, quit, ctx, miss, slow, beaten, lvars>>

\* The context the OnStart hook passed to Run ends.
StartCtxDone(n) ==
  /\ StartCtxEnds
  /\ Alive(n) /\ ~ ctx[n]
  /\ ctx' = [ctx EXCEPT ![n] = TRUE]
  /\ must' = must \ {n}
  /\ UNCHANGED <<kvars, proc, hvars, quit, todo, got, unread>>

\* app.Stop runs the hooks in reverse order: the heartbeat's Stop, which does
\* not wait, the scheduler's, then the pool's Shutdown.
StopHooks(n) ==
  /\ proc[n] = "up"
  /\ proc' = [proc EXCEPT ![n] = "stopping"]
  /\ quit' = [quit EXCEPT ![n] = TRUE]
  /\ must' = must \ {n}
  /\ UNCHANGED <<kvars, hvars, ctx, todo, got, unread>>

\* The process ends, and with it every goroutine; a command may be under way.
End(n) ==
  /\ proc' = [proc EXCEPT ![n] = "down"]
  /\ hb' = [hb EXCEPT ![n] = IF InFlight(n) THEN @ ELSE "ended"]
  /\ next' = [next EXCEPT ![n] = 0]
  /\ miss' = [miss EXCEPT ![n] = 0]
  /\ Forget(n)
  /\ must' = must \ {n}
  /\ UNCHANGED <<kvars, age, stray, todo, got, unread>>

\* app.Stop has returned, whatever the heartbeat is doing; main returns.
Exit(n) == proc[n] = "stopping" /\ End(n)
Crash(n) == Alive(n) /\ End(n)

-----------------------------------------------------------------------------
(* cluster.Registry                                                        *)

\* SCAN returns every key there is throughout.
ListScan ==
  /\ todo = {}
  /\ todo' = {i \in Ids : left[i] > 0}
  /\ got' = {} /\ unread' = {}
  /\ must' = {n \in Nodes : Registered(n) /\ Prompt(n)}
  /\ UNCHANGED <<kvars, proc, hvars, quit, ctx>>

\* Variant for mutation: the first key that has gone ends the loop.
ListGetStops(i) ==
  /\ i \in todo
  /\ todo' = IF left[i] > 0 THEN todo \ {i} ELSE {}
  /\ got' = IF left[i] > 0 THEN got \cup {by[i]} ELSE got
  /\ UNCHANGED <<kvars, proc, hvars, quit, ctx, unread, must>>

\* GET of one key.  One that has gone by now is skipped, and so is one whose
\* GET fails; ListNodes reports neither.
ListGet(i) ==
  /\ i \in todo
  /\ todo' = todo \ {i}
  /\ \/ got' = (IF left[i] > 0 THEN got \cup {by[i]} ELSE got) /\ UNCHANGED unread
     \/ unread' = unread \cup {i} /\ UNCHANGED got
  /\ UNCHANGED <<kvars, proc, hvars, quit, ctx, must>>

\* HealthyNodes: the records whose LastSeen is after the cutoff.
Healthy == {i \in Ids : left[i] > 0 /\ seen[i] > 0}

-----------------------------------------------------------------------------
HeartbeatStep(n) ==
  \/ BeatDone(n) \/ BeatFails(n) \/ DeregisterDone(n) \/ Orphaned(n)
  \/ SelectTick(n) \/ SelectQuit(n) \/ SelectCtx(n)

StrayEnds(n) == StrayRuns(n) \/ StrayLost(n)

ProcessStep(n) ==
  \/ StartNode(n) \/ StartCtxDone(n) \/ StopHooks(n)
  \/ Exit(n) \/ Crash(n)

NodeNext ==
  \/ Tick
  \/ \E n \in Nodes : HeartbeatStep(n) \/ StrayEnds(n) \/ ProcessStep(n)
  \/ ListScan \/ \E i \in Ids : ListGet(i)

NodeSpec == NodeInit /\ [][NodeNext]_nodeVars

\* Time passes, even if some node is forever restarting and each start has to
\* act before the clock can go on (hence strong fairness).
TimePasses == SF_nodeVars(Tick)

\* The heartbeat goroutine runs, a command is over in the end, and a select
\* whose quit is closed takes it in the end, for select chooses among the ready
\* cases at random.  Nobody has to start, stop or list anything.
HeartbeatRuns(n) ==
  /\ WF_nodeVars(HeartbeatStep(n) \/ StrayEnds(n))
  /\ SF_nodeVars(SelectQuit(n))

NodeFairness == TimePasses /\ \A n \in Nodes : HeartbeatRuns(n)

-----------------------------------------------------------------------------
(* Properties                                                              *)

\* With ids of their own, the nodes that serve and have registered are listed,
\* and healthy by their LastSeen, at every moment until their start context
\* ends, as long as no SET took longer than Late to run or to return and no
\* more than MaxMiss in a row failed since the last success in time, although
\* older SETs may run again in between (heartbeat.go: Run, beat; cluster.go:
\* HealthyNodes).
RegisteredHealthy ==
  \A n \in Nodes : Registered(n) /\ Prompt(n) => by[IdOf[n]] = n /\ IdOf[n] \in Healthy

\* ListNodes reads key by key while nodes come and go.  It returns every node
\* that was registered and prompt all the while, except those whose own GET
\* failed, of which it says nothing (cluster.go: ListNodes).
ListComplete == todo = {} => \A n \in must : n \in got \/ IdOf[n] \in unread

\* A node that is gone, however it went, is no longer listed after a while
\* (the TTL of its key), unless it is started again.
GoneUnlisted ==
  \A n \in Nodes :
    proc[n] = "down" ~> (proc[n] # "down" \/ \A i \in Ids : by[i] # n)

\* After Stop the heartbeat goroutine ends, although a tick may win the select
\* against it.
HeartbeatEnds == \A n \in Nodes : quit[n] ~> (hb[n] = "ended" \/ ~ quit[n])
=============================================================================
