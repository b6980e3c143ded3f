------------------------------ MODULE MCRunner ------------------------------
(* The parts of bzy-runner outside the pool, the life of a process of each  *)
(* kind, and the health checker, in one instance for TLC.  They share no    *)
(* state, so a behaviour runs one of them and leaves the others alone.      *)
EXTENDS MCNodeRegistry, Scheduler, Executor, LogStream, Lifecycle, HealthCheck

CONSTANTS
  Alone,   \* the node that runs in the part with clocks
  MaxAge   \* bound: on the time one of its commands takes

ASSUME AloneAssumption == Alone \in Nodes /\ MaxAge \in Nat

VARIABLE part   \* the part this behaviour is about

runnerVars == <<part, nodeVars, cronVars, execVars, logVars, lifeVars, healthVars>>

RunnerInit ==
  /\ part \in {"node", "list", "cron", "exec", "log", "life", "health"}
  /\ NodeInit /\ CronInit /\ ExecInit /\ LogInit /\ LifeInit /\ HealthInit

\* A node alone with the clock.
ClockNext ==
  /\ Tick \/ HeartbeatStep(Alone) \/ StrayEnds(Alone) \/ ProcessStep(Alone)
  /\ age'[Alone] <= MaxAge /\ (stray'[Alone] <= MaxAge \/ stray'[Alone] = NoStray)
  /\ UNCHANGED lvars

\* Two nodes that come and go around a ListNodes, which is over before a unit
\* of time is.
ListNext ==
  /\ \/ \E n \in Nodes : HeartbeatStep(n) \/ ProcessStep(n)
     \/ ListScan \/ \E i \in Ids : ListGet(i)
  /\ UNCHANGED <<stray, ctx>>

RunnerNext ==
  /\ UNCHANGED part
  /\ \/ part = "node" /\ ClockNext
     \/ part = "list" /\ ListNext
     \/ part \notin {"node", "list"} /\ UNCHANGED nodeVars
  /\ \/ part = "cron" /\ CronNext
     \/ part # "cron" /\ UNCHANGED cronVars
  /\ \/ part = "exec" /\ ExecNext
     \/ part # "exec" /\ UNCHANGED execVars
  /\ \/ part = "log" /\ LogNext
     \/ part # "log" /\ UNCHANGED logVars
  /\ \/ part = "life" /\ LifeNext
     \/ part # "life" /\ UNCHANGED lifeVars
  /\ \/ part = "health" /\ HealthNext
     \/ part # "health" /\ UNCHANGED healthVars

\* What starts a part is never fair, so nothing is owed to the parts that a
\* behaviour leaves alone.
RunnerSpec ==
  /\ RunnerInit /\ [][RunnerNext]_runnerVars
  /\ NodeFairness
  /\ CronFairness /\ ExecFairness /\ LogFairness /\ LifeFairness /\ HealthFairness

-----------------------------------------------------------------------------
\* The state of every part is what its declarations say.
RunnerTypeOK ==
  NodeTypeOK /\ CronTypeOK /\ ExecTypeOK /\ LogTypeOK /\ LifeTypeOK /\ HealthTypeOK

\* What is begun ends: a node that is gone is unlisted and a heartbeat that is
\* stopped ends, runs of jobs end, commands with a timeout return, a Tail that
\* is cancelled returns, a signalled process exits, a report is made.
RunnerEnds ==
  GoneUnlisted /\ HeartbeatEnds /\ RunsEnd /\ RunReturns /\ TailReturns /\ SignalExits /\ ReportEnds
=============================================================================
