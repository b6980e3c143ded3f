------------------------------ MODULE Scheduler ------------------------------
(***************************************************************************)
(* The cron scheduler of bzy-runner (internal/scheduler/scheduler.go) over *)
(* the task queue.  Its jobs map and the entries of the cron library are   *)
(* two registries that AddJob and RemoveJob change together; the library   *)
(* fires an entry whenever it is due, runs it in a goroutine of its own,   *)
(* skips an entry that is still running and recovers its panics.  The      *)
(* Redis client sends the XADD of a run again after a network error, and   *)
(* one that nobody waits for any more may still run.                       *)
(*                                                                         *)
(* Callers of AddJob, RemoveJob and ListJobs are taken one at a time: the  *)
(* jobs map has no lock.                                                   *)
(***************************************************************************)
EXTENDS TaskQueue, FiniteSets

CONSTANTS
  JobIds,
  NoEntry,    \* the id is in no map
  MaxJobs,    \* bound: AddJob calls; the cron library numbers their entries
  MaxRuns,    \* bound: runs of jobs, in total
  MaxSends,   \* how often the client sends the XADD of a run, the first included
  ReuseIds    \* whether callers add a job under an id that is in use

ASSUME JobsAssumption ==
  /\ MaxJobs \in Nat /\ MaxRuns \in Nat /\ MaxSends \in Nat \ {0} /\ ReuseIds \in BOOLEAN /\ NoEntry \notin Nat
  /\ "known" \in Kinds   \* a job's task has a type like any other

Entries == 1..MaxJobs
Runs == 1..MaxRuns

VARIABLES
  jobs,      \* s.jobs: id to the cron entry of its job
  cron,      \* the entries the library fires
  added,     \* AddJob calls so far
  idOf,      \* the id each entry was added under
  started,   \* the library's loop runs
  runs,      \* runs so far
  runOf,     \* the entry each run is of
  result,    \* what became of each run: "none" before it, the Enqueue's outcome after
  wire,      \* XADDs of each run that are under way
  origin,    \* the run each task in the stream comes from
  removed    \* entries whose id was removed, with RemoveJob returning nil

runVars == <<runs, runOf, result, wire, origin>>
svars == <<jobs, cron, added, idOf, started, runVars, removed>>
cronVars == <<qvars, svars>>

CronTypeOK ==
  /\ QTypeOK
  /\ jobs \in [JobIds -> Entries \cup {NoEntry}]
  /\ cron \subseteq 1..added /\ added \in 0..MaxJobs
  /\ idOf \in [1..added -> JobIds]
  /\ started \in BOOLEAN
  /\ runs \in 0..MaxRuns
  /\ runOf \in [Runs -> Entries \cup {NoEntry}]
  /\ result \in [Runs -> {"none", "running", "nil", "error"}]
  /\ \A r \in Runs : result[r] # "none" <=> r <= runs
  /\ wire \in [Runs -> 0..MaxSends]
  /\ origin \in Seq(1..runs) /\ Len(origin) = Len(stream)
  /\ removed \subseteq 1..added

CronInit ==
  /\ QInit
  /\ jobs = [i \in JobIds |-> NoEntry]
  /\ cron = {} /\ added = 0 /\ idOf = <<>>
  /\ started = FALSE
  /\ runs = 0 /\ runOf = [r \in Runs |-> NoEntry]
  /\ result = [r \in Runs |-> "none"] /\ wire = [r \in Runs |-> 0]
  /\ origin = <<>> /\ removed = {}

-----------------------------------------------------------------------------
(* CronScheduler                                                           *)

\* The hook; the library ignores a second call.
StartCron ==
  /\ started' = TRUE
  /\ UNCHANGED <<qvars, jobs, cron, added, idOf, runVars, removed>>

\* Runs under way are not waited for.
StopCron ==
  /\ started' = FALSE
  /\ UNCHANGED <<qvars, jobs, cron, added, idOf, runVars, removed>>

\* A valid expression: the library gets a new entry and the map points to it.
\* Whether the job is Enabled makes no difference.  An empty id is replaced
\* by a fresh one.
AddJob(i) ==
  /\ added < MaxJobs
  /\ ReuseIds \/ jobs[i] = NoEntry
  /\ added' = added + 1
  /\ cron' = cron \cup {added'}
  /\ idOf' = Append(idOf, i)
  /\ jobs' = [jobs EXCEPT ![i] = added']
  /\ UNCHANGED <<qvars, started, runVars, removed>>

\* Variant for mutation: the map keeps the job.
RemoveJobFromCron(i) ==
  /\ jobs[i] # NoEntry
  /\ cron' = cron \ {jobs[i]}
  /\ removed' = removed \cup {e \in 1..added : idOf[e] = i}
  /\ UNCHANGED <<qvars, jobs, added, idOf, started, runVars>>

RemoveJob(i) ==
  /\ jobs[i] # NoEntry
  /\ cron' = cron \ {jobs[i]}
  /\ jobs' = [jobs EXCEPT ![i] = NoEntry]
  /\ removed' = removed \cup {e \in 1..added : idOf[e] = i}
  /\ UNCHANGED <<qvars, added, idOf, started, runVars>>

-----------------------------------------------------------------------------
(* A run                                                                   *)

Running(e) == \E r \in Runs : runOf[r] = e /\ result[r] = "running"

\* Its goroutine calls runJob, and runJob Enqueue.
RunBegins(e) ==
  /\ runs < MaxRuns
  /\ runs' = runs + 1
  /\ runOf' = [runOf EXCEPT ![runs'] = e]
  /\ result' = [result EXCEPT ![runs'] = "running"]
  /\ UNCHANGED <<qvars, jobs, cron, added, idOf, started, wire, origin, removed>>

\* Variant for mutation: the chain lacks SkipIfStillRunning.
FireAnyway(e) == started /\ e \in cron /\ RunBegins(e)

\* The entry is due, and no run of it is under way (or it is skipped).
Fire(e) == started /\ e \in cron /\ ~ Running(e) /\ RunBegins(e)

TasksOf(r) == {p \in DOMAIN origin : origin[p] = r}

\* The client sends the XADD, or sends it again.
SendXAdd(r) ==
  /\ result[r] = "running"
  /\ wire[r] + Cardinality(TasksOf(r)) < MaxSends
  /\ wire' = [wire EXCEPT ![r] = @ + 1]
  /\ UNCHANGED <<qvars, jobs, cron, added, idOf, started, runs, runOf, result, origin, removed>>

Delivered(r) == wire[r] > 0 /\ wire' = [wire EXCEPT ![r] = @ - 1]

\* It runs, while the run waits for it or later.
XAddRuns(r) ==
  /\ Delivered(r)
  /\ Enqueue("known")
  /\ origin' = Append(origin, r)
  /\ UNCHANGED <<jobs, cron, added, idOf, started, runs, runOf, result, removed>>

XAddLost(r) ==
  /\ Delivered(r)
  /\ UNCHANGED <<qvars, jobs, cron, added, idOf, started, runs, runOf, result, origin, removed>>

\* Variant for mutation: the library is not told that the run is over.
EndRunNever(r, outcome) ==
  /\ result[r] = "running"
  /\ UNCHANGED cronVars

EndRun(r, outcome) ==
  /\ result[r] = "running"
  /\ result' = [result EXCEPT ![r] = outcome]
  /\ UNCHANGED <<qvars, jobs, cron, added, idOf, started, runs, runOf, wire, origin, removed>>

\* Enqueue returns nil: the server answered one of the XADDs.
RunEnqueues(r) == TasksOf(r) # {} /\ EndRun(r, "nil")

\* Enqueue fails or its five seconds are over, whatever was or will be added:
\* the error is logged and the occurrence is not tried again.  A panic is
\* recovered inside SkipIfStillRunning, which ends as always.
RunFails(r) == EndRun(r, "error")

-----------------------------------------------------------------------------
RunStep(r) == RunEnqueues(r) \/ RunFails(r)

CronNext ==
  \/ StartCron \/ StopCron
  \/ \E i \in JobIds : AddJob(i) \/ RemoveJob(i)
  \/ \E e \in Entries : Fire(e)
  \/ \E r \in Runs : SendXAdd(r) \/ XAddRuns(r) \/ XAddLost(r) \/ RunStep(r)

CronSpec == CronInit /\ [][CronNext]_cronVars

\* A run comes to its end, if only by its deadline.
CronFairness == \A r \in Runs : WF_cronVars(RunStep(r))

-----------------------------------------------------------------------------
(* Properties                                                              *)

\* The map and the library agree: each listed job has an entry, so ListJobs
\* shows a time it will run at, and without reuse of ids every entry that
\* fires can be removed by its id.
RegistriesAgree ==
  /\ \A i \in JobIds : jobs[i] # NoEntry => jobs[i] \in cron /\ idOf[jobs[i]] = i
  /\ ReuseIds \/ \A e \in cron : jobs[idOf[e]] = e

\* A run that logged its task as enqueued has one in the queue, ahead of every
\* task of the job's later runs, although earlier runs may have failed, XADDs
\* were sent twice and some run when their run is long over (scheduler.go:
\* runJob, SkipIfStillRunning).
OccurrencesInOrder ==
  \A r \in Runs : result[r] = "nil" =>
    /\ TasksOf(r) # {}
    /\ \A q \in Runs : r < q /\ runOf[q] = runOf[r] =>
         \A p \in TasksOf(q) : \E first \in TasksOf(r) : first < p

\* A job whose run has begun is free for its next occurrence in the end.
RunsEnd == \A r \in Runs : result[r] = "running" ~> result[r] # "running"

\* scheduler.go:87, "RemoveJob unregisters a cron job": the id runs no more.
RemoveUnregisters == \A e \in removed : e \notin cron
=============================================================================
