---------------------------- MODULE RunnerProofs ----------------------------
(***************************************************************************)
(* Proofs about the parts of bzy-runner outside the pool, the life of a    *)
(* process and the health checker, for any number of ids, jobs, commands,  *)
(* writers, readers, requests and checks, and about the composition        *)
(* MCRunner, whose behaviours are one part's.  NodeRegistry has proofs of  *)
(* its own.                                                                *)
(***************************************************************************)
EXTENDS MCRunner, NodeRegistryProofs, SequenceTheorems, FiniteSetTheorems, WellFoundedInduction

-----------------------------------------------------------------------------
(* Scheduler                                                               *)
(*                                                                         *)
(* RegistriesAgree is inductive: two ids never point to one entry, since   *)
(* each points to an entry that was added under it, so removing one leaves *)
(* the others' entries in place.  OccurrencesInOrder rests on the skipped  *)
(* fires: a run that is under way is the last of its entry, so when its    *)
(* Enqueue returns nil no later run has a task yet, and every task that    *)
(* comes afterwards is appended behind its own.                            *)

WireOfRuns == \A r \in Runs : wire[r] > 0 => r <= runs

LastOfEntry ==
  \A r, q \in Runs : result[r] = "running" /\ r < q /\ q <= runs => runOf[q] # runOf[r]

\* Neither the registries nor their counter matter here.
RunInv == WireOfRuns /\ LastOfEntry /\ OccurrencesInOrder

CronInv == CronTypeOK /\ RegistriesAgree /\ RunInv

-----------------------------------------------------------------------------
(* The tasks of a run                                                      *)

LEMMA RunTypes ==
  ASSUME CronTypeOK
  PROVE  /\ runs \in Nat /\ runs <= MaxRuns /\ MaxRuns \in Nat /\ MaxSends \in Nat \ {0}
         /\ origin \in Seq(1..runs) /\ Len(origin) \in Nat /\ DOMAIN origin = 1..Len(origin)
         /\ \A p \in 1..Len(origin) : origin[p] \in 1..runs
         /\ \A r \in Runs : r \in Nat /\ wire[r] \in Nat /\ wire[r] <= MaxSends
<1>1. runs \in 0..MaxRuns /\ origin \in Seq(1..runs) /\ wire \in [Runs -> 0..MaxSends]
  BY DEF CronTypeOK
<1> QED
  BY <1>1, JobsAssumption DEF Runs

LEMMA TasksFinite ==
  ASSUME CronTypeOK, NEW r \in Runs
  PROVE  Cardinality(TasksOf(r)) \in Nat
<1>1. IsFiniteSet(1..Len(origin))
  BY RunTypes, FS_Interval
<1>2. TasksOf(r) \subseteq 1..Len(origin)
  BY RunTypes DEF TasksOf
<1> QED
  BY <1>1, <1>2, FS_Subset, FS_CardinalityType

LEMMA NoTasksYet ==
  ASSUME CronTypeOK, NEW r \in Runs, r > runs
  PROVE  TasksOf(r) = {}
BY RunTypes DEF TasksOf

-----------------------------------------------------------------------------
LEMMA CronInvInit == CronInit => CronInv
<1> SUFFICES ASSUME CronInit PROVE CronInv
  OBVIOUS
<1>1. CronTypeOK
  <2>1. QTypeOK
    <3>1. stream = <<>> /\ group = FALSE /\ cursor = 0 /\ pel = {}
      BY DEF CronInit, QInit
    <3>2. stream \in Seq(Kinds) /\ Len(stream) = 0
      BY <3>1
    <3>3. cursor \in 0..Len(stream) /\ pel \subseteq 1..cursor
      BY <3>1, <3>2
    <3> QED
      BY <3>1, <3>2, <3>3 DEF QTypeOK
  <2>2. added \in 0..MaxJobs /\ runs \in 0..MaxRuns
    BY JobsAssumption DEF CronInit
  <2>3. idOf \in [1..added -> JobIds]
    BY DEF CronInit
  <2>4. jobs \in [JobIds -> Entries \cup {NoEntry}] /\ runOf \in [Runs -> Entries \cup {NoEntry}]
    BY DEF CronInit
  <2>5. cron \subseteq 1..added /\ removed \subseteq 1..added /\ started \in BOOLEAN
    BY DEF CronInit
  <2>6. result \in [Runs -> {"none", "running", "nil", "error"}] /\ wire \in [Runs -> 0..MaxSends]
    BY JobsAssumption DEF CronInit
  <2>7. \A r \in Runs : result[r] # "none" <=> r <= runs
    BY DEF CronInit, Runs
  <2>8. origin \in Seq(1..runs) /\ Len(origin) = Len(stream)
    BY DEF CronInit, QInit
  <2> QED
    BY <2>1, <2>2, <2>3, <2>4, <2>5, <2>6, <2>7, <2>8 DEF CronTypeOK
<1>2. RegistriesAgree
  BY DEF CronInit, RegistriesAgree
<1>3. RunInv
  <2>1. \A r \in Runs : result[r] = "none" /\ wire[r] = 0
    BY DEF CronInit
  <2> QED
    BY <2>1 DEF RunInv, WireOfRuns, LastOfEntry, OccurrencesInOrder
<1> QED
  BY <1>1, <1>2, <1>3 DEF CronInv

-----------------------------------------------------------------------------
(* The registries                                                          *)

LEMMA RunInvKeeps ==
  ASSUME RunInv, UNCHANGED runVars
  PROVE  RunInv'
BY DEF RunInv, WireOfRuns, LastOfEntry, OccurrencesInOrder, TasksOf, runVars

LEMMA AddJobStep ==
  ASSUME CronInv, NEW i \in JobIds, AddJob(i)
  PROVE  CronInv'
<1>1. /\ added' = added + 1 /\ cron' = cron \cup {added + 1}
      /\ idOf' = Append(idOf, i) /\ jobs' = [jobs EXCEPT ![i] = added + 1]
      /\ added < MaxJobs /\ (ReuseIds \/ jobs[i] = NoEntry)
      /\ UNCHANGED <<qvars, started, runVars, removed>>
  BY DEF AddJob
<1>2. /\ added \in 0..MaxJobs /\ added' \in 0..MaxJobs /\ added' \in Entries
      /\ cron \subseteq 1..added /\ added' \notin cron
      /\ idOf \in [1..added -> JobIds] /\ jobs \in [JobIds -> Entries \cup {NoEntry}]
  BY <1>1, JobsAssumption DEF CronInv, CronTypeOK, Entries
<1>3. idOf \in Seq(JobIds) /\ Len(idOf) = added
  BY <1>2
<1>4. /\ idOf' \in Seq(JobIds) /\ Len(idOf') = added' /\ idOf'[added'] = i
      /\ \A e \in 1..added : idOf'[e] = idOf[e]
  BY <1>1, <1>2, <1>3
<1>5. idOf' \in [1..added' -> JobIds]
  BY <1>2, <1>4
<1>6. CronTypeOK'
  <2>1. QTypeOK' /\ UNCHANGED <<stream, runs, runOf, result, wire, origin>>
    BY <1>1 DEF CronInv, CronTypeOK, QTypeOK, qvars, runVars
  <2>2. cron' \subseteq 1..added' /\ removed' \subseteq 1..added'
    BY <1>1, <1>2 DEF CronInv, CronTypeOK
  <2>3. jobs' \in [JobIds -> Entries \cup {NoEntry}]
    BY <1>1, <1>2
  <2> QED
    BY <1>1, <1>2, <1>5, <2>1, <2>2, <2>3 DEF CronInv, CronTypeOK
<1>7. \A k \in JobIds : jobs'[k] = IF k = i THEN added' ELSE jobs[k]
  BY <1>1, <1>2
<1>8. RegistriesAgree'
  <2>1. ASSUME NEW k \in JobIds, jobs'[k] # NoEntry
        PROVE  jobs'[k] \in cron' /\ idOf'[jobs'[k]] = k
    <3>1. CASE k = i
      BY <1>1, <1>4, <1>7, <3>1
    <3>2. CASE k # i
      <4>1. jobs[k] \in cron /\ idOf[jobs[k]] = k
        BY <1>7, <2>1, <3>2 DEF CronInv, RegistriesAgree
      <4> QED
        BY <1>1, <1>2, <1>4, <1>7, <3>2, <4>1
    <3> QED
      BY <3>1, <3>2
  <2>2. ASSUME ~ReuseIds, NEW e \in cron'
        PROVE  jobs'[idOf'[e]] = e
    <3>1. CASE e = added'
      BY <1>4, <1>7, <3>1
    <3>2. CASE e \in cron
      <4>1. idOf'[e] = idOf[e] /\ idOf[e] \in JobIds /\ jobs[idOf[e]] = e
        BY <1>2, <1>4, <2>2, <3>2 DEF CronInv, RegistriesAgree
      <4>2. e # NoEntry
        BY <1>2, <3>2, JobsAssumption
      <4>3. idOf[e] # i
        BY <1>1, <2>2, <4>1, <4>2
      <4> QED
        BY <1>7, <4>1, <4>3
    <3> QED
      BY <1>1, <2>2, <3>1, <3>2
  <2> QED
    BY <2>1, <2>2 DEF RegistriesAgree
<1>9. RunInv'
  BY <1>1, RunInvKeeps DEF CronInv
<1> QED
  BY <1>6, <1>8, <1>9 DEF CronInv

LEMMA RemoveJobStep ==
  ASSUME CronInv, NEW i \in JobIds, RemoveJob(i)
  PROVE  CronInv'
<1>1. /\ jobs[i] # NoEntry /\ cron' = cron \ {jobs[i]}
      /\ jobs' = [jobs EXCEPT ![i] = NoEntry]
      /\ removed' = removed \cup {e \in 1..added : idOf[e] = i}
      /\ UNCHANGED <<qvars, added, idOf, started, runVars>>
  BY DEF RemoveJob
<1>2. jobs \in [JobIds -> Entries \cup {NoEntry}]
  BY DEF CronInv, CronTypeOK
<1>3. CronTypeOK'
  <2>1. QTypeOK' /\ UNCHANGED <<stream, runs, runOf, result, wire, origin>>
    BY <1>1 DEF CronInv, CronTypeOK, QTypeOK, qvars, runVars
  <2>2. jobs' \in [JobIds -> Entries \cup {NoEntry}]
    BY <1>1, <1>2
  <2>3. cron' \subseteq 1..added' /\ removed' \subseteq 1..added'
    BY <1>1 DEF CronInv, CronTypeOK
  <2> QED
    BY <1>1, <2>1, <2>2, <2>3 DEF CronInv, CronTypeOK
<1>4. \A k \in JobIds : jobs'[k] = IF k = i THEN NoEntry ELSE jobs[k]
  BY <1>1, <1>2
<1>5. RegistriesAgree'
  <2>1. ASSUME NEW k \in JobIds, jobs'[k] # NoEntry
        PROVE  jobs'[k] \in cron' /\ idOf'[jobs'[k]] = k
    <3>1. k # i /\ jobs'[k] = jobs[k]
      BY <1>4, <2>1
    <3>2. jobs[k] \in cron /\ idOf[jobs[k]] = k /\ idOf[jobs[i]] = i
      BY <1>1, <2>1, <3>1 DEF CronInv, RegistriesAgree
    <3> QED
      BY <1>1, <3>1, <3>2
  <2>2. ASSUME ~ReuseIds, NEW e \in cron'
        PROVE  jobs'[idOf'[e]] = e
    <3>1. e \in cron /\ e # jobs[i] /\ jobs[idOf[e]] = e /\ idOf[e] \in JobIds
      BY <1>1, <2>2 DEF CronInv, CronTypeOK, RegistriesAgree
    <3> QED
      BY <1>1, <1>4, <3>1
  <2> QED
    BY <2>1, <2>2 DEF RegistriesAgree
<1>6. RunInv'
  BY <1>1, RunInvKeeps DEF CronInv
<1> QED
  BY <1>3, <1>5, <1>6 DEF CronInv

-----------------------------------------------------------------------------
(* The runs                                                                *)

\* A step of a run leaves the registries alone.
LEMMA RegistriesKeep ==
  ASSUME RegistriesAgree, UNCHANGED <<jobs, cron, added, idOf, started, removed>>
  PROVE  RegistriesAgree'
BY DEF RegistriesAgree

LEMMA FireStep ==
  ASSUME CronInv, NEW e \in Entries, Fire(e)
  PROVE  CronInv'
<1>1. /\ runs < MaxRuns /\ runs' = runs + 1
      /\ runOf' = [runOf EXCEPT ![runs + 1] = e]
      /\ result' = [result EXCEPT ![runs + 1] = "running"]
      /\ UNCHANGED <<qvars, jobs, cron, added, idOf, started, wire, origin, removed>>
      /\ \A r \in Runs : result[r] = "running" => runOf[r] # e
  BY DEF Fire, RunBegins, Running
<1>2. /\ runs \in Nat /\ MaxRuns \in Nat /\ runs + 1 \in Runs
      /\ runOf \in [Runs -> Entries \cup {NoEntry}]
      /\ result \in [Runs -> {"none", "running", "nil", "error"}]
      /\ origin \in Seq(1..runs) /\ Len(origin) \in Nat
      /\ \A r \in Runs : result[r] # "none" <=> r <= runs
  BY <1>1, RunTypes DEF CronInv, CronTypeOK, Runs
<1>3. /\ \A r \in Runs : result'[r] = IF r = runs + 1 THEN "running" ELSE result[r]
      /\ \A r \in Runs : runOf'[r] = IF r = runs + 1 THEN e ELSE runOf[r]
      /\ result' \in [Runs -> {"none", "running", "nil", "error"}]
      /\ runOf' \in [Runs -> Entries \cup {NoEntry}]
  BY <1>1, <1>2
<1>4. origin' \in Seq(1..runs')
  BY <1>1, <1>2
<1>5. CronTypeOK'
  <2>1. QTypeOK' /\ stream' = stream
    BY <1>1 DEF CronInv, CronTypeOK, QTypeOK, qvars
  <2>2. runs' \in 0..MaxRuns
    BY <1>1, <1>2
  <2>3. \A r \in Runs : result'[r] # "none" <=> r <= runs'
    BY <1>1, <1>2, <1>3 DEF Runs
  <2> QED
    BY <1>1, <1>3, <1>4, <2>1, <2>2, <2>3 DEF CronInv, CronTypeOK
<1>6. RegistriesAgree'
  BY <1>1, RegistriesKeep DEF CronInv
<1>7. WireOfRuns'
  BY <1>1, <1>2 DEF CronInv, RunInv, WireOfRuns, Runs
<1>8. LastOfEntry'
  BY <1>1, <1>2, <1>3 DEF CronInv, RunInv, LastOfEntry, Runs
<1>9. OccurrencesInOrder'
  <2> SUFFICES ASSUME NEW r \in Runs, result'[r] = "nil"
               PROVE  /\ TasksOf(r)' # {}
                      /\ \A q \in Runs : r < q /\ runOf'[q] = runOf'[r] =>
                           \A p \in TasksOf(q)' : \E first \in TasksOf(r)' : first < p
    BY DEF OccurrencesInOrder
  <2>1. \A q \in Runs : TasksOf(q)' = TasksOf(q)
    BY <1>1 DEF TasksOf
  <2>2. r # runs + 1 /\ result[r] = "nil" /\ runOf'[r] = runOf[r]
    BY <1>3
  <2>3. TasksOf(runs + 1) = {}
    BY <1>2, NoTasksYet DEF CronInv
  <2>4. /\ TasksOf(r) # {}
        /\ \A q \in Runs : r < q /\ runOf[q] = runOf[r] =>
             \A p \in TasksOf(q) : \E first \in TasksOf(r) : first < p
    BY <2>2 DEF CronInv, RunInv, OccurrencesInOrder
  <2>5. \A q \in Runs : q # runs + 1 => runOf'[q] = runOf[q]
    BY <1>3
  <2> QED
    BY <2>1, <2>2, <2>3, <2>4, <2>5
<1> QED
  BY <1>5, <1>6, <1>7, <1>8, <1>9 DEF CronInv, RunInv

LEMMA SendXAddStep ==
  ASSUME CronInv, NEW r \in Runs, SendXAdd(r) \/ XAddLost(r)
  PROVE  CronInv'
<1>1. /\ UNCHANGED <<qvars, jobs, cron, added, idOf, started, runs, runOf, result, origin, removed>>
      /\ \/ /\ result[r] = "running" /\ wire[r] + Cardinality(TasksOf(r)) < MaxSends
            /\ wire' = [wire EXCEPT ![r] = @ + 1]
         \/ wire[r] > 0 /\ wire' = [wire EXCEPT ![r] = @ - 1]
  BY DEF SendXAdd, XAddLost, Delivered
<1>2. wire \in [Runs -> 0..MaxSends] /\ MaxSends \in Nat /\ Cardinality(TasksOf(r)) \in Nat
  BY TasksFinite, RunTypes DEF CronInv, CronTypeOK
<1>3. /\ wire' \in [Runs -> 0..MaxSends]
      /\ \A q \in Runs : q # r => wire'[q] = wire[q]
  BY <1>1, <1>2
<1>4. CronTypeOK'
  <2>1. QTypeOK' /\ stream' = stream
    BY <1>1 DEF CronInv, CronTypeOK, QTypeOK, qvars
  <2> QED
    BY <1>1, <1>3, <2>1 DEF CronInv, CronTypeOK
<1>5. RegistriesAgree'
  BY <1>1, RegistriesKeep DEF CronInv
<1>6. WireOfRuns'
  <2>1. r <= runs
    BY <1>1 DEF CronInv, CronTypeOK, RunInv, WireOfRuns
  <2> QED
    BY <1>1, <1>3, <2>1 DEF CronInv, RunInv, WireOfRuns
<1>7. LastOfEntry' /\ OccurrencesInOrder'
  BY <1>1 DEF CronInv, RunInv, LastOfEntry, OccurrencesInOrder, TasksOf
<1> QED
  BY <1>4, <1>5, <1>6, <1>7 DEF CronInv, RunInv

LEMMA XAddRunsStep ==
  ASSUME CronInv, NEW r \in Runs, XAddRuns(r)
  PROVE  CronInv'
<1>1. /\ wire[r] > 0 /\ wire' = [wire EXCEPT ![r] = @ - 1]
      /\ stream' = Append(stream, "known") /\ UNCHANGED <<group, cursor, pel>>
      /\ origin' = Append(origin, r)
      /\ UNCHANGED <<jobs, cron, added, idOf, started, runs, runOf, result, removed>>
  BY DEF XAddRuns, Delivered, Enqueue
<1>2. /\ wire \in [Runs -> 0..MaxSends] /\ MaxSends \in Nat /\ runs \in Nat
      /\ stream \in Seq(Kinds) /\ origin \in Seq(1..runs) /\ Len(origin) = Len(stream)
      /\ Len(stream) \in Nat /\ r \in 1..runs
  <2>1. CronTypeOK /\ WireOfRuns
    BY DEF CronInv, RunInv
  <2>2. wire \in [Runs -> 0..MaxSends] /\ stream \in Seq(Kinds) /\ Len(origin) = Len(stream)
    BY <2>1 DEF CronTypeOK, QTypeOK
  <2>3. r <= runs /\ r \in 1..MaxRuns
    BY <1>1, <2>1 DEF WireOfRuns, Runs
  <2>4. runs \in Nat /\ MaxSends \in Nat /\ MaxRuns \in Nat /\ origin \in Seq(1..runs)
    BY <2>1, RunTypes
  <2>5. r \in 1..runs
    BY <2>3, <2>4
  <2> QED
    BY <2>2, <2>4, <2>5
<1>3. /\ wire' \in [Runs -> 0..MaxSends]
      /\ \A q \in Runs : wire'[q] > 0 => wire[q] > 0
  BY <1>1, <1>2
<1>4. /\ stream' \in Seq(Kinds) /\ Len(stream') = Len(stream) + 1
      /\ origin' \in Seq(1..runs) /\ Len(origin') = Len(origin) + 1
      /\ origin'[Len(origin) + 1] = r
      /\ \A p \in 1..Len(origin) : origin'[p] = origin[p]
  BY <1>1, <1>2, JobsAssumption
<1>5. CronTypeOK'
  <2>1. QTypeOK'
    BY <1>1, <1>2, <1>4 DEF CronInv, CronTypeOK, QTypeOK
  <2> QED
    BY <1>1, <1>2, <1>3, <1>4, <2>1 DEF CronInv, CronTypeOK
<1>6. RegistriesAgree'
  BY <1>1, RegistriesKeep DEF CronInv
<1>7. WireOfRuns' /\ LastOfEntry'
  BY <1>1, <1>3 DEF CronInv, RunInv, WireOfRuns, LastOfEntry
<1>8. OccurrencesInOrder'
  <2>1. \A q \in Runs : \A p : p \in TasksOf(q)' <=> p \in TasksOf(q) \/ (p = Len(origin) + 1 /\ q = r)
    <3>1. DOMAIN origin = 1..Len(origin) /\ DOMAIN origin' = 1..Len(origin')
      BY <1>2, <1>4
    <3>2. \A p : p \in 1..Len(origin') <=> p \in 1..Len(origin) \/ p = Len(origin) + 1
      BY <1>2, <1>4
    <3>3. Len(origin) + 1 \notin 1..Len(origin)
      BY <1>2
    <3> QED
      BY <1>4, <3>1, <3>2, <3>3 DEF TasksOf
  <2>2. \A q \in Runs : \A p \in TasksOf(q) : p < Len(origin) + 1
    BY <1>2 DEF TasksOf
  <2> SUFFICES ASSUME NEW k \in Runs, result'[k] = "nil"
               PROVE  /\ TasksOf(k)' # {}
                      /\ \A q \in Runs : k < q /\ runOf'[q] = runOf'[k] =>
                           \A p \in TasksOf(q)' : \E first \in TasksOf(k)' : first < p
    BY DEF OccurrencesInOrder
  <2>3. /\ TasksOf(k) # {}
        /\ \A q \in Runs : k < q /\ runOf[q] = runOf[k] =>
             \A p \in TasksOf(q) : \E first \in TasksOf(k) : first < p
    BY <1>1 DEF CronInv, RunInv, OccurrencesInOrder
  <2>4. PICK one \in TasksOf(k) : TRUE
    BY <2>3
  <2>5. one \in TasksOf(k)' /\ one < Len(origin) + 1
    BY <2>1, <2>2, <2>4
  <2>6. ASSUME NEW q \in Runs, k < q, runOf'[q] = runOf'[k], NEW p \in TasksOf(q)'
        PROVE  \E first \in TasksOf(k)' : first < p
    <3>1. CASE p \in TasksOf(q)
      <4>1. PICK first \in TasksOf(k) : first < p
        BY <1>1, <2>3, <2>6, <3>1
      <4> QED
        BY <2>1, <4>1
    <3>2. CASE p = Len(origin) + 1
      BY <2>5, <3>2
    <3> QED
      BY <2>1, <2>6, <3>1, <3>2
  <2> QED
    BY <2>5, <2>6
<1> QED
  BY <1>5, <1>6, <1>7, <1>8 DEF CronInv, RunInv

LEMMA RunEndStep ==
  ASSUME CronInv, NEW r \in Runs, RunStep(r)
  PROVE  CronInv'
<1>1. /\ result[r] = "running"
      /\ \/ result' = [result EXCEPT ![r] = "nil"] /\ TasksOf(r) # {}
         \/ result' = [result EXCEPT ![r] = "error"]
      /\ UNCHANGED <<qvars, jobs, cron, added, idOf, started, runs, runOf, wire, origin, removed>>
  BY DEF RunStep, RunEnqueues, RunFails, EndRun
<1>2. /\ result \in [Runs -> {"none", "running", "nil", "error"}]
      /\ \A q \in Runs : result[q] # "none" <=> q <= runs
      /\ runs \in Nat /\ \A q \in Runs : q \in Nat
  BY RunTypes DEF CronInv, CronTypeOK
<1>3. /\ result' \in [Runs -> {"none", "running", "nil", "error"}]
      /\ \A q \in Runs : q # r => result'[q] = result[q]
      /\ result'[r] \in {"nil", "error"} /\ (result'[r] = "nil" => TasksOf(r) # {})
  BY <1>1, <1>2
<1>4. CronTypeOK'
  <2>1. QTypeOK' /\ stream' = stream
    BY <1>1 DEF CronInv, CronTypeOK, QTypeOK, qvars
  <2>2. \A q \in Runs : result'[q] # "none" <=> q <= runs'
    <3>1. r <= runs
      BY <1>1, <1>2
    <3> QED
      BY <1>1, <1>2, <1>3, <3>1
  <2> QED
    BY <1>1, <1>3, <2>1, <2>2 DEF CronInv, CronTypeOK
<1>5. RegistriesAgree'
  BY <1>1, RegistriesKeep DEF CronInv
<1>6. WireOfRuns'
  BY <1>1 DEF CronInv, RunInv, WireOfRuns
<1>7. LastOfEntry'
  BY <1>1, <1>3 DEF CronInv, RunInv, LastOfEntry
<1>8. OccurrencesInOrder'
  <2>1. \A q \in Runs : TasksOf(q)' = TasksOf(q)
    BY <1>1 DEF TasksOf
  <2>2. \A q \in Runs : r < q /\ runOf[q] = runOf[r] => TasksOf(q) = {}
    <3> SUFFICES ASSUME NEW q \in Runs, r < q, runOf[q] = runOf[r] PROVE TasksOf(q) = {}
      OBVIOUS
    <3>1. ~ (q <= runs)
      BY <1>1 DEF CronInv, RunInv, LastOfEntry
    <3>2. q > runs
      BY <1>2, <3>1
    <3> QED
      BY <3>2, NoTasksYet DEF CronInv
  <2>3. ASSUME NEW k \in Runs, result'[k] = "nil", k # r
        PROVE  /\ TasksOf(k) # {}
               /\ \A q \in Runs : k < q /\ runOf[q] = runOf[k] =>
                    \A p \in TasksOf(q) : \E first \in TasksOf(k) : first < p
    BY <1>3, <2>3 DEF CronInv, RunInv, OccurrencesInOrder
  <2>4. runOf' = runOf
    BY <1>1
  <2> QED
    BY <1>3, <2>1, <2>2, <2>3, <2>4 DEF OccurrencesInOrder
<1> QED
  BY <1>4, <1>5, <1>6, <1>7, <1>8 DEF CronInv, RunInv

LEMMA CronInvStep == CronInv /\ [CronNext]_cronVars => CronInv'
<1> SUFFICES ASSUME CronInv, [CronNext]_cronVars PROVE CronInv'
  OBVIOUS
<1>1. ASSUME \/ StartCron \/ StopCron \/ UNCHANGED cronVars
      PROVE  CronInv'
  <2>1. started' \in BOOLEAN /\ UNCHANGED <<qvars, jobs, cron, added, idOf, runVars, removed>>
    BY <1>1 DEF StartCron, StopCron, cronVars, svars, CronInv, CronTypeOK
  <2>2. CronTypeOK'
    BY <2>1 DEF CronInv, CronTypeOK, QTypeOK, qvars, runVars
  <2>3. RegistriesAgree'
    BY <2>1 DEF CronInv, RegistriesAgree
  <2>4. RunInv'
    BY <2>1, RunInvKeeps DEF CronInv
  <2> QED
    BY <2>2, <2>3, <2>4 DEF CronInv
<1> QED
  BY <1>1, AddJobStep, RemoveJobStep, FireStep, SendXAddStep, XAddRunsStep, RunEndStep DEF CronNext

LEMMA CronInvariant == CronSpec => []CronInv
BY CronInvInit, CronInvStep, PTL DEF CronSpec

-----------------------------------------------------------------------------
\* The jobs map and the cron library agree: a listed job has an entry that was
\* added under its id, and without reuse of ids every entry that fires can be
\* removed (scheduler.go: AddJob, RemoveJob, ListJobs).
THEOREM RegistriesAgreeCorrect == CronSpec => []RegistriesAgree
BY CronInvariant, PTL DEF CronInv

\* A run that logged its task as enqueued has one in the queue, ahead of every
\* task of the job's later runs, however often XADDs are sent and however late
\* they run (scheduler.go: runJob, SkipIfStillRunning).
THEOREM OccurrencesInOrderCorrect == CronSpec => []OccurrencesInOrder
BY CronInvariant, PTL DEF CronInv, RunInv

-----------------------------------------------------------------------------
(* Executor                                                                *)
(*                                                                         *)
(* What Run returned stays true because a pipe that has ended never comes  *)
(* back (OutputComplete is stable) and a command that ended well has taken *)
(* its container with it (Settled).                                        *)

\* A call without a command has no processes, no container and no output; a
\* command that ended well has no container left.
Settled ==
  \A x \in Cmds :
    /\ runAt[x] = "none" =>
         child[x] = "none" /\ offspring[x] = 0 /\ ~container[x] /\ wrote[x] = 0 /\ copied[x] = 0
    /\ runAt[x] = "wait" => child[x] # "none"
    /\ child[x] = "none" => offspring[x] = 0 /\ ~container[x] /\ copied[x] = wrote[x]
    /\ child[x] = "ok" => ~container[x]

ExecInv == ExecTypeOK /\ Settled /\ OutputComplete

-----------------------------------------------------------------------------
LEMMA ExecInvInit == ExecInit => ExecInv
BY ExecutorAssumption DEF ExecInit, ExecInv, ExecTypeOK, Settled, OutputComplete

\* What begins, ends or is killed.
LEMMA CommandStep ==
  ASSUME ExecInv, NEW x \in Cmds,
         \/ \E t \in BOOLEAN : RunLocal(x, t) \/ RunDocker(x, t)
         \/ RunRefused(x) \/ Expires(x) \/ ContainerExits(x)
         \/ \E s \in {"ok", "error"} : ChildExits(x, s)
         \/ Kill(x)
  PROVE  ExecInv'
<1> USE ExecutorAssumption DEF ExecInv, ExecTypeOK
<1>1. ASSUME NEW d \in BOOLEAN, NEW t \in BOOLEAN, RunCommand(x, d, t)
      PROVE  ExecInv'
  <2>1. ExecTypeOK'
    BY <1>1 DEF RunCommand
  <2>2. Settled'
    BY <1>1 DEF RunCommand, Settled
  <2>3. OutputComplete'
    BY <1>1 DEF RunCommand, Settled, OutputComplete, HasPipes
  <2> QED
    BY <2>1, <2>2, <2>3
<1>2. CASE RunRefused(x)
  <2>1. ExecTypeOK'
    BY <1>2 DEF RunRefused, Returns
  <2>2. Settled' /\ OutputComplete'
    BY <1>2 DEF RunRefused, Returns, Settled, OutputComplete, HasPipes
  <2> QED
    BY <2>1, <2>2
<1>3. CASE Expires(x)
  <2>1. ExecTypeOK'
    BY <1>3 DEF Expires
  <2>2. Settled' /\ OutputComplete'
    BY <1>3 DEF Expires, Settled, OutputComplete, HasPipes
  <2> QED
    BY <2>1, <2>2
<1>4. CASE ContainerExits(x)
  <2>1. ExecTypeOK'
    BY <1>4 DEF ContainerExits
  <2>2. Settled' /\ OutputComplete'
    BY <1>4 DEF ContainerExits, Settled, OutputComplete, HasPipes
  <2> QED
    BY <2>1, <2>2
<1>5. ASSUME NEW s \in {"ok", "error"}, ChildExits(x, s)
      PROVE  ExecInv'
  <2>1. ExecTypeOK'
    BY <1>5 DEF ChildExits
  <2>2. Settled'
    BY <1>5 DEF ChildExits, Settled
  <2>3. OutputComplete'
    BY <1>5 DEF ChildExits, Settled, OutputComplete, HasPipes
  <2> QED
    BY <2>1, <2>2, <2>3
<1>6. CASE Kill(x)
  <2>1. ExecTypeOK'
    BY <1>6 DEF Kill
  <2>2. Settled' /\ OutputComplete'
    BY <1>6 DEF Kill, Settled, OutputComplete, HasPipes
  <2> QED
    BY <2>1, <2>2
<1> QED
  BY <1>1, <1>2, <1>3, <1>4, <1>5, <1>6 DEF RunLocal, RunDocker

\* What goes on at the pipes, and the end of Run.
LEMMA PipeStep ==
  ASSUME ExecInv, NEW x \in Cmds,
         Forks(x) \/ OffspringExits(x) \/ Writes(x) \/ Copy(x) \/ Waited(x)
  PROVE  ExecInv'
<1> USE ExecutorAssumption DEF ExecInv, ExecTypeOK
<1>1. CASE Forks(x)
  <2>1. ExecTypeOK'
    BY <1>1 DEF Forks
  <2>2. Settled' /\ OutputComplete'
    BY <1>1 DEF Forks, Settled, OutputComplete, HasPipes
  <2> QED
    BY <2>1, <2>2
<1>2. CASE OffspringExits(x)
  <2>1. ExecTypeOK'
    BY <1>2 DEF OffspringExits
  <2>2. Settled' /\ OutputComplete'
    BY <1>2 DEF OffspringExits, Settled, OutputComplete, HasPipes
  <2> QED
    BY <2>1, <2>2
<1>3. CASE Writes(x)
  <2>1. ExecTypeOK'
    BY <1>3 DEF Writes
  <2>2. Settled' /\ OutputComplete'
    BY <1>3 DEF Writes, Settled, OutputComplete, HasPipes
  <2> QED
    BY <2>1, <2>2
<1>4. CASE Copy(x)
  <2>1. ExecTypeOK'
    BY <1>4 DEF Copy
  <2>2. Settled' /\ OutputComplete'
    BY <1>4 DEF Copy, Settled, OutputComplete, HasPipes
  <2> QED
    BY <2>1, <2>2
<1>5. CASE Waited(x)
  <2>1. PICK how \in Outcome(x) : Returns(x, how)
    BY <1>5 DEF Waited
  <2>2. how \in {"nil", "ExitError", "error"} /\ (how = "nil" => child[x] = "ok")
    BY <2>1 DEF Outcome
  <2>3. ExecTypeOK'
    BY <1>5, <2>1, <2>2 DEF Waited, Returns
  <2>4. Settled'
    BY <1>5, <2>1 DEF Waited, Returns, Settled
  <2>5. OutputComplete'
    BY <1>5, <2>1, <2>2 DEF Waited, Returns, Settled, OutputComplete, HasPipes
  <2> QED
    BY <2>3, <2>4, <2>5
<1> QED
  BY <1>1, <1>2, <1>3, <1>4, <1>5

LEMMA ExecInvStep == ExecInv /\ [ExecNext]_execVars => ExecInv'
<1> SUFFICES ASSUME ExecInv, [ExecNext]_execVars PROVE ExecInv'
  OBVIOUS
<1>1. CASE UNCHANGED execVars
  BY <1>1 DEF execVars, ExecInv, ExecTypeOK, Settled, OutputComplete, HasPipes
<1> QED
  BY <1>1, CommandStep, PipeStep DEF ExecNext, ExecStep

-----------------------------------------------------------------------------
\* When Run has returned, what it returned is final: its buffers hold all that
\* was written, nobody can write any more, and a nil error means that the
\* command succeeded and left no container (executor.go Run).
THEOREM OutputCompleteCorrect == ExecSpec => []OutputComplete
BY ExecInvInit, ExecInvStep, PTL DEF ExecSpec, ExecInv

-----------------------------------------------------------------------------
(* Log streams                                                             *)

\* A set of natural numbers has a least member, which Min names.
LEMMA MinFacts ==
  ASSUME NEW I \in SUBSET Nat, I # {}
  PROVE  Min(I) \in I /\ \A i \in I : Min(I) <= i
<1>1. PICK x \in I : \A y \in I : ~(<<y, x>> \in OpToRel(<, Nat))
  BY NatLessThanWellFounded, WFMin
<1>2. \A y \in I : ~(y < x)
  BY <1>1 DEF OpToRel
<1>3. \A y \in I : x <= y
  <2> TAKE y \in I
  <2>1. x \in Nat /\ y \in Nat /\ ~(y < x)
    BY <1>2
  <2> QED
    BY <2>1
<1>4. \E z \in I : \A y \in I : z <= y
  BY <1>3
<1> QED
  BY <1>4 DEF Min

\* Entries of one writer are in the order of their numbers, but for those of A
\* that come first and those of B that come second.
Rising(s, A, B) ==
  \A i, j \in 1..Len(s) :
    i < j /\ s[i][1] = s[j][1] /\ s[i] \notin A /\ s[j] \notin B => s[i][2] < s[j][2]

\* A log of some of the entries of K: once it has an entry it has the later
\* ones of the same writer, and all are in order, but for the entries of X.
Recent(s, K, X) ==
  /\ Rising(s, X, X) /\ \A i \in 1..Len(s) : s[i] \in K
  /\ \A i \in 1..Len(s) : \A e \in K \ X :
       s[i] \notin X /\ e[1] = s[i][1] /\ e[2] > s[i][2] => \E j \in 1..Len(s) : s[j] = e

\* The entries with a command of this kind that outlived its call.
Outlived(op) == {e \in LogEntries : <<op, e>> \in strays}

\* The whole way of a published entry to the reader of a Tail.
Way(t) == received[t] \o (holding[t] \o buffer[t])

\* Entries go only from the front of the log, and an entry is published before
\* its writer begins the next one.
LogPlace ==
  /\ Recent(log, kept, Outlived("xadd"))
  /\ \A e \in kept : e[2] <= writes[e[1]]
  /\ \A w \in Writers : writeAt[w] = "publish" => <<w, writes[w]>> \in kept

\* A command that outlived its call was begun; a PUBLISH that did is of an
\* earlier entry than the one that is still to be published.
StrayPlace ==
  /\ \A e \in Outlived("xadd") : e[2] <= writes[e[1]]
  /\ \A e \in Outlived("publish") : e \in kept /\ (writeAt[e[1]] = "publish" => e[2] < writes[e[1]])

\* What is on its way was kept, in order, and the entry that is still to be
\* published comes after all of it.
WayPlace ==
  \A t \in Tails :
    /\ tailAt[t] # "send" => holding[t] = <<>>
    /\ Rising(Way(t), {}, Outlived("publish"))
    /\ \A i \in 1..Len(Way(t)) :
         /\ Way(t)[i] \in kept
         /\ writeAt[Way(t)[i][1]] = "publish" => Way(t)[i][2] < writes[Way(t)[i][1]]

LogShape ==
  /\ log \in Seq(LogEntries) /\ Len(log) <= MaxLen
  /\ buffer \in [Tails -> Seq(LogEntries)] /\ holding \in [Tails -> Seq(LogEntries)]
  /\ received \in [Tails -> Seq(LogEntries)]

LogInv == LogTypeOK /\ LogShape /\ LogPlace /\ StrayPlace /\ WayPlace

LEMMA LogInvInit == LogInit => LogInv
<1> SUFFICES ASSUME LogInit PROVE LogInv
  OBVIOUS
<1>1. /\ log = <<>> /\ kept = {} /\ Len(<<>>) = 0 /\ strays = {} /\ pending = {}
      /\ \A t \in Tails : buffer[t] = <<>> /\ holding[t] = <<>> /\ received[t] = <<>>
      /\ \A w \in Writers : writeAt[w] = "idle"
  BY DEF LogInit
<1>2. <<>> \in Seq(LogEntries) /\ <<>> \in BoundedSeq(LogEntries, MaxLen)
  BY LogAssumption DEF BoundedSeq, SeqOf
<1>3. LogTypeOK /\ LogShape
  BY <1>1, <1>2, LogAssumption DEF LogInit, LogTypeOK, LogShape
<1>4. \A t \in Tails : Way(t) = <<>>
  BY <1>1 DEF Way
<1>5. StrayPlace
  BY <1>1 DEF StrayPlace, Outlived
<1> QED
  BY <1>1, <1>3, <1>4, <1>5 DEF LogInv, LogPlace, WayPlace, Recent, Rising

\* Adding an entry with the next number of its writer, or one of B.
LEMMA RisingAppend ==
  ASSUME NEW s \in Seq(LogEntries), NEW e \in LogEntries, NEW A, NEW B, Rising(s, A, B),
         \/ e \in B
         \/ \A i \in 1..Len(s) : s[i][1] = e[1] => s[i][2] < e[2]
  PROVE  Rising(Append(s, e), A, B)
<1>1. /\ Append(s, e) \in Seq(LogEntries) /\ Len(Append(s, e)) = Len(s) + 1 /\ Len(s) \in Nat
      /\ Append(s, e)[Len(s) + 1] = e /\ \A i \in 1..Len(s) : Append(s, e)[i] = s[i]
  OBVIOUS
<1> QED
  BY <1>1 DEF Rising

LEMMA RisingMore ==
  ASSUME NEW s, NEW A, NEW B, NEW C, NEW D, Rising(s, A, B), A \subseteq C, B \subseteq D
  PROVE  Rising(s, C, D)
BY DEF Rising

LEMMA RecentMore ==
  ASSUME NEW s, NEW K, NEW X, NEW Y, Recent(s, K, X), X \subseteq Y
  PROVE  Recent(s, K, Y)
<1>1. Rising(s, Y, Y)
  BY RisingMore DEF Recent
<1> QED
  BY <1>1 DEF Recent

LEMMA RecentAppend ==
  ASSUME NEW K \in SUBSET LogEntries, NEW s \in Seq(LogEntries), NEW e \in LogEntries, NEW X,
         Recent(s, K, X), e \in X \/ \A f \in K : f[1] = e[1] => f[2] < e[2]
  PROVE  Recent(Append(s, e), K \cup {e}, X)
<1>1. /\ Append(s, e) \in Seq(LogEntries) /\ Len(Append(s, e)) = Len(s) + 1 /\ Len(s) \in Nat
      /\ Append(s, e)[Len(s) + 1] = e /\ \A i \in 1..Len(s) : Append(s, e)[i] = s[i]
  OBVIOUS
<1> DEFINE long == Append(s, e)
<1>2. Rising(long, X, X)
  BY RisingAppend DEF Recent
<1>3. \A i \in 1..Len(long) : long[i] \in K \cup {e}
  BY <1>1 DEF Recent
<1>4. e[2] \in Nat /\ \A f \in K : f[2] \in Nat
  BY DEF LogEntries
<1> SUFFICES ASSUME NEW i \in 1..Len(long), NEW f \in (K \cup {e}) \ X,
                    long[i] \notin X, f[1] = long[i][1], f[2] > long[i][2]
             PROVE  \E j \in 1..Len(long) : long[j] = f
  BY <1>2, <1>3 DEF Recent
<1>5. CASE f = e
  BY <1>1, <1>5
<1>6. CASE f # e
  <2>1. f \in K \ X
    BY <1>6
  <2>2. i \in 1..Len(s)
    <3> SUFFICES ASSUME i \notin 1..Len(s) PROVE FALSE
      OBVIOUS
    <3>1. i = Len(s) + 1 /\ long[i] = e
      BY <1>1
    <3>2. f[2] < e[2]
      BY <2>1, <3>1
    <3> QED
      BY <1>4, <2>1, <3>1, <3>2
  <2>3. long[i] = s[i]
    BY <1>1, <2>2
  <2>4. PICK j \in 1..Len(s) : s[j] = f
    BY <2>1, <2>2, <2>3 DEF Recent
  <2>5. j \in 1..Len(long) /\ long[j] = f
    BY <1>1, <2>4
  <2> QED
    BY <2>5
<1> QED
  BY <1>5, <1>6

\* Trimming the front.
LEMMA RecentTail ==
  ASSUME NEW K \in SUBSET LogEntries, NEW s \in Seq(LogEntries), NEW X, s # <<>>, Recent(s, K, X)
  PROVE  Recent(Tail(s), K, X)
<1> DEFINE t == Tail(s)
<1>1. /\ t \in Seq(LogEntries) /\ Len(t) = Len(s) - 1 /\ Len(s) \in Nat /\ Len(s) > 0
      /\ \A i \in 1..Len(t) : t[i] = s[i + 1]
  OBVIOUS
<1>2. \A i \in 1..Len(t) : i + 1 \in 1..Len(s) /\ t[i] = s[i + 1]
  BY <1>1
<1>3. \A f \in K : f[2] \in Nat
  BY DEF LogEntries
<1> HIDE DEF t
<1>4. \A i \in 1..Len(t) : t[i] \in K
  BY <1>2 DEF Recent
<1>5. Rising(t, X, X)
  <2> SUFFICES ASSUME NEW i \in 1..Len(t), NEW j \in 1..Len(t), i < j, t[i][1] = t[j][1],
                      t[i] \notin X, t[j] \notin X
               PROVE  t[i][2] < t[j][2]
    BY DEF Rising
  <2>1. /\ i + 1 < j + 1 /\ i + 1 \in 1..Len(s) /\ j + 1 \in 1..Len(s)
        /\ t[i] = s[i + 1] /\ t[j] = s[j + 1]
    BY <1>1, <1>2
  <2>2. \A a, b \in 1..Len(s) :
          a < b /\ s[a][1] = s[b][1] /\ s[a] \notin X /\ s[b] \notin X => s[a][2] < s[b][2]
    BY DEF Recent, Rising
  <2> QED
    BY <2>1, <2>2
<1>6. ASSUME NEW i \in 1..Len(t), NEW f \in K \ X, t[i] \notin X, f[1] = t[i][1], f[2] > t[i][2]
      PROVE  \E j \in 1..Len(t) : t[j] = f
  <2>1. i + 1 \in 1..Len(s) /\ t[i] = s[i + 1]
    BY <1>2
  <2>2. PICK k \in 1..Len(s) : s[k] = f
    BY <1>6, <2>1 DEF Recent
  <2>3. k # 1
    <3> SUFFICES ASSUME k = 1 PROVE FALSE
      OBVIOUS
    <3>1. 1 < i + 1 /\ 1 \in 1..Len(s)
      BY <1>1
    <3>2. f[2] < t[i][2]
      BY <1>6, <2>1, <2>2, <3>1 DEF Recent, Rising
    <3>3. t[i] \in K
      BY <1>4
    <3> QED
      BY <1>3, <1>6, <3>2, <3>3
  <2>4. k - 1 \in 1..Len(t) /\ (k - 1) + 1 = k
    BY <1>1, <2>3
  <2>5. t[k - 1] = f
    BY <1>2, <2>2, <2>4
  <2> QED
    BY <2>4, <2>5
<1> QED
  BY <1>4, <1>5, <1>6 DEF Recent, t

\* MAXLEN trims one entry at most.
LEMMA LastOfAppend ==
  ASSUME NEW s \in Seq(LogEntries), NEW e \in LogEntries, NEW n \in Nat \ {0}, Len(s) <= n
  PROVE  /\ LastOf(n, Append(s, e)) \in Seq(LogEntries)
         /\ Len(LastOf(n, Append(s, e))) <= n
         /\ LastOf(n, Append(s, e)) \in {Append(s, e), Tail(Append(s, e))}
<1> DEFINE long == Append(s, e)
<1>1. /\ long \in Seq(LogEntries) /\ Len(long) = Len(s) + 1 /\ Len(s) \in Nat /\ long # <<>>
  OBVIOUS
<1>2. CASE Len(long) <= n
  <2>1. ~(Len(long) > n)
    BY <1>1, <1>2
  <2>2. LastOf(n, long) = SubSeq(long, 1, Len(long))
    BY <2>1, Zenon DEF LastOf
  <2>3. LastOf(n, long) = long
    BY <1>1, <2>2, SubSeqFull
  <2> QED
    BY <1>1, <1>2, <2>3
<1>3. CASE Len(long) > n
  <2>1. Len(long) = n + 1 /\ Len(long) - n + 1 = 2
    BY <1>1, <1>3
  <2>2. LastOf(n, long) = SubSeq(long, 2, Len(long))
    BY <1>3, <2>1, Zenon DEF LastOf
  <2>3. LastOf(n, long) = Tail(long)
    BY <1>1, <2>2, TailIsSubSeq
  <2> QED
    BY <1>1, <2>1, <2>3
<1> QED
  BY <1>1, <1>2, <1>3

\* A bounded sequence is one that is not too long.
LEMMA BoundedSeqIs ==
  ASSUME NEW s \in Seq(LogEntries), NEW n \in Nat, Len(s) <= n
  PROVE  s \in BoundedSeq(LogEntries, n)
<1>1. Len(s) \in 0..n /\ s \in [1..Len(s) -> LogEntries]
  OBVIOUS
<1> QED
  BY <1>1 DEF BoundedSeq, SeqOf

-----------------------------------------------------------------------------
(* Writing                                                                 *)

\* XADD keeps what Recent says of the log.
LEMMA StoredKeeps ==
  ASSUME LogTypeOK, LogShape, NEW e \in LogEntries, Stored(e), NEW X, Recent(log, kept, X),
         e \in X \/ \A f \in kept : f[1] = e[1] => f[2] < e[2]
  PROVE  /\ log' \in Seq(LogEntries) /\ Len(log') <= MaxLen /\ log' \in BoundedSeq(LogEntries, MaxLen)
         /\ kept' = kept \cup {e} /\ Recent(log', kept', X)
<1>1. /\ log' = LastOf(MaxLen, Append(log, e)) /\ kept' = kept \cup {e} /\ MaxLen \in Nat \ {0}
      /\ log \in Seq(LogEntries) /\ Len(log) <= MaxLen /\ kept \subseteq LogEntries
  BY LogAssumption DEF Stored, LogTypeOK, LogShape
<1>2. log' \in Seq(LogEntries) /\ Len(log') <= MaxLen /\ log' \in {Append(log, e), Tail(Append(log, e))}
  BY <1>1, LastOfAppend
<1>3. log' \in BoundedSeq(LogEntries, MaxLen)
  BY <1>1, <1>2, BoundedSeqIs
<1>4. Recent(Append(log, e), kept', X)
  BY <1>1, RecentAppend
<1>5. Append(log, e) \in Seq(LogEntries) /\ Append(log, e) # <<>> /\ kept' \subseteq LogEntries
  BY <1>1
<1>6. Recent(Tail(Append(log, e)), kept', X)
  BY <1>4, <1>5, RecentTail
<1> QED
  BY <1>1, <1>2, <1>3, <1>4, <1>6

\* At most one command more has outlived its call.
LEMMA MayStrayFacts ==
  ASSUME LogTypeOK, NEW op \in {"xadd", "publish"}, NEW e \in LogEntries, MayStray(op, e)
  PROVE  /\ strays' \in SUBSET Commands /\ pending' \subseteq strays'
         /\ \A k \in {"xadd", "publish"} :
              /\ Outlived(k) \subseteq Outlived(k)'
              /\ \A f \in Outlived(k)' : f \in Outlived(k) \/ (k = op /\ f = e)
<1>1. strays \in SUBSET Commands /\ pending \subseteq strays /\ <<op, e>> \in Commands
  BY DEF LogTypeOK, Commands
<1>2. /\ strays \subseteq strays' /\ strays' \subseteq strays \cup {<<op, e>>}
      /\ pending' \subseteq pending \cup {<<op, e>>} /\ (pending' = pending \/ <<op, e>> \in strays')
  BY DEF MayStray
<1>3. \A k, f : <<k, f>> = <<op, e>> => k = op /\ f = e
  OBVIOUS
<1> QED
  BY <1>1, <1>2, <1>3 DEF Outlived

\* A step of the writers leaves the ways in place.
LEMMA WayKeeps ==
  ASSUME WayPlace, UNCHANGED tailVars, kept \subseteq kept', Outlived("publish") \subseteq Outlived("publish")',
         \A f \in kept : (writeAt[f[1]] = "publish" => f[2] < writes[f[1]]) =>
                         (writeAt'[f[1]] = "publish" => f[2] < writes'[f[1]])
  PROVE  WayPlace'
<1> SUFFICES ASSUME NEW t \in Tails
             PROVE  /\ tailAt'[t] # "send" => holding'[t] = <<>>
                    /\ Rising(Way(t)', {}, Outlived("publish")')
                    /\ \A i \in 1..Len(Way(t)') :
                         /\ Way(t)'[i] \in kept'
                         /\ writeAt'[Way(t)'[i][1]] = "publish" =>
                              Way(t)'[i][2] < writes'[Way(t)'[i][1]]
  BY DEF WayPlace
<1>1. Way(t)' = Way(t) /\ tailAt' = tailAt /\ holding' = holding
  BY DEF Way, tailVars
<1>2. /\ tailAt[t] # "send" => holding[t] = <<>>
      /\ Rising(Way(t), {}, Outlived("publish"))
      /\ \A i \in 1..Len(Way(t)) :
           /\ Way(t)[i] \in kept
           /\ writeAt[Way(t)[i][1]] = "publish" => Way(t)[i][2] < writes[Way(t)[i][1]]
  BY DEF WayPlace
<1>3. Rising(Way(t), {}, Outlived("publish")')
  BY <1>2, RisingMore
<1> QED
  BY <1>1, <1>2, <1>3

\* XADD, whatever the client makes of it.
LEMMA XAddStep ==
  ASSUME LogInv, NEW w \in Writers, XAdd(w) \/ XAddFails(w)
  PROVE  LogInv'
<1> DEFINE e == <<w, writes'[w]>>
<1>1. /\ writeAt[w] = "idle" /\ writes[w] < MaxWrites /\ writes' = [writes EXCEPT ![w] = @ + 1]
      /\ Stored(e) \/ UNCHANGED <<log, kept>>
      /\ MayStray("xadd", e) /\ UNCHANGED tailVars
      /\ \/ Stored(e) /\ writeAt' = [writeAt EXCEPT ![w] = "publish"]
         \/ writeAt' = writeAt
  BY DEF XAdd, XAddFails, BeginsWrite
<1>2. /\ writes \in [Writers -> 0..MaxWrites] /\ MaxWrites \in Nat /\ kept \subseteq LogEntries
      /\ writeAt \in [Writers -> {"idle", "publish"}]
  BY LogAssumption DEF LogInv, LogTypeOK
<1>3. /\ writes' \in [Writers -> 0..MaxWrites] /\ writes'[w] = writes[w] + 1 /\ writes[w] \in Nat
      /\ \A v \in Writers : writes[v] \in Nat /\ writes'[v] \in Nat /\ writes[v] <= writes'[v]
      /\ \A v \in Writers : v # w => writes'[v] = writes[v]
  BY <1>1, <1>2
<1>4. e \in LogEntries /\ e[1] = w /\ e[2] = writes[w] + 1 /\ e[2] = writes'[w]
  BY <1>1, <1>2, <1>3 DEF LogEntries
<1>5. \A f \in kept : f[1] \in Writers /\ f[2] \in Nat /\ f[2] <= writes[f[1]]
  BY <1>2 DEF LogInv, LogPlace, LogEntries
<1> HIDE DEF e
<1>6. /\ strays' \in SUBSET Commands /\ pending' \subseteq strays'
      /\ Outlived("xadd") \subseteq Outlived("xadd")' /\ Outlived("publish")' = Outlived("publish")
      /\ \A f \in Outlived("xadd")' : f \in Outlived("xadd") \/ f = e
  <2>1. \A k \in {"xadd", "publish"} :
          /\ Outlived(k) \subseteq Outlived(k)'
          /\ \A f \in Outlived(k)' : f \in Outlived(k) \/ (k = "xadd" /\ f = e)
    BY <1>1, <1>4, MayStrayFacts DEF LogInv
  <2>2. strays' \in SUBSET Commands /\ pending' \subseteq strays'
    BY <1>1, <1>4, MayStrayFacts DEF LogInv
  <2> QED
    BY <2>1, <2>2
<1>7. \A f \in kept : f[1] = e[1] => f[2] < e[2]
  BY <1>3, <1>4, <1>5
<1>8. /\ log' \in Seq(LogEntries) /\ Len(log') <= MaxLen /\ log' \in BoundedSeq(LogEntries, MaxLen)
      /\ kept \subseteq kept' /\ kept' \subseteq kept \cup {e} /\ (Stored(e) => e \in kept')
      /\ Recent(log', kept', Outlived("xadd")')
  <2>1. Recent(log, kept, Outlived("xadd")')
    BY <1>6, RecentMore DEF LogInv, LogPlace
  <2>2. CASE Stored(e)
    BY <1>4, <1>7, <2>1, <2>2, StoredKeeps DEF LogInv
  <2>3. CASE ~Stored(e)
    BY <1>1, <2>1, <2>3 DEF LogInv, LogTypeOK, LogShape
  <2> QED
    BY <2>2, <2>3
<1>9. writeAt' \in [Writers -> {"idle", "publish"}] /\ \A v \in Writers : v # w => writeAt'[v] = writeAt[v]
  BY <1>1, <1>2
<1>10. LogTypeOK' /\ LogShape'
  <2>1. kept' \subseteq LogEntries
    BY <1>2, <1>4, <1>8
  <2> QED
    BY <1>1, <1>3, <1>6, <1>8, <1>9, <2>1 DEF LogInv, LogTypeOK, LogShape, tailVars
<1>11. LogPlace'
  <2>1. \A f \in kept' : f[2] <= writes'[f[1]]
    <3> TAKE f \in kept'
    <3>1. CASE f = e
      BY <1>3, <1>4, <3>1
    <3>2. CASE f \in kept
      BY <1>3, <1>5, <3>2
    <3> QED
      BY <1>8, <3>1, <3>2
  <2>2. \A v \in Writers : writeAt'[v] = "publish" => <<v, writes'[v]>> \in kept'
    <3> SUFFICES ASSUME NEW v \in Writers, writeAt'[v] = "publish" PROVE <<v, writes'[v]>> \in kept'
      OBVIOUS
    <3>1. CASE v = w
      <4>1. Stored(e) /\ e = <<w, writes'[w]>>
        BY <1>1, <3>1 DEF e
      <4> QED
        BY <1>8, <3>1, <4>1
    <3>2. CASE v # w
      BY <1>3, <1>8, <1>9, <3>2 DEF LogInv, LogPlace
    <3> QED
      BY <3>1, <3>2
  <2> QED
    BY <1>8, <2>1, <2>2 DEF LogPlace
<1>12. StrayPlace'
  <2>1. \A f \in Outlived("xadd")' : f[2] <= writes'[f[1]]
    <3> TAKE f \in Outlived("xadd")'
    <3>1. CASE f = e
      BY <1>3, <1>4, <3>1
    <3>2. CASE f \in Outlived("xadd")
      <4>1. f[1] \in Writers /\ f[2] \in Nat /\ f[2] <= writes[f[1]]
        BY <3>2 DEF LogInv, StrayPlace, Outlived, LogEntries
      <4> QED
        BY <1>3, <4>1
    <3> QED
      BY <1>6, <3>1, <3>2
  <2>2. \A f \in Outlived("publish")' :
          f \in kept' /\ (writeAt'[f[1]] = "publish" => f[2] < writes'[f[1]])
    <3> TAKE f \in Outlived("publish")'
    <3>1. f \in kept /\ (writeAt[f[1]] = "publish" => f[2] < writes[f[1]])
      BY <1>6 DEF LogInv, StrayPlace
    <3>2. f[1] \in Writers /\ f[2] \in Nat /\ f[2] <= writes[f[1]]
      BY <1>5, <3>1
    <3>3. CASE f[1] = w
      BY <1>3, <1>8, <3>1, <3>2, <3>3
    <3>4. CASE f[1] # w
      BY <1>3, <1>8, <1>9, <3>1, <3>2, <3>4
    <3> QED
      BY <3>3, <3>4
  <2> QED
    BY <2>1, <2>2 DEF StrayPlace
<1>13. WayPlace'
  <2>1. ASSUME NEW f \in kept, writeAt[f[1]] = "publish" => f[2] < writes[f[1]],
               writeAt'[f[1]] = "publish"
        PROVE  f[2] < writes'[f[1]]
    <3>1. CASE f[1] = w
      BY <1>3, <1>5, <3>1
    <3>2. CASE f[1] # w
      BY <1>3, <1>5, <1>9, <2>1, <3>2
    <3> QED
      BY <3>1, <3>2
  <2> QED
    BY <1>1, <1>6, <1>8, <2>1, WayKeeps DEF LogInv
<1> QED
  BY <1>10, <1>11, <1>12, <1>13 DEF LogInv

-----------------------------------------------------------------------------
(* Publishing                                                              *)

LEMMA WayHas ==
  ASSUME NEW r \in Seq(LogEntries), NEW h \in Seq(LogEntries), NEW b \in Seq(LogEntries)
  PROVE  r \o (h \o b) \in Seq(LogEntries) /\ Len(r \o (h \o b)) \in Nat
<1>1. h \o b \in Seq(LogEntries)
  OBVIOUS
<1> QED
  BY <1>1

\* Way grows at its end.
LEMMA WayAppend ==
  ASSUME NEW r \in Seq(LogEntries), NEW h \in Seq(LogEntries), NEW b \in Seq(LogEntries),
         NEW e \in LogEntries
  PROVE  r \o (h \o Append(b, e)) = Append(r \o (h \o b), e)
<1>1. h \o b \in Seq(LogEntries) /\ <<e>> \in Seq(LogEntries)
  OBVIOUS
<1>2. Append(b, e) = b \o <<e>> /\ Append(r \o (h \o b), e) = (r \o (h \o b)) \o <<e>>
  BY <1>1, AppendIsConcat
<1>3. h \o (b \o <<e>>) = (h \o b) \o <<e>>
  BY <1>1, ConcatAssociative
<1>4. r \o ((h \o b) \o <<e>>) = (r \o (h \o b)) \o <<e>>
  BY <1>1, ConcatAssociative
<1> QED
  BY <1>2, <1>3, <1>4

\* An entry that is published goes to the end of some ways.
LEMMA PublishedKeeps ==
  ASSUME LogTypeOK, LogShape, WayPlace, NEW e \in kept, Published(e),
         UNCHANGED <<kept, writes, tailAt, holding, received>>,
         Outlived("publish") \subseteq Outlived("publish")',
         \A v \in Writers : writeAt'[v] = "publish" => writeAt[v] = "publish",
         e \in Outlived("publish")' \/ (writeAt[e[1]] = "publish" /\ e[2] = writes[e[1]]),
         writeAt'[e[1]] = "publish" => e[2] < writes[e[1]]
  PROVE  /\ buffer' \in [Tails -> Seq(LogEntries)]
         /\ \A t \in Tails : Len(buffer'[t]) <= BufferSize
         /\ WayPlace'
<1>1. PICK T \in SUBSET {t \in Tails : subscribed[t] /\ Len(buffer[t]) < BufferSize} :
        buffer' = [t \in Tails |-> IF t \in T THEN Append(buffer[t], e) ELSE buffer[t]]
  BY DEF Published
<1>2. /\ BufferSize \in Nat /\ buffer \in [Tails -> Seq(LogEntries)]
      /\ holding \in [Tails -> Seq(LogEntries)] /\ received \in [Tails -> Seq(LogEntries)]
      /\ e \in LogEntries /\ kept \subseteq LogEntries
  BY LogAssumption DEF LogTypeOK, LogShape
<1>3. ASSUME NEW t \in Tails
      PROVE  buffer'[t] \in Seq(LogEntries) /\ Len(buffer'[t]) <= BufferSize
  <2>1. CASE t \in T
    <3>1. buffer'[t] = Append(buffer[t], e) /\ Len(buffer[t]) < BufferSize
      BY <1>1, <2>1
    <3>2. buffer[t] \in Seq(LogEntries) /\ Len(buffer[t]) \in Nat
      BY <1>2
    <3> QED
      BY <1>2, <3>1, <3>2
  <2>2. CASE t \notin T
    BY <1>1, <1>2, <2>2 DEF LogTypeOK
  <2> QED
    BY <2>1, <2>2
<1>4. buffer' \in [Tails -> Seq(LogEntries)]
  BY <1>1, <1>3
<1>5. \A f \in LogEntries : f[1] \in Writers
  BY DEF LogEntries
<1>6. ASSUME NEW t \in Tails
      PROVE  /\ tailAt'[t] # "send" => holding'[t] = <<>>
             /\ Rising(Way(t)', {}, Outlived("publish")')
             /\ \A i \in 1..Len(Way(t)') :
                  /\ Way(t)'[i] \in kept'
                  /\ writeAt'[Way(t)'[i][1]] = "publish" =>
                       Way(t)'[i][2] < writes'[Way(t)'[i][1]]
  <2>1. tailAt'[t] # "send" => holding'[t] = <<>>
    BY DEF WayPlace
  <2>2. received[t] \in Seq(LogEntries) /\ holding[t] \in Seq(LogEntries) /\ buffer[t] \in Seq(LogEntries)
    BY <1>2
  <2>3. Way(t) \in Seq(LogEntries) /\ Len(Way(t)) \in Nat
    BY <2>2, WayHas DEF Way
  <2>4. \A i \in 1..Len(Way(t)) :
          /\ Way(t)[i] \in kept
          /\ writeAt[Way(t)[i][1]] = "publish" => Way(t)[i][2] < writes[Way(t)[i][1]]
    BY DEF WayPlace
  <2>5. \A i \in 1..Len(Way(t)) :
          /\ Way(t)[i] \in kept'
          /\ writeAt'[Way(t)[i][1]] = "publish" => Way(t)[i][2] < writes'[Way(t)[i][1]]
    BY <1>2, <1>5, <2>4
  <2>6. Rising(Way(t), {}, Outlived("publish")')
    <3>1. Rising(Way(t), {}, Outlived("publish"))
      BY DEF WayPlace
    <3> QED
      BY <3>1, RisingMore
  <2>7. CASE t \in T
    <3>1. Way(t)' = Append(Way(t), e)
      <4>1. buffer'[t] = Append(buffer[t], e)
        BY <1>1, <2>7
      <4>2. received[t] \o (holding[t] \o Append(buffer[t], e)) = Append(Way(t), e)
        BY <1>2, <2>2, WayAppend DEF Way
      <4>3. Way(t)' = received[t] \o (holding[t] \o buffer'[t])
        BY DEF Way
      <4> QED
        BY <4>1, <4>2, <4>3
    <3>2. Rising(Append(Way(t), e), {}, Outlived("publish")')
      <4>1. e \in Outlived("publish")' \/ \A i \in 1..Len(Way(t)) : Way(t)[i][1] = e[1] => Way(t)[i][2] < e[2]
        BY <2>4
      <4> QED
        BY <1>2, <2>3, <2>6, <4>1, RisingAppend
    <3>3. /\ Len(Append(Way(t), e)) = Len(Way(t)) + 1 /\ Append(Way(t), e)[Len(Way(t)) + 1] = e
          /\ \A i \in 1..Len(Way(t)) : Append(Way(t), e)[i] = Way(t)[i]
      BY <1>2, <2>3
    <3>4. ASSUME NEW i \in 1..Len(Append(Way(t), e))
          PROVE  /\ Append(Way(t), e)[i] \in kept'
                 /\ writeAt'[Append(Way(t), e)[i][1]] = "publish" =>
                      Append(Way(t), e)[i][2] < writes'[Append(Way(t), e)[i][1]]
      <4>1. CASE i = Len(Way(t)) + 1
        BY <3>3, <4>1
      <4>2. CASE i \in 1..Len(Way(t))
        BY <2>5, <3>3, <4>2
      <4> QED
        BY <2>3, <3>3, <4>1, <4>2
    <3> QED
      BY <2>1, <3>1, <3>2, <3>4
  <2>8. CASE t \notin T
    <3>1. buffer'[t] = buffer[t] /\ Way(t)' = received[t] \o (holding[t] \o buffer'[t])
      BY <1>1, <2>8 DEF Way
    <3>2. Way(t)' = Way(t)
      BY <3>1 DEF Way
    <3> QED
      BY <2>1, <2>5, <2>6, <3>2
  <2> QED
    BY <2>7, <2>8
<1>7. WayPlace'
  BY <1>6 DEF WayPlace
<1> QED
  BY <1>3, <1>4, <1>7

LEMMA PublishStep ==
  ASSUME LogInv, NEW w \in Writers, Publish(w)
  PROVE  LogInv'
<1> DEFINE e == <<w, writes[w]>>
<1>1. /\ writeAt[w] = "publish" /\ writeAt' = [writeAt EXCEPT ![w] = "idle"]
      /\ Published(e) /\ MayStray("publish", e)
      /\ UNCHANGED <<log, writes, kept, tailAt, subscribed, holding, cancelled, reading, received>>
  BY DEF Publish
<1>2. e \in kept /\ kept \subseteq LogEntries /\ e[1] = w /\ e[2] = writes[w] /\ e \in LogEntries
  BY <1>1 DEF LogInv, LogPlace, LogTypeOK
<1> HIDE DEF e
<1>3. writeAt \in [Writers -> {"idle", "publish"}] /\ writes \in [Writers -> 0..MaxWrites]
  BY DEF LogInv, LogTypeOK
<1>4. /\ \A v \in Writers : writeAt'[v] = IF v = w THEN "idle" ELSE writeAt[v]
      /\ writeAt' \in [Writers -> {"idle", "publish"}]
  BY <1>1, <1>3
<1>5. /\ strays' \in SUBSET Commands /\ pending' \subseteq strays'
      /\ Outlived("publish") \subseteq Outlived("publish")' /\ Outlived("xadd")' = Outlived("xadd")
      /\ \A f \in Outlived("publish")' : f \in Outlived("publish") \/ f = e
  <2>1. \A k \in {"xadd", "publish"} :
          /\ Outlived(k) \subseteq Outlived(k)'
          /\ \A f \in Outlived(k)' : f \in Outlived(k) \/ (k = "publish" /\ f = e)
    BY <1>1, <1>2, MayStrayFacts DEF LogInv
  <2>2. strays' \in SUBSET Commands /\ pending' \subseteq strays'
    BY <1>1, <1>2, MayStrayFacts DEF LogInv
  <2> QED
    BY <2>1, <2>2
<1>6. /\ buffer' \in [Tails -> Seq(LogEntries)]
      /\ \A t \in Tails : Len(buffer'[t]) <= BufferSize
      /\ WayPlace'
  BY <1>1, <1>2, <1>4, <1>5, PublishedKeeps DEF LogInv
<1>7. LogTypeOK' /\ LogShape'
  BY <1>1, <1>4, <1>5, <1>6 DEF LogInv, LogTypeOK, LogShape
<1>8. LogPlace'
  BY <1>1, <1>4, <1>5 DEF LogInv, LogPlace
<1>9. StrayPlace'
  <2>1. \A f \in LogEntries : f[1] \in Writers
    BY DEF LogEntries
  <2> QED
    BY <1>1, <1>2, <1>4, <1>5, <2>1 DEF LogInv, StrayPlace
<1> QED
  BY <1>6, <1>7, <1>8, <1>9 DEF LogInv

\* A command that outlived its call runs or is lost.
LEMMA LateStep ==
  ASSUME LogInv, NEW c \in pending, LateRuns(c[1], c[2]) \/ LateLost(c)
  PROVE  LogInv'
<1> DEFINE e == c[2]
<1>1. /\ c \in strays /\ c \in Commands /\ c = <<c[1], e>> /\ c[1] \in {"xadd", "publish"} /\ e \in LogEntries
      /\ strays \in SUBSET Commands /\ pending \subseteq strays
  BY DEF LogInv, LogTypeOK, Commands
<1> HIDE DEF e
<1>2. /\ pending' = pending \ {c}
      /\ UNCHANGED <<writeAt, writes, strays, tailAt, subscribed, holding, cancelled, reading, received>>
  BY <1>1 DEF LateRuns, LateLost, tailVars, e
<1>3. Outlived("xadd")' = Outlived("xadd") /\ Outlived("publish")' = Outlived("publish")
  BY <1>2 DEF Outlived
<1>4. CASE c[1] = "xadd" /\ Stored(e) /\ UNCHANGED buffer
  <2>1. e \in Outlived("xadd") /\ e[2] <= writes[e[1]]
    BY <1>1, <1>4 DEF Outlived, LogInv, StrayPlace
  <2>2. /\ log' \in Seq(LogEntries) /\ Len(log') <= MaxLen /\ log' \in BoundedSeq(LogEntries, MaxLen)
        /\ kept' = kept \cup {e} /\ Recent(log', kept', Outlived("xadd"))
    BY <1>1, <1>4, <2>1, StoredKeeps DEF LogInv, LogPlace
  <2>3. LogTypeOK' /\ LogShape'
    BY <1>1, <1>2, <1>4, <2>2 DEF LogInv, LogTypeOK, LogShape
  <2>4. LogPlace'
    BY <1>2, <1>3, <2>1, <2>2 DEF LogInv, LogPlace
  <2>5. StrayPlace'
    BY <1>2, <1>3, <2>2 DEF LogInv, StrayPlace
  <2>6. WayPlace'
    BY <1>2, <1>3, <1>4, <2>2, WayKeeps DEF LogInv, tailVars
  <2> QED
    BY <2>3, <2>4, <2>5, <2>6 DEF LogInv
<1>5. CASE c[1] = "publish" /\ Published(e) /\ UNCHANGED <<log, kept>>
  <2>1. e \in Outlived("publish") /\ e \in kept /\ (writeAt[e[1]] = "publish" => e[2] < writes[e[1]])
    BY <1>1, <1>5 DEF Outlived, LogInv, StrayPlace
  <2>2. /\ buffer' \in [Tails -> Seq(LogEntries)]
        /\ \A t \in Tails : Len(buffer'[t]) <= BufferSize
        /\ WayPlace'
    BY <1>2, <1>3, <1>5, <2>1, PublishedKeeps DEF LogInv
  <2>3. LogTypeOK' /\ LogShape'
    BY <1>1, <1>2, <1>5, <2>2 DEF LogInv, LogTypeOK, LogShape
  <2>4. LogPlace' /\ StrayPlace'
    BY <1>2, <1>3, <1>5 DEF LogInv, LogPlace, StrayPlace
  <2> QED
    BY <2>2, <2>3, <2>4 DEF LogInv
<1>6. CASE LateLost(c)
  <2>1. UNCHANGED <<log, kept, tailVars>>
    BY <1>6 DEF LateLost
  <2>2. LogTypeOK' /\ LogShape'
    BY <1>1, <1>2, <2>1 DEF LogInv, LogTypeOK, LogShape, tailVars
  <2>3. LogPlace' /\ StrayPlace'
    BY <1>2, <1>3, <2>1 DEF LogInv, LogPlace, StrayPlace
  <2>4. WayPlace'
    BY <1>2, <1>3, <2>1, WayKeeps DEF LogInv
  <2> QED
    BY <2>2, <2>3, <2>4 DEF LogInv
<1> QED
  BY <1>4, <1>5, <1>6 DEF LateRuns, e

\* The way of a Tail, as one of its ends moves.
LEMMA WayMoves ==
  ASSUME NEW r \in Seq(LogEntries), NEW h \in Seq(LogEntries), NEW b \in Seq(LogEntries)
  PROVE  /\ (r \o h) \o (<<>> \o b) = r \o (h \o b)
         /\ b # <<>> => r \o (<<Head(b)>> \o Tail(b)) = r \o (<<>> \o b)
         /\ r \o (<<>> \o <<>>) = r
         /\ Len(r) <= Len(r \o (h \o b)) /\ \A i \in 1..Len(r) : (r \o (h \o b))[i] = r[i]
<1>1. <<>> \in Seq(LogEntries) /\ <<>> \o b = b /\ r \o <<>> = r /\ <<>> \o <<>> = <<>>
  BY ConcatEmptySeq
<1>2. (r \o h) \o b = r \o (h \o b)
  BY ConcatAssociative
<1>3. ASSUME b # <<>> PROVE <<Head(b)>> \o Tail(b) = b
  <2>1. /\ Head(b) \in LogEntries /\ Tail(b) \in Seq(LogEntries) /\ Len(Tail(b)) = Len(b) - 1
        /\ \A i \in 1..Len(Tail(b)) : Tail(b)[i] = b[i + 1]
    BY <1>3, HeadTailProperties
  <2>2. Len(b) \in Nat /\ Len(b) > 0 /\ Head(b) = b[1]
    BY <1>3
  <2>3. <<Head(b)>> \in Seq(LogEntries) /\ Len(<<Head(b)>>) = 1 /\ <<Head(b)>>[1] = b[1]
    BY <2>1, <2>2
  <2>4. /\ <<Head(b)>> \o Tail(b) \in Seq(LogEntries) /\ Len(<<Head(b)>> \o Tail(b)) = Len(b)
        /\ \A i \in 1..Len(b) : (<<Head(b)>> \o Tail(b))[i] =
             IF i <= 1 THEN <<Head(b)>>[i] ELSE Tail(b)[i - 1]
    BY <2>1, <2>2, <2>3, ConcatProperties
  <2>5. \A i \in 1..Len(b) : (<<Head(b)>> \o Tail(b))[i] = b[i]
    <3> TAKE i \in 1..Len(b)
    <3>1. CASE i = 1
      BY <2>3, <2>4, <3>1
    <3>2. CASE i # 1
      <4>1. i - 1 \in 1..Len(Tail(b)) /\ (i - 1) + 1 = i /\ ~(i <= 1)
        BY <2>1, <2>2, <3>2
      <4>2. Tail(b)[i - 1] = b[(i - 1) + 1]
        BY <2>1, <4>1
      <4> QED
        BY <2>4, <4>1, <4>2
    <3> QED
      BY <3>1, <3>2
  <2> QED
    BY <2>4, <2>5, SeqEqual
<1>4. h \o b \in Seq(LogEntries)
  OBVIOUS
<1>5. Len(r) <= Len(r \o (h \o b)) /\ \A i \in 1..Len(r) : (r \o (h \o b))[i] = r[i]
  BY <1>4, ConcatProperties
<1> QED
  BY <1>1, <1>2, <1>3, <1>5

\* A Tail that takes, sends or returns.
LEMMA TailStepKeeps ==
  ASSUME LogInv, NEW t \in Tails, TailStep(t)
  PROVE  LogInv'
<1>1. /\ BufferSize \in Nat /\ buffer \in [Tails -> Seq(LogEntries)]
      /\ holding \in [Tails -> Seq(LogEntries)] /\ received \in [Tails -> Seq(LogEntries)]
      /\ \A u \in Tails : Len(buffer[u]) <= BufferSize /\ Len(holding[u]) <= 1
      /\ tailAt \in [Tails -> {"none", "select", "send", "returned"}]
      /\ subscribed \in [Tails -> BOOLEAN]
  BY LogAssumption DEF LogInv, LogTypeOK, LogShape
<1>2. UNCHANGED <<writerVars, cancelled, reading>>
  BY DEF TailStep, TailDone, TailTakes, TailSends, writerVars
<1>3. /\ tailAt' \in [Tails -> {"none", "select", "send", "returned"}]
      /\ subscribed' \in [Tails -> BOOLEAN]
      /\ buffer' \in [Tails -> Seq(LogEntries)] /\ holding' \in [Tails -> Seq(LogEntries)]
      /\ received' \in [Tails -> Seq(LogEntries)]
      /\ Len(buffer'[t]) <= BufferSize /\ Len(holding'[t]) <= 1
      /\ tailAt'[t] # "send" => holding'[t] = <<>>
      /\ \/ Way(t)' = Way(t)
         \/ Way(t)' = received[t]
  <2>1. CASE TailDone(t)
    <3>1. /\ tailAt[t] = "select" /\ tailAt' = [tailAt EXCEPT ![t] = "returned"]
          /\ subscribed' = [subscribed EXCEPT ![t] = FALSE]
          /\ buffer' = [buffer EXCEPT ![t] = <<>>] /\ UNCHANGED <<holding, received>>
      BY <2>1 DEF TailDone, TailGoto
    <3>2. holding[t] = <<>> /\ <<>> \in Seq(LogEntries) /\ Len(<<>>) = 0
      BY <3>1 DEF LogInv, WayPlace
    <3>3. Way(t)' = received[t] \o (<<>> \o <<>>)
      BY <1>1, <3>1, <3>2 DEF Way
    <3>4. Way(t)' = received[t]
      BY <1>1, <3>2, <3>3, WayMoves
    <3> QED
      BY <1>1, <3>1, <3>2, <3>4
  <2>2. CASE TailTakes(t)
    <3>1. /\ tailAt[t] = "select" /\ tailAt' = [tailAt EXCEPT ![t] = "send"]
          /\ holding' = [holding EXCEPT ![t] = <<Head(buffer[t])>>]
          /\ buffer' = [buffer EXCEPT ![t] = Tail(buffer[t])] /\ UNCHANGED <<subscribed, received>>
          /\ buffer[t] # <<>>
      BY <2>2 DEF TailTakes, TailGoto
    <3>2. holding[t] = <<>> /\ buffer[t] \in Seq(LogEntries)
      BY <1>1, <3>1 DEF LogInv, WayPlace
    <3>3. /\ Head(buffer[t]) \in LogEntries /\ Tail(buffer[t]) \in Seq(LogEntries)
          /\ Len(Tail(buffer[t])) = Len(buffer[t]) - 1 /\ Len(buffer[t]) \in Nat
      BY <3>1, <3>2
    <3>4. Way(t)' = received[t] \o (<<Head(buffer[t])>> \o Tail(buffer[t]))
      BY <1>1, <3>1 DEF Way
    <3>5. Way(t)' = Way(t)
      <4>1. received[t] \in Seq(LogEntries) /\ holding[t] \in Seq(LogEntries)
        BY <1>1
      <4>2. received[t] \o (<<Head(buffer[t])>> \o Tail(buffer[t])) = received[t] \o (<<>> \o buffer[t])
        BY <3>1, <3>2, <4>1, WayMoves
      <4>3. Way(t) = received[t] \o (<<>> \o buffer[t])
        BY <3>2 DEF Way
      <4> QED
        BY <3>4, <4>2, <4>3
    <3>6. <<Head(buffer[t])>> \in Seq(LogEntries) /\ Len(<<Head(buffer[t])>>) = 1
      BY <3>3
    <3> QED
      BY <1>1, <3>1, <3>3, <3>5, <3>6
  <2>3. CASE TailSends(t)
    <3>1. /\ tailAt[t] = "send" /\ tailAt' = [tailAt EXCEPT ![t] = "select"]
          /\ received' = [received EXCEPT ![t] = received[t] \o holding[t]]
          /\ holding' = [holding EXCEPT ![t] = <<>>] /\ UNCHANGED <<subscribed, buffer>>
      BY <2>3 DEF TailSends, TailGoto
    <3>2. /\ received[t] \o holding[t] \in Seq(LogEntries) /\ <<>> \in Seq(LogEntries)
          /\ Len(<<>>) = 0
      BY <1>1
    <3>3. Way(t)' = (received[t] \o holding[t]) \o (<<>> \o buffer[t])
      BY <1>1, <3>1 DEF Way
    <3>4. Way(t)' = Way(t)
      BY <1>1, <3>3, WayMoves DEF Way
    <3> QED
      BY <1>1, <3>1, <3>2, <3>4
  <2> QED
    BY <2>1, <2>2, <2>3 DEF TailStep
<1>4. \A u \in Tails : u # t => /\ tailAt'[u] = tailAt[u] /\ holding'[u] = holding[u]
                                /\ buffer'[u] = buffer[u] /\ Way(u)' = Way(u)
  BY <1>1 DEF TailStep, TailDone, TailTakes, TailSends, TailGoto, Way
<1>5. LogTypeOK' /\ LogShape'
  BY <1>1, <1>2, <1>3, <1>4 DEF LogInv, LogTypeOK, LogShape, writerVars
<1>6. LogPlace' /\ StrayPlace' /\ Outlived("publish")' = Outlived("publish")
  BY <1>2 DEF LogInv, LogPlace, StrayPlace, Outlived, writerVars
<1>7. WayPlace'
  <2> SUFFICES ASSUME NEW u \in Tails
               PROVE  /\ tailAt'[u] # "send" => holding'[u] = <<>>
                      /\ Rising(Way(u)', {}, Outlived("publish")')
                      /\ \A i \in 1..Len(Way(u)') :
                           /\ Way(u)'[i] \in kept'
                           /\ writeAt'[Way(u)'[i][1]] = "publish" =>
                                Way(u)'[i][2] < writes'[Way(u)'[i][1]]
    BY DEF WayPlace
  <2>1. tailAt'[u] # "send" => holding'[u] = <<>>
    BY <1>3, <1>4 DEF LogInv, WayPlace
  <2>2. CASE Way(u)' = Way(u)
    BY <1>2, <1>6, <2>1, <2>2 DEF LogInv, WayPlace, writerVars
  <2>3. CASE Way(u)' = received[u]
    <3>1. /\ received[u] \in Seq(LogEntries) /\ Len(received[u]) <= Len(Way(u))
          /\ Len(received[u]) \in Nat /\ Len(Way(u)) \in Nat
          /\ \A i \in 1..Len(received[u]) : Way(u)[i] = received[u][i]
      <4>1. received[u] \in Seq(LogEntries) /\ holding[u] \in Seq(LogEntries) /\ buffer[u] \in Seq(LogEntries)
        BY <1>1
      <4>2. Len(received[u]) \in Nat /\ Len(Way(u)) \in Nat
        <5>1. received[u] \o (holding[u] \o buffer[u]) \in Seq(LogEntries)
          BY <4>1, WayHas
        <5>2. Way(u) \in Seq(LogEntries)
          BY <5>1 DEF Way
        <5> QED
          BY <4>1, <5>2
      <4>3. /\ Len(received[u]) <= Len(Way(u))
            /\ \A i \in 1..Len(received[u]) : Way(u)[i] = received[u][i]
        BY <4>1, WayMoves DEF Way
      <4> QED
        BY <4>1, <4>2, <4>3
    <3>2. \A i \in 1..Len(received[u]) : i \in 1..Len(Way(u)) /\ Way(u)[i] = received[u][i]
      BY <3>1
    <3>3. Rising(received[u], {}, Outlived("publish"))
      BY <3>2 DEF LogInv, WayPlace, Rising
    <3> QED
      BY <1>2, <1>6, <2>1, <2>3, <3>2, <3>3 DEF LogInv, WayPlace, writerVars
  <2> QED
    BY <1>3, <1>4, <2>2, <2>3
<1> QED
  BY <1>5, <1>6, <1>7 DEF LogInv

LEMMA LogInvStep == LogInv /\ [LogNext]_logVars => LogInv'
<1> SUFFICES ASSUME LogInv, [LogNext]_logVars PROVE LogInv'
  OBVIOUS
<1>1. ASSUME NEW w \in Writers, XAdd(w) \/ XAddFails(w) \/ Publish(w) PROVE LogInv'
  BY <1>1, XAddStep, PublishStep
<1>2. ASSUME NEW c \in pending, LateRuns(c[1], c[2]) \/ LateLost(c) PROVE LogInv'
  BY <1>2, LateStep
<1>3. ASSUME NEW t \in Tails, \/ TailBegins(t) \/ Subscribe(t) \/ TailCancelled(t) \/ ReaderStops(t)
      PROVE  LogInv'
  <2>1. /\ tailAt' \in [Tails -> {"none", "select", "send", "returned"}]
        /\ subscribed' \in [Tails -> BOOLEAN] /\ cancelled' \in [Tails -> BOOLEAN]
        /\ reading' \in [Tails -> BOOLEAN] /\ UNCHANGED <<writerVars, buffer, holding, received>>
        /\ \A u \in Tails : tailAt'[u] # "send" => tailAt[u] # "send"
    BY <1>3 DEF TailBegins, Subscribe, TailCancelled, ReaderStops, TailGoto, LogInv, LogTypeOK
  <2>2. LogTypeOK' /\ LogShape' /\ LogPlace' /\ StrayPlace' /\ Outlived("publish")' = Outlived("publish")
    BY <2>1 DEF LogInv, LogTypeOK, LogShape, LogPlace, StrayPlace, Outlived, writerVars
  <2>3. \A u \in Tails : Way(u)' = Way(u)
    BY <2>1 DEF Way
  <2>4. WayPlace'
    BY <2>1, <2>2, <2>3 DEF LogInv, WayPlace, writerVars
  <2> QED
    BY <2>2, <2>4 DEF LogInv
<1>4. CASE UNCHANGED logVars
  <2>1. UNCHANGED writerVars /\ UNCHANGED tailVars
    BY <1>4 DEF logVars
  <2>2. LogTypeOK' /\ LogShape' /\ LogPlace' /\ StrayPlace' /\ Outlived("publish")' = Outlived("publish")
    BY <2>1 DEF LogInv, LogTypeOK, LogShape, LogPlace, StrayPlace, Outlived, writerVars, tailVars
  <2>3. WayPlace'
    BY <2>1, <2>2, WayKeeps DEF LogInv, writerVars
  <2> QED
    BY <2>2, <2>3 DEF LogInv
<1> QED
  BY <1>1, <1>2, <1>3, <1>4, TailStepKeeps DEF LogNext

-----------------------------------------------------------------------------
LEMMA Mirrored ==
  ASSUME NEW n \in Nat, NEW a \in 1..n
  PROVE  n - a + 1 \in 1..n
OBVIOUS

\* The place of an entry in a sequence.
LEMMA PlaceFacts ==
  ASSUME NEW s \in Seq(LogEntries), NEW e
  PROVE  /\ Place(e, s) \in Nat
         /\ Place(e, s) > 0 => Place(e, s) \in 1..Len(s) /\ s[Place(e, s)] = e
         /\ \A i \in 1..Len(s) : s[i] = e => Place(e, s) > 0
<1> DEFINE I == {i \in 1..Len(s) : s[i] = e}
<1>1. Place(e, s) = IF I # {} THEN Min(I) ELSE 0
  BY DEF Place, SelectInSeq
<1>2. Len(s) \in Nat /\ I \in SUBSET Nat
  OBVIOUS
<1>3. ASSUME I # {} PROVE Min(I) \in I
  <2> HIDE DEF I
  <2> QED
    BY <1>2, <1>3, MinFacts
<1>4. \A i \in I : i \in 1..Len(s) /\ s[i] = e /\ i \in Nat /\ i > 0
  BY <1>2
<1>5. \A i \in 1..Len(s) : s[i] = e => I # {}
  OBVIOUS
<1> HIDE DEF I
<1>6. CASE I = {}
  BY <1>1, <1>5, <1>6
<1>7. CASE I # {}
  <2>1. Place(e, s) \in I
    BY <1>1, <1>3, <1>7
  <2> QED
    BY <1>4, <2>1
<1> QED
  BY <1>6, <1>7

LEMMA LogInvImplies == LogInv => TailFollowsHistory
<1> SUFFICES ASSUME LogInv, NEW t \in Tails
             PROVE  LET r == received[t] IN
                    /\ ToSet(r) \subseteq kept
                    /\ \A i, j \in DOMAIN r :
                         i < j /\ r[i][1] = r[j][1] /\ <<"publish", r[j]>> \notin strays =>
                         /\ r[i][2] < r[j][2]
                         /\ {<<"xadd", r[i]>>, <<"xadd", r[j]>>} \cap strays = {} /\ Place(r[i], log) > 0 =>
                              Place(r[j], History(MaxLen)) \in 1..(Place(r[i], History(MaxLen)) - 1)
  BY DEF TailFollowsHistory
<1> DEFINE r == received[t]
           h == History(MaxLen)
<1>1. /\ r \in Seq(LogEntries) /\ holding[t] \in Seq(LogEntries) /\ buffer[t] \in Seq(LogEntries)
      /\ log \in Seq(LogEntries) /\ Len(log) <= MaxLen /\ MaxLen \in Nat /\ kept \subseteq LogEntries
  BY LogAssumption DEF LogInv, LogShape, LogTypeOK
<1>2. /\ Len(r) \in Nat /\ DOMAIN r = 1..Len(r) /\ Len(r) <= Len(Way(t)) /\ Len(Way(t)) \in Nat
      /\ \A i \in 1..Len(r) : Way(t)[i] = r[i]
  <2>1. Len(r) \in Nat /\ DOMAIN r = 1..Len(r)
    BY <1>1
  <2>2. Len(Way(t)) \in Nat
    BY <1>1, WayHas DEF Way
  <2>3. Len(r) <= Len(Way(t)) /\ \A i \in 1..Len(r) : Way(t)[i] = r[i]
    BY <1>1, WayMoves DEF Way
  <2> QED
    BY <2>1, <2>2, <2>3
<1>3. \A i \in 1..Len(r) : i \in 1..Len(Way(t)) /\ Way(t)[i] = r[i]
  BY <1>2
<1> HIDE DEF r
<1>4. /\ Rising(r, {}, Outlived("publish"))
      /\ \A i \in 1..Len(r) : r[i] \in kept /\ r[i] \in LogEntries
  BY <1>1, <1>3 DEF LogInv, WayPlace, Rising
<1>5. ToSet(r) \subseteq kept
  BY <1>2, <1>4 DEF ToSet
<1>6. h = Reverse(log)
  <2>1. ~(Len(log) > MaxLen)
    BY <1>1
  <2>2. LastOf(MaxLen, log) = SubSeq(log, 1, Len(log))
    BY <2>1, Zenon DEF LastOf
  <2>3. LastOf(MaxLen, log) = log
    BY <1>1, <2>2, SubSeqFull
  <2> QED
    BY <2>3 DEF History
<1>7. /\ h \in Seq(LogEntries) /\ Len(h) = Len(log) /\ Len(log) \in Nat
      /\ \A i \in 1..Len(h) : h[i] = log[Len(log) - i + 1]
  BY <1>1, <1>6 DEF Reverse
<1> HIDE DEF h
<1>8. ASSUME NEW i \in 1..Len(r), NEW j \in 1..Len(r),
             i < j, r[i][1] = r[j][1], r[j] \notin Outlived("publish"),
             r[i] \notin Outlived("xadd"), r[j] \notin Outlived("xadd"), Place(r[i], log) > 0
      PROVE  Place(r[j], h) \in 1..(Place(r[i], h) - 1)
  <2>1. r[i][2] < r[j][2] /\ r[i] \in kept /\ r[j] \in kept /\ r[i][2] \in Nat /\ r[j][2] \in Nat
    <3>1. r[i] \in kept /\ r[j] \in kept
      BY <1>4
    <3>2. \A f \in LogEntries : f[2] \in Nat
      BY LogAssumption DEF LogEntries
    <3>3. r[i][2] \in Nat /\ r[j][2] \in Nat
      BY <1>1, <3>1, <3>2
    <3>4. r[i][2] < r[j][2]
      BY <1>4, <1>8 DEF Rising
    <3> QED
      BY <3>1, <3>3, <3>4
  <2>2. PICK a \in 1..Len(log) : log[a] = r[i]
    BY <1>1, <1>8, PlaceFacts
  <2>3. PICK b \in 1..Len(log) : log[b] = r[j]
    <3>1. /\ r[j][1] = log[a][1] /\ r[j][2] > log[a][2]
          /\ r[j] \in kept \ Outlived("xadd") /\ log[a] \notin Outlived("xadd")
      BY <1>8, <2>1, <2>2
    <3> QED
      BY <2>1, <3>1 DEF LogInv, LogPlace, Recent
  <2>4. ASSUME NEW c \in 1..Len(log), log[c] \in {r[i], r[j]}
        PROVE  Len(log) - c + 1 \in 1..Len(h) /\ h[Len(log) - c + 1] = log[c]
    <3>1. Len(log) - c + 1 \in 1..Len(h) /\ Len(log) - (Len(log) - c + 1) + 1 = c
      BY <1>7
    <3> QED
      BY <1>7, <3>1
  <2>5. /\ Place(r[i], h) \in 1..Len(h) /\ h[Place(r[i], h)] = r[i]
        /\ Place(r[j], h) \in 1..Len(h) /\ h[Place(r[j], h)] = r[j]
    BY <1>7, <2>2, <2>3, <2>4, PlaceFacts
  <2> DEFINE p == Len(log) - Place(r[i], h) + 1
             q == Len(log) - Place(r[j], h) + 1
  <2>6. p \in 1..Len(log) /\ q \in 1..Len(log) /\ log[p] = r[i] /\ log[q] = r[j]
    <3>1. Len(log) \in Nat /\ Place(r[i], h) \in 1..Len(log) /\ Place(r[j], h) \in 1..Len(log)
      <4>1. Len(h) = Len(log) /\ Len(log) \in Nat
        BY <1>7
      <4> QED
        BY <2>5, <4>1
    <3>2. p \in 1..Len(log) /\ q \in 1..Len(log)
      BY <3>1, Mirrored
    <3>3. log[p] = h[Place(r[i], h)] /\ log[q] = h[Place(r[j], h)]
      BY <1>7, <2>5
    <3> QED
      BY <2>5, <3>2, <3>3
  <2>7. ~(q <= p)
    <3> SUFFICES ASSUME q <= p PROVE FALSE
      OBVIOUS
    <3>1. q # p
      BY <2>1, <2>6
    <3>2. q < p
      BY <2>6, <3>1
    <3>3. log[q][1] = log[p][1]
      BY <1>8, <2>6
    <3>4. log[q][2] < log[p][2]
      BY <1>8, <2>6, <3>2, <3>3 DEF LogInv, LogPlace, Recent, Rising
    <3> QED
      BY <2>1, <2>6, <3>4
  <2> QED
    BY <1>7, <2>5, <2>7
<1>9. ASSUME NEW i \in 1..Len(r), NEW j \in 1..Len(r),
             i < j, r[i][1] = r[j][1], <<"publish", r[j]>> \notin strays
      PROVE  /\ r[i][2] < r[j][2]
             /\ {<<"xadd", r[i]>>, <<"xadd", r[j]>>} \cap strays = {} /\ Place(r[i], log) > 0 =>
                  Place(r[j], h) \in 1..(Place(r[i], h) - 1)
  <2>1. r[j] \notin Outlived("publish")
    BY <1>9 DEF Outlived
  <2>2. r[i][2] < r[j][2]
    BY <1>4, <1>9, <2>1 DEF Rising
  <2>3. {<<"xadd", r[i]>>, <<"xadd", r[j]>>} \cap strays = {} =>
          r[i] \notin Outlived("xadd") /\ r[j] \notin Outlived("xadd")
    BY DEF Outlived
  <2> QED
    BY <1>8, <1>9, <2>1, <2>2, <2>3
<1> QED
  BY <1>2, <1>5, <1>9 DEF r, h

-----------------------------------------------------------------------------
(* Health checks                                                           *)

\* The checks registered when a report was asked for are among those it runs,
\* and it is made when all of them have answered.
ReportPlace ==
  \A r \in Reports :
    /\ before[r] \subseteq registered
    /\ reportAt[r] = "none" => before[r] = {}
    /\ reportAt[r] \in {"join", "done"} => before[r] \subseteq ran[r]
    /\ reportAt[r] # "done" => report[r] = "none"
    /\ reportAt[r] = "done" => \A k \in ran[r] : outcome[r][k] # "none"

HealthInv == HealthTypeOK /\ ReportPlace /\ ReportTrue

LEMMA HealthInvInit == HealthInit => HealthInv
BY DEF HealthInit, HealthInv, HealthTypeOK, ReportPlace, ReportTrue

LEMMA HealthInvStep == HealthInv /\ [HealthNext]_healthVars => HealthInv'
<1> SUFFICES ASSUME HealthInv, [HealthNext]_healthVars PROVE HealthInv'
  OBVIOUS
<1> USE DEF HealthInv, HealthTypeOK, ReportPlace, ReportTrue
<1>1. ASSUME NEW k \in Checks, RegisterCheck(k) PROVE HealthInv'
  BY <1>1 DEF RegisterCheck
<1>2. ASSUME NEW r \in Reports, Ready(r) PROVE HealthInv'
  BY <1>2 DEF Ready, ReportGoto
<1>3. ASSUME NEW r \in Reports, CopyChecks(r) PROVE HealthInv'
  BY <1>3 DEF CopyChecks, ReportGoto
<1>4. ASSUME NEW r \in Reports, Join(r) PROVE HealthInv'
  BY <1>4 DEF Join, ReportGoto, Overall
<1>5. ASSUME NEW r \in Reports, NEW k \in Checks, NEW s \in {"up", "down"},
             CheckReturns(r, k, s)
      PROVE  HealthInv'
  BY <1>5 DEF CheckReturns
<1>6. CASE UNCHANGED healthVars
  BY <1>6 DEF healthVars
<1> QED
  BY <1>1, <1>2, <1>3, <1>4, <1>5, <1>6 DEF HealthNext, ReportStep

-----------------------------------------------------------------------------
(* Lifecycle                                                               *)

\* Nobody is served before the server serves, which nothing but app.Start
\* brings about; who runs the OnStop hooks, and what is left when they have
\* returned.
LifePlace ==
  /\ server \in {"none", "listen"} => \A q \in Requests : request[q] = "none"
  /\ mainAt \in {"new", "start"} => server = "none" /\ fx = "stopped" /\ stopper = "none"
  /\ fx = "started" => stopper = "none"
  /\ stopper = "none" => fx # "stopping" /\ (fx = "stopped" => server = "none")
  /\ goAt # "none" => prog = "interface"
  /\ stopper = "goroutine" => prog = "interface"
  /\ stopper = "main" => mainAt \in {"stop", "end"}
  /\ stopper = "main" /\ fx = "stopped" /\ ~late => Open = {}
  /\ mainAt = "end" => fx # "started" /\ (stopper = "main" => fx = "stopped")
  /\ mainAt = "new" => goAt = "none"

LifeInv == LifeTypeOK /\ LifePlace /\ ExitsDrained

LEMMA LifeInvInit == LifeInit => LifeInv
BY DEF LifeInit, LifeInv, LifeTypeOK, LifePlace, ExitsDrained, Open

\* Cutting what is open touches nothing else.
LEMMA CutKeeps ==
  ASSUME LifeTypeOK, Cut
  PROVE  /\ request' \in [Requests -> {"none", "open", "answered", "cut"}]
         /\ \A q \in Requests : request'[q] = IF request[q] = "open" THEN "cut" ELSE request[q]
BY DEF LifeTypeOK, Cut, Open

LEMMA LifeInvStep == LifeInv /\ [LifeNext]_lifeVars => LifeInv'
<1> SUFFICES ASSUME LifeInv, [LifeNext]_lifeVars PROVE LifeInv'
  OBVIOUS
<1> USE LifecycleAssumption DEF LifeInv, LifeTypeOK, LifePlace, ExitsDrained, Open
<1>1. CASE NewRunner \/ NewInterface \/ NewBrain
  <2>1. PICK program \in Programs, g \in {"none", "wait"} :
          NewApp(program, g) /\ (g # "none" => program = "interface")
    BY <1>1 DEF NewRunner, NewInterface, NewBrain
  <2>2. LifeTypeOK'
    BY <2>1 DEF NewApp
  <2>3. LifePlace' /\ ExitsDrained'
    BY <2>1 DEF NewApp
  <2> QED
    BY <2>2, <2>3
<1>2. CASE AppStart \/ RunnerWaits \/ Signal \/ Serve \/ TimeIsUp
  <2>1. CASE AppStart
    BY <2>1 DEF AppStart
  <2>2. CASE RunnerWaits
    BY <2>2 DEF RunnerWaits
  <2>3. CASE Signal
    BY <2>3 DEF Signal
  <2>4. CASE Serve
    BY <2>4 DEF Serve
  <2>5. CASE TimeIsUp
    BY <2>5 DEF TimeIsUp
  <2> QED
    BY <1>2, <2>1, <2>2, <2>3, <2>4, <2>5
<1>3. CASE AppFails \/ ListenFails
  <2>1. /\ exitCode' = "1" /\ Cut /\ server \in {"none", "listen"}
        /\ UNCHANGED <<prog, built, fx, mainAt, goAt, signalled, server, stopper, late>>
    BY <1>3 DEF AppFails, ListenFails, ExitsWith
  <2>2. /\ request' \in [Requests -> {"none", "open", "answered", "cut"}]
        /\ \A q \in Requests : request'[q] = "none"
    BY <2>1, CutKeeps
  <2> QED
    BY <2>1, <2>2
<1>4. CASE ServeTooLate
  <2>1. /\ server = "listen" /\ server' = "closed" /\ fx # "started"
        /\ exitCode' \in {exitCode, "1"} /\ (Cut \/ UNCHANGED request)
        /\ UNCHANGED <<prog, built, fx, mainAt, goAt, signalled, stopper, late>>
    BY <1>4 DEF ServeTooLate, ExitsWith
  <2>2. /\ request' \in [Requests -> {"none", "open", "answered", "cut"}]
        /\ \A q \in Requests : request'[q] = "none"
    BY <2>1, CutKeeps
  <2> QED
    BY <2>1, <2>2
<1>5. CASE MainStop \/ GoroutineStop
  <2>1. CASE MainStop
    BY <2>1 DEF MainStop, Stops, StopsNothing
  <2>2. CASE GoroutineStop
    BY <2>2 DEF GoroutineStop, Stops, StopsNothing
  <2> QED
    BY <1>5, <2>1, <2>2
<1>6. CASE MainReturns
  BY <1>6, CutKeeps DEF MainReturns, ExitsWith
<1>7. CASE Drained
  BY <1>7 DEF Drained, StopReturns
<1>8. CASE Abandon
  BY <1>8, CutKeeps DEF Abandon, StopReturns
<1>9. ASSUME NEW q \in Requests, RequestArrives(q) \/ RequestEnds(q) PROVE LifeInv'
  <2>1. CASE RequestArrives(q)
    BY <2>1 DEF RequestArrives
  <2>2. CASE RequestEnds(q)
    BY <2>2 DEF RequestEnds
  <2> QED
    BY <1>9, <2>1, <2>2
<1>10. CASE UNCHANGED lifeVars
  BY <1>10 DEF lifeVars
<1> QED
  BY <1>1, <1>2, <1>3, <1>4, <1>5, <1>6, <1>7, <1>8, <1>9, <1>10 DEF LifeNext, LifeStep

-----------------------------------------------------------------------------
(* All parts together                                                      *)

RunnerInv == NodeTypeOK /\ CronInv /\ ExecInv /\ LogInv /\ LifeInv /\ HealthInv

LEMMA RunnerInvInit == RunnerInit => RunnerInv
BY TypeInit, CronInvInit, ExecInvInit, LogInvInit, LifeInvInit, HealthInvInit DEF RunnerInit, RunnerInv

\* A step of the composition is a step of each part, or leaves it alone.
LEMMA RunnerPartsStep ==
  ASSUME [RunnerNext]_runnerVars
  PROVE  /\ [NodeNext]_nodeVars /\ [CronNext]_cronVars /\ [ExecNext]_execVars
         /\ [LogNext]_logVars /\ [LifeNext]_lifeVars /\ [HealthNext]_healthVars
<1>1. (ClockNext => NodeNext) /\ (ListNext => NodeNext)
  BY AloneAssumption, Zenon DEF ClockNext, ListNext, NodeNext
<1> QED
  BY <1>1, Zenon DEF RunnerNext, runnerVars

LEMMA RunnerInvStep == RunnerInv /\ [RunnerNext]_runnerVars => RunnerInv'
BY RunnerPartsStep, TypeStep, CronInvStep, ExecInvStep, LogInvStep, LifeInvStep, HealthInvStep, Zenon
   DEF RunnerInv

LEMMA RunnerInvariant == RunnerSpec => []RunnerInv
BY RunnerInvInit, RunnerInvStep, PTL DEF RunnerSpec

\* The state of every part is what its declarations say.
THEOREM RunnerTypeCorrect == RunnerSpec => []RunnerTypeOK
<1>1. RunnerInv => RunnerTypeOK
  BY DEF RunnerInv, RunnerTypeOK, CronInv, ExecInv, LogInv, LifeInv, HealthInv
<1> QED
  BY <1>1, RunnerInvariant, PTL

\* What a reader receives live was stored, in the order each writer wrote it
\* and that History shows, nothing twice, though either may lack entries; an
\* entry comes late or a second time only when a command of it outlived its
\* call (logstream.go: Write, Tail, History).
THEOREM TailFollowsHistoryCorrect == RunnerSpec => []TailFollowsHistory
<1>1. RunnerInv => TailFollowsHistory
  BY LogInvImplies DEF RunnerInv
<1> QED
  BY <1>1, RunnerInvariant, PTL

\* A request that was taken is answered before the process exits, unless the
\* time for draining was over or the interface's goroutine ran the hooks
\* (httpserver server.go, grpc.go, and the programs' main.go).
THEOREM ExitsDrainedCorrect == RunnerSpec => []ExitsDrained
<1>1. RunnerInv => ExitsDrained
  BY DEF RunnerInv, LifeInv
<1> QED
  BY <1>1, RunnerInvariant, PTL

\* A report is up only if every check that was registered when it was asked
\* for ran and was up (health.go: Run).
THEOREM ReportTrueCorrect == RunnerSpec => []ReportTrue
<1>1. RunnerInv => ReportTrue
  BY DEF RunnerInv, HealthInv
<1> QED
  BY <1>1, RunnerInvariant, PTL
=============================================================================
