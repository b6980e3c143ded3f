\* A node against the clock, whose TTL has room for one failure, and two nodes
\* around a ListNodes.
\* Two jobs, two runs and an XADD that is sent twice.  A command and a
\* process it leaves.  Three entries of a log that keeps two, a command that
\* outlives its call, and a reader.
\* A process of each kind with two requests.  Two checks and a report.
SPECIFICATION RunnerSpec
CONSTANTS
  Nodes = {n1, n2}
  Ids = {i1, i2}
  IdOf <- OwnIds
  Nobody = Nobody
  Interval = 2
  TTL = 7
  Late = 1
  MaxMiss = 1
  StartCtxEnds = TRUE
  Alone = n1
  MaxAge = 2
  Kinds = {"known"}
  MaxEntries = 3
  JobIds = {j1, j2}
  NoEntry = NoEntry
  MaxJobs = 2
  MaxRuns = 2
  MaxSends = 2
  ReuseIds = FALSE
  Cmds = {x1}
  MaxOffspring = 1
  MaxOutput = 2
  Writers = {w1}
  Tails = {t1}
  MaxLen = 2
  MaxWrites = 3
  MaxStrays = 1
  BufferSize = 1
  Programs = {"runner", "interface", "brain"}
  Requests = {q1, q2}
  Checks = {c1, c2}
  Reports = {p1}
CHECK_DEADLOCK FALSE
INVARIANTS RunnerTypeOK RegisteredHealthy ListComplete RegistriesAgree OccurrencesInOrder OutputComplete TailFollowsHistory ExitsDrained ReportTrue
PROPERTIES RunnerEnds
