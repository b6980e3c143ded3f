\* Workflows: one run of each graph, with every set of failing nodes.
\* RAG: two ingests of one document, a question and a deletion of the collection.  Loops: one agent or call
\* of Reason, two tools of which one is registered later.  Plans of two tasks.
\* Memory: three messages on two replicas and a reader, with a window of two.
SPECIFICATION BrainSpec
CONSTANTS
  a = a
  b = b
  c = c
  Runs = {r1}
  Nodes = {a, b, c}
  NoNode = NoNode
  Graphs <- Acyclic
  ta = ta
  tb = tb
  Ingests = {g1, g2}
  Queries = {q1}
  Deletions = {x1}
  Docs = {d1}
  Texts = {ta, tb}
  Blank = Blank
  Contents <- Documents
  MaxChunks = 3
  NoVec = NoVec
  NoRow = NoRow
  Nobody = Nobody
  Score <- Nearness
  MinScore = 65
  TopK = 2
  Loops = {l1}
  ToolNames = {t1, t2}
  Builtin = {t1}
  Histories <- Priors
  MaxToolCalls = 2
  DefaultSteps = 2
  StepLimits = {0, 1}
  MaxAgentRuns = 2
  Titles = {t1, t2}
  MaxTasks = 2
  Messages = {m1, m2, m3}
  m3 = m3
  n1 = n1
  n2 = n2
  Replicas = {n1, n2}
  ReplicaOf <- Routed
  Readers = {p1}
  Window = 2
  MaxStamp = 1
CHECK_DEADLOCK FALSE
INVARIANTS BrainTypeOK RunsFollowGraph HistoryAnswered ContextFaithful
PROPERTIES IngestsWhole BrainEnds
