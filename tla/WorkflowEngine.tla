--------------------------- MODULE WorkflowEngine ---------------------------
(***************************************************************************)
(* The workflow engine of bzy-brain (internal/workflows/workflow.go): runs *)
(* that walk through the graph of a definition in a goroutine of their     *)
(* own, while callers start, read and cancel them.  Runs and definitions   *)
(* are shared without a lock, so a caller sees every intermediate state.   *)
(*                                                                         *)
(* A graph is a record: nodes are the ids it defines, entry the first one, *)
(* next and onError the edges, and handled the nodes whose type has a      *)
(* handler.  The engine has no method that registers a handler yet, so the *)
(* deployed set is empty; the walk is written for any set, and so is this  *)
(* model.                                                                  *)
(***************************************************************************)
EXTENDS Naturals, Sequences, FiniteSets

CONSTANTS
  Runs,
  Nodes,     \* node ids
  NoNode,    \* the empty id
  Graphs     \* definitions that can be executed

ASSUME GraphsAssumption ==
  /\ NoNode \notin Nodes
  /\ \A g \in Graphs :
       /\ g.nodes \subseteq Nodes /\ IsFiniteSet(g.nodes) /\ g.entry \in Nodes \cup {NoNode}
       /\ g.next \in [Nodes -> Seq(Nodes)]
       /\ g.onError \in [Nodes -> Nodes \cup {NoNode}]
       /\ g.handled \subseteq Nodes

VARIABLES
  graph,    \* the definition each run was started with
  fails,    \* the nodes whose handler fails in this run
  status,   \* run.Status
  at,       \* the goroutine: "top" of the loop, in a handler, finishing
  cur,      \* current
  ns,       \* run.NodeStates
  output,   \* run.Output is set
  ended     \* how executeDAG returned

flowVars == <<graph, fails, status, at, cur, ns, output, ended>>

FlowTypeOK ==
  /\ \A r \in Runs : graph[r] \in Graphs \cup {NoNode}
  /\ fails \in [Runs -> SUBSET Nodes]
  /\ status \in [Runs -> {"none", "running", "completed", "failed", "cancelled"}]
  /\ at \in [Runs -> {"none", "top", "handler", "finish", "error", "done"}]
  /\ cur \in [Runs -> Nodes \cup {NoNode}]
  /\ ns \in [Runs -> [Nodes -> {"none", "running", "completed", "failed"}]]
  /\ output \in [Runs -> BOOLEAN]
  /\ ended \in [Runs -> {"not", "nil", "error"}]

FlowInit ==
  /\ graph = [r \in Runs |-> NoNode] /\ fails = [r \in Runs |-> {}]
  /\ status = [r \in Runs |-> "none"] /\ at = [r \in Runs |-> "none"]
  /\ cur = [r \in Runs |-> NoNode]
  /\ ns = [r \in Runs |-> [n \in Nodes |-> "none"]]
  /\ output = [r \in Runs |-> FALSE]
  /\ ended = [r \in Runs |-> "not"]

FlowGoto(r, label) == at' = [at EXCEPT ![r] = label]
Mark(r, s) == ns' = [ns EXCEPT ![r][cur[r]] = s]
Current(r, n) == cur' = [cur EXCEPT ![r] = n]

-----------------------------------------------------------------------------
(* Engine                                                                  *)

\* Variant for mutation: the run waits in a status that nothing leaves.
ExecutePending(r, g, F) ==
  /\ status[r] = "none"
  /\ graph' = [graph EXCEPT ![r] = g]
  /\ fails' = [fails EXCEPT ![r] = F]
  /\ status' = [status EXCEPT ![r] = "pending"]
  /\ Current(r, g.entry)
  /\ FlowGoto(r, "top")
  /\ UNCHANGED <<ns, output, ended>>

\* The run is in the map and its goroutine started.
Execute(r, g, F) ==
  /\ status[r] = "none"
  /\ graph' = [graph EXCEPT ![r] = g]
  /\ fails' = [fails EXCEPT ![r] = F]
  /\ status' = [status EXCEPT ![r] = "running"]
  /\ Current(r, g.entry)
  /\ FlowGoto(r, "top")
  /\ UNCHANGED <<ns, output, ended>>

\* Whatever the state of the run; its goroutine is not told.
Cancel(r) ==
  /\ status[r] # "none"
  /\ status' = [status EXCEPT ![r] = "cancelled"]
  /\ UNCHANGED <<graph, fails, at, cur, ns, output, ended>>

-----------------------------------------------------------------------------
(* executeDAG                                                              *)

\* The head of the loop for a node that exists and has a handler.
Begin(r) ==
  /\ at[r] = "top" /\ cur[r] \in graph[r].nodes \cap graph[r].handled
  /\ Mark(r, "running")
  /\ FlowGoto(r, "handler")
  /\ UNCHANGED <<graph, fails, status, cur, output, ended>>

\* Without a handler the node's state stays as it was entered, "running".
BeginUnhandled(r) ==
  /\ at[r] = "top" /\ cur[r] \in graph[r].nodes \ graph[r].handled
  /\ Mark(r, "running")
  /\ FlowGoto(r, "error")
  /\ UNCHANGED <<graph, fails, status, cur, output, ended>>

BeginMissing(r) ==
  /\ at[r] = "top" /\ cur[r] # NoNode /\ cur[r] \notin graph[r].nodes
  /\ FlowGoto(r, "error")
  /\ UNCHANGED <<graph, fails, status, cur, ns, output, ended>>

\* Variant for mutation: the loop goes on with the same node.
NodeFailsAgain(r) ==
  /\ at[r] = "handler" /\ cur[r] \in fails[r]
  /\ Mark(r, "failed")
  /\ FlowGoto(r, IF graph[r].onError[cur[r]] = NoNode THEN "error" ELSE "top")
  /\ UNCHANGED <<graph, fails, status, cur, output, ended>>

\* Variant for mutation: OnError is not looked at.
NodeFailsOut(r) ==
  /\ at[r] = "handler" /\ cur[r] \in fails[r]
  /\ Mark(r, "failed")
  /\ FlowGoto(r, "error")
  /\ UNCHANGED <<graph, fails, status, cur, output, ended>>

\* Handle returned an error: on to the OnError node, if there is one.
NodeFails(r) ==
  LET other == graph[r].onError[cur[r]] IN
  /\ at[r] = "handler" /\ cur[r] \in fails[r]
  /\ Mark(r, "failed")
  /\ IF other = NoNode THEN FlowGoto(r, "error") /\ UNCHANGED cur
                       ELSE FlowGoto(r, "top") /\ Current(r, other)
  /\ UNCHANGED <<graph, fails, status, output, ended>>

\* Variant for mutation: the failing node's state is not closed.
NodeDoneUnmarked(r) ==
  LET then == graph[r].next[cur[r]] IN
  /\ at[r] = "handler" /\ cur[r] \notin fails[r]
  /\ IF then = <<>> THEN FlowGoto(r, "finish") /\ UNCHANGED cur
                    ELSE FlowGoto(r, "top") /\ Current(r, Head(then))
  /\ UNCHANGED <<graph, fails, status, ns, output, ended>>

\* Handle returned: on to the first of Next.
NodeDone(r) ==
  LET then == graph[r].next[cur[r]] IN
  /\ at[r] = "handler" /\ cur[r] \notin fails[r]
  /\ Mark(r, "completed")
  /\ IF then = <<>> THEN FlowGoto(r, "finish") /\ UNCHANGED cur
                    ELSE FlowGoto(r, "top") /\ Current(r, Head(then))
  /\ UNCHANGED <<graph, fails, status, output, ended>>

\* The empty id ends the loop.
NoMoreNodes(r) ==
  /\ at[r] = "top" /\ cur[r] = NoNode
  /\ FlowGoto(r, "finish")
  /\ UNCHANGED <<graph, fails, status, cur, ns, output, ended>>

\* run.Status = WFCompleted; the output follows.
Complete(r) ==
  /\ at[r] = "finish" /\ ended[r] = "not"
  /\ status' = [status EXCEPT ![r] = "completed"]
  /\ ended' = [ended EXCEPT ![r] = "nil"]
  /\ UNCHANGED <<graph, fails, at, cur, ns, output>>

SetOutput(r) ==
  /\ at[r] = "finish" /\ ended[r] = "nil"
  /\ output' = [output EXCEPT ![r] = TRUE]
  /\ FlowGoto(r, "done")
  /\ UNCHANGED <<graph, fails, status, cur, ns, ended>>

\* The goroutine of Execute records the error.
Fail(r) ==
  /\ at[r] = "error"
  /\ status' = [status EXCEPT ![r] = "failed"]
  /\ ended' = [ended EXCEPT ![r] = "error"]
  /\ FlowGoto(r, "done")
  /\ UNCHANGED <<graph, fails, cur, ns, output>>

-----------------------------------------------------------------------------
Begins(r) == Begin(r) \/ BeginUnhandled(r)

ExecuteDAG(r) ==
  \/ Begins(r) \/ BeginMissing(r) \/ NodeFails(r) \/ NodeDone(r)
  \/ NoMoreNodes(r) \/ Complete(r) \/ SetOutput(r) \/ Fail(r)

FlowNext ==
  \E r \in Runs :
    \/ \E g \in Graphs, F \in SUBSET Nodes : Execute(r, g, F)
    \/ Cancel(r)
    \/ ExecuteDAG(r)

FlowSpec == FlowInit /\ [][FlowNext]_flowVars

\* The goroutine of a run is scheduled and its handlers return; nobody has to
\* start or cancel anything.
FlowFairness == \A r \in Runs : WF_flowVars(ExecuteDAG(r))

-----------------------------------------------------------------------------
(* Properties                                                              *)

\* How a run goes on from node m, given what fails: an edge to n, or its end.
Edge(r, m, n) ==
  \/ m \in fails[r] /\ n = graph[r].onError[m]
  \/ m \notin fails[r] /\ graph[r].next[m] # <<>> /\ n = Head(graph[r].next[m])
Finishes(r, m) == m \notin fails[r] /\ graph[r].next[m] = <<>>

\* The nodes of p are a complete and successful way through the graph.
Succeeds(r, p) ==
  /\ p[1] = graph[r].entry
  /\ \A k \in DOMAIN p : p[k] \in graph[r].nodes \cap graph[r].handled
  /\ \A k \in DOMAIN p : k > 1 => Edge(r, p[k - 1], p[k])
  /\ Finishes(r, p[Len(p)])

CanSucceed(r) ==
  \/ graph[r].entry = NoNode
  \/ \E k \in 1..Cardinality(graph[r].nodes) :
       \E p \in [1..k -> graph[r].nodes] : Succeeds(r, p)

\* executeDAG returns nil exactly if a way through the graph succeeds, with
\* the failures of this run and their OnError nodes taken.
OutcomeFollowsGraph ==
  \A r \in Runs : ended[r] # "not" => (ended[r] = "nil" <=> CanSucceed(r))

\* When a run has ended, every node it entered is settled, but for one that
\* had no handler.
NodesSettled ==
  \A r \in Runs : ended[r] # "not" =>
    \A n \in graph[r].handled : ns[r][n] # "running"

\* A run of an acyclic graph ends: the goroutine is done, with a status that
\* only Cancel can have changed.
FlowEnds ==
  \A r \in Runs : at[r] # "none" ~>
    at[r] = "done" /\ (status[r] = "cancelled" \/
                       status[r] = IF ended[r] = "nil" THEN "completed" ELSE "failed")

\* workflow.go:99, "Cancel stops a running workflow": no node begins after it.
CancelStops == [][\A r \in Runs : Begins(r) => status[r] # "cancelled"]_flowVars
=============================================================================
