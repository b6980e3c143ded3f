------------------------------ MODULE MCBrain -------------------------------
(* The parts of bzy-brain in one instance for TLC.  They share no state, so *)
(* a behaviour runs one of them and leaves the others alone.  What queries  *)
(* and deletions share with ingests is not the same, the cache for one and  *)
(* the table for the other, so the pipeline is two parts: rag, in which no  *)
(* collection is deleted, and table, in which nothing is asked or cached.   *)
EXTENDS MCWorkflowEngine, RagPipeline, ToolLoop, Planner, ConversationMemory

VARIABLE part   \* the part this behaviour is about

brainVars == <<part, flowVars, ragVars, loopVars, planVars, memVars>>

BrainInit ==
  /\ part \in {"flow", "rag", "table", "loop", "plan", "mem"}
  /\ FlowInit /\ RagInit /\ LoopInit /\ PlanInit /\ MemInit

Untouched == UNCHANGED <<part, flowVars, loopVars, planVars, memVars>>

BrainNext ==
  \/ part = "flow" /\ FlowNext /\ UNCHANGED <<part, ragVars, loopVars, planVars, memVars>>
  \/ part = "rag" /\ RagNext /\ UNCHANGED deleteVars /\ Untouched
  \/ part = "table" /\ RagNext /\ UNCHANGED cache /\ (\A o \in Queries : ragAt'[o] = "none") /\ Untouched
  \/ part = "loop" /\ LoopNext /\ UNCHANGED <<part, flowVars, ragVars, planVars, memVars>>
  \/ part = "plan" /\ PlanNext /\ UNCHANGED <<part, flowVars, ragVars, loopVars, memVars>>
  \/ part = "mem" /\ MemNext /\ UNCHANGED <<part, flowVars, ragVars, loopVars, planVars>>

BrainSpec ==
  /\ BrainInit /\ [][BrainNext]_brainVars
  /\ FlowFairness /\ RagFairness /\ LoopFairness /\ PlanFairness

-----------------------------------------------------------------------------
(* Values for the instance                                                 *)

CONSTANTS ta, tb   \* texts

Documents == {<<ta, Blank, tb>>, <<tb, ta>>}

\* A text is near itself, ta is near tb, and tb is not near ta.
Nearness == [p \in Texts \X Texts |-> IF p[1] = p[2] THEN 100 ELSE IF p[1] = ta THEN 70 ELSE 50]

\* Two messages reach one replica and the third another.
CONSTANTS m3, n1, n2
Routed == [m \in Messages |-> IF m = m3 THEN n2 ELSE n1]

Priors == {<<>>, <<Says("user"), Says("assistant")>>}

-----------------------------------------------------------------------------
\* The state of every part is what its declarations say.
BrainTypeOK == FlowTypeOK /\ RagTypeOK /\ LoopTypeOK /\ PlanTypeOK /\ MemTypeOK

\* A workflow run that ended ended the way its graph and the failures of its
\* nodes say, and leaves no node behind as running (workflow.go executeDAG).
RunsFollowGraph == OutcomeFollowsGraph /\ NodesSettled

\* What is begun ends: workflow runs, ingests and queries (concurrent ones
\* included), loops over tools, and the walk through a plan.
BrainEnds == FlowEnds /\ RagEnds /\ LoopEnds /\ PlanEnds
=============================================================================
