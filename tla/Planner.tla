------------------------------- MODULE Planner -------------------------------
(***************************************************************************)
(* The planner of bzy-brain (internal/planning/planning.go): Decompose     *)
(* makes a plan of what the provider answers, and NextTask picks the task  *)
(* to run next.  Replan and UpdateTask are stubs, so whoever runs a plan   *)
(* keeps the statuses of its tasks; that executor, which the code does not *)
(* have yet, is modelled as the loop NextTask is written for: one task at  *)
(* a time until there is none.                                             *)
(*                                                                         *)
(* The provider is asked for dependencies that are titles; the id of a     *)
(* task is generated, and stands here for its place in the plan.           *)
(***************************************************************************)
EXTENDS Naturals, Sequences, SequencesExt

CONSTANTS
  Titles,
  MaxTasks   \* bound: tasks of a plan

ASSUME PlannerAssumption == MaxTasks \in Nat /\ Titles \cap Nat = {}

VARIABLES
  plan,     \* plan.Tasks
  planAt,   \* where the executor is
  current   \* the task NextTask returned

planVars == <<plan, planAt, current>>

PlanTasks ==
  [title : Titles, dependencies : SUBSET Titles, status : {"pending", "running", "completed", "failed"}]

PlanTypeOK ==
  /\ plan \in BoundedSeq(PlanTasks, MaxTasks)
  /\ planAt \in {"none", "next", "running", "done", "failed"}
  /\ current \in 0..MaxTasks

PlanInit == plan = <<>> /\ planAt = "none" /\ current = 0

\* Fresh ids, every task pending, in the order of the answer.
Decompose(answer) ==
  /\ planAt = "none"
  /\ plan' = answer
  /\ planAt' = "next"
  /\ UNCHANGED current

\* The provider fails or its answer is no JSON of that shape.
DecomposeFails ==
  /\ planAt = "none"
  /\ planAt' = "failed"
  /\ UNCHANGED <<plan, current>>

-----------------------------------------------------------------------------
(* NextTask                                                                *)

\* The ids of completed tasks.
Completed == {i \in DOMAIN plan : plan[i].status = "completed"}

Ready(i) == plan[i].status = "pending" /\ plan[i].dependencies \subseteq Completed

\* Variant for mutation: a task that is under way or over is returned again.
NextTaskAgain ==
  /\ planAt = "next"
  /\ \E i \in DOMAIN plan :
       /\ plan[i].dependencies \subseteq Completed
       /\ \A j \in DOMAIN plan : plan[j].dependencies \subseteq Completed => i <= j
       /\ current' = i
  /\ planAt' = "running"
  /\ plan' = [plan EXCEPT ![current'].status = "running"]

\* The first task that is ready.
NextTask ==
  /\ planAt = "next"
  /\ \E i \in DOMAIN plan :
       /\ Ready(i) /\ \A j \in DOMAIN plan : Ready(j) => i <= j
       /\ current' = i
       /\ plan' = [plan EXCEPT ![i].status = "running"]
  /\ planAt' = "running"

\* "all done or blocked"
NoTask ==
  /\ planAt = "next"
  /\ \A i \in DOMAIN plan : ~Ready(i)
  /\ planAt' = "done"
  /\ UNCHANGED <<plan, current>>

\* The executor records how its task ended.
TaskEnds(status) ==
  /\ planAt = "running"
  /\ plan' = [plan EXCEPT ![current].status = status]
  /\ planAt' = "next"
  /\ UNCHANGED current

-----------------------------------------------------------------------------
PlanStep ==
  \/ NextTask \/ NoTask
  \/ \E s \in {"completed", "failed"} : TaskEnds(s)

PlanNext ==
  \/ \E answer \in BoundedSeq({t \in PlanTasks : t.status = "pending"}, MaxTasks) : Decompose(answer)
  \/ DecomposeFails
  \/ PlanStep

PlanSpec == PlanInit /\ [][PlanNext]_planVars

\* The executor goes on, and every task ends.
PlanFairness == WF_planVars(PlanStep)

-----------------------------------------------------------------------------
(* Properties                                                              *)

\* A plan ends: no task is run for ever, or again.
PlanEnds == planAt = "next" ~> planAt = "done"

\* planning.go:65, "NextTask returns the next executable task (respects
\* dependencies)", and the prompt, planning.go:91, "dependencies":
\* ["task_title_1"]: it says that there is none only if every pending task
\* depends on a title that is not completed.
NextTaskFindsExecutable ==
  planAt = "done" =>
    \A i \in DOMAIN plan : plan[i].status = "pending" =>
      \E t \in plan[i].dependencies : \A j \in Completed : plan[j].title # t
=============================================================================
