------------------------------- MODULE SdkWait -------------------------------
(***************************************************************************)
(* Wait of the Go SDK (pkg/client/tasks.go, workflows.go): it asks for a   *)
(* task or a workflow run again and again until it has ended.  One request *)
(* is one step here: SdkClient has what becomes of it.                     *)
(***************************************************************************)
EXTENDS Naturals

CONSTANTS Waiters   \* calls of Wait, each for a job of its own

VARIABLES
  job,        \* the status of the task or run on the server
  waitAt,     \* where each call is
  waitOver,   \* its context is over
  waitGot     \* the status it returned, or "err"

waitVars == <<job, waitAt, waitOver, waitGot>>

Statuses == {"queued", "running", "completed", "failed", "cancelled"}

\* Variant for mutation: a cancelled job is taken for one that goes on.
TerminalUncancelled(status) == status \in {"completed", "failed"}

\* A task can also be "dead"; nobody tells it from "failed" here.
Terminal(status) == status \in {"completed", "failed", "cancelled"}

WaitTypeOK ==
  /\ job \in [Waiters -> Statuses]
  /\ waitAt \in [Waiters -> {"none", "get", "sleep", "returned"}]
  /\ waitOver \in [Waiters -> BOOLEAN]
  /\ waitGot \in [Waiters -> Statuses \cup {"none", "err"}]

WaitInit ==
  /\ job = [w \in Waiters |-> "queued"] /\ waitAt = [w \in Waiters |-> "none"]
  /\ waitOver = [w \in Waiters |-> FALSE] /\ waitGot = [w \in Waiters |-> "none"]

WaitReturns(w, got) ==
  /\ waitAt' = [waitAt EXCEPT ![w] = "returned"]
  /\ waitGot' = [waitGot EXCEPT ![w] = got]

\* A job runs, ends, and starts again only before it has ended.
JobMoves(w, status) ==
  /\ job[w] \in {"queued", "running"} /\ waitAt[w] # "none"
  /\ job' = [job EXCEPT ![w] = status]
  /\ UNCHANGED <<waitAt, waitOver, waitGot>>

Wait(w) ==
  /\ waitAt[w] = "none"
  /\ waitAt' = [waitAt EXCEPT ![w] = "get"]
  /\ UNCHANGED <<job, waitOver, waitGot>>

WaitCancelled(w) ==
  /\ waitAt[w] \in {"get", "sleep"}
  /\ waitOver' = [waitOver EXCEPT ![w] = TRUE]
  /\ UNCHANGED <<job, waitAt, waitGot>>

\* A request whose context is over fails.
GetAnswers(w) ==
  /\ waitAt[w] = "get" /\ ~waitOver[w]
  /\ IF Terminal(job[w])
       THEN WaitReturns(w, job[w])
       ELSE waitAt' = [waitAt EXCEPT ![w] = "sleep"] /\ UNCHANGED waitGot
  /\ UNCHANGED <<job, waitOver>>

GetFails(w) ==
  /\ waitAt[w] = "get"
  /\ WaitReturns(w, "err")
  /\ UNCHANGED <<job, waitOver>>

\* select: the context or the interval.
SleepCancelled(w) ==
  /\ waitAt[w] = "sleep" /\ waitOver[w]
  /\ WaitReturns(w, "err")
  /\ UNCHANGED <<job, waitOver>>

\* Variant for mutation: the loop is left for good after the interval.
SleepForever(w) ==
  /\ waitAt[w] = "sleep"
  /\ UNCHANGED waitVars

SleepEnds(w) ==
  /\ waitAt[w] = "sleep"
  /\ waitAt' = [waitAt EXCEPT ![w] = "get"]
  /\ UNCHANGED <<job, waitOver, waitGot>>

-----------------------------------------------------------------------------
PollStep(w) == GetAnswers(w) \/ SleepCancelled(w) \/ SleepEnds(w) \/ (waitOver[w] /\ GetFails(w))

WaitNext ==
  \E w \in Waiters :
    \/ Wait(w) \/ WaitCancelled(w) \/ PollStep(w) \/ GetFails(w)
    \/ \E s \in Statuses : JobMoves(w, s)

\* Requests are answered and intervals end; no job has to.
WaitFairness == \A w \in Waiters : WF_waitVars(PollStep(w))

-----------------------------------------------------------------------------
(* Properties                                                              *)

\* Wait returns once its job has ended or its context is over.
WaitEnds ==
  \A w \in Waiters :
    waitAt[w] # "none" /\ (waitOver[w] \/ job[w] \in {"completed", "failed", "cancelled"})
      ~> waitAt[w] = "returned"
=============================================================================
