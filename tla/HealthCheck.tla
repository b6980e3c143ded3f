----------------------------- MODULE HealthCheck -----------------------------
(***************************************************************************)
(* The health checker of the shared packages (pkg/health/health.go): Run   *)
(* copies the registered checks under the lock, runs them at once with a   *)
(* timeout each, and joins their results into a report.                    *)
(***************************************************************************)
EXTENDS FiniteSets

CONSTANTS
  Checks,    \* what Register is called with
  Reports    \* calls of Run, by ReadinessHandler

VARIABLES
  registered,  \* c.checks
  reportAt,    \* where each call is
  ran,         \* the copy it runs
  before,      \* the checks registered when it began
  outcome,     \* results
  report       \* Report.Status

healthVars == <<registered, reportAt, ran, before, outcome, report>>

HealthTypeOK ==
  /\ registered \in SUBSET Checks
  /\ reportAt \in [Reports -> {"none", "copy", "join", "done"}]
  /\ ran \in [Reports -> SUBSET Checks] /\ before \in [Reports -> SUBSET Checks]
  /\ outcome \in [Reports -> [Checks -> {"none", "up", "down"}]]
  /\ report \in [Reports -> {"none", "up", "down"}]

HealthInit ==
  /\ registered = {}
  /\ reportAt = [r \in Reports |-> "none"]
  /\ ran = [r \in Reports |-> {}] /\ before = [r \in Reports |-> {}]
  /\ outcome = [r \in Reports |-> [k \in Checks |-> "none"]]
  /\ report = [r \in Reports |-> "none"]

ReportGoto(r, label) == reportAt' = [reportAt EXCEPT ![r] = label]

RegisterCheck(k) ==
  /\ registered' = registered \cup {k}
  /\ UNCHANGED <<reportAt, ran, before, outcome, report>>

Ready(r) ==
  /\ reportAt[r] = "none"
  /\ before' = [before EXCEPT ![r] = registered]
  /\ ReportGoto(r, "copy")
  /\ UNCHANGED <<registered, ran, outcome, report>>

CopyChecks(r) ==
  /\ reportAt[r] = "copy"
  /\ ran' = [ran EXCEPT ![r] = registered]
  /\ ReportGoto(r, "join")
  /\ UNCHANGED <<registered, before, outcome, report>>

\* Fn returns, if only because its context timed out.
CheckReturns(r, k, status) ==
  /\ reportAt[r] = "join" /\ k \in ran[r] /\ outcome[r][k] = "none"
  /\ outcome' = [outcome EXCEPT ![r][k] = status]
  /\ UNCHANGED <<registered, reportAt, ran, before, report>>

Overall(r) == IF \E k \in ran[r] : outcome[r][k] = "down" THEN "down" ELSE "up"

\* Variant for mutation: the report does not wait for the goroutines.
JoinEarly(r) ==
  /\ reportAt[r] = "join"
  /\ report' = [report EXCEPT ![r] = Overall(r)]
  /\ ReportGoto(r, "done")
  /\ UNCHANGED <<registered, ran, before, outcome>>

\* wg.Wait, and the worst of the results.
Join(r) ==
  /\ reportAt[r] = "join" /\ \A k \in ran[r] : outcome[r][k] # "none"
  /\ report' = [report EXCEPT ![r] = Overall(r)]
  /\ ReportGoto(r, "done")
  /\ UNCHANGED <<registered, ran, before, outcome>>

-----------------------------------------------------------------------------
ReportStep(r) ==
  \/ CopyChecks(r) \/ Join(r)
  \/ \E k \in Checks, s \in {"up", "down"} : CheckReturns(r, k, s)

HealthNext ==
  \/ \E k \in Checks : RegisterCheck(k)
  \/ \E r \in Reports : Ready(r) \/ ReportStep(r)

\* The goroutines run, and checks heed their contexts.
HealthFairness == \A r \in Reports : WF_healthVars(ReportStep(r))

-----------------------------------------------------------------------------
(* Properties                                                              *)

\* A report is up only if every check that was registered when it was asked
\* for ran and was up.
ReportTrue ==
  \A r \in Reports : report[r] = "up" => \A k \in before[r] : outcome[r][k] = "up"

\* Every report is made.
ReportEnds == \A r \in Reports : reportAt[r] = "copy" ~> reportAt[r] = "done"
=============================================================================
