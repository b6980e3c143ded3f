------------------------------ MODULE Executor ------------------------------
(***************************************************************************)
(* The executors of bzy-runner (internal/executor/executor.go): Run starts *)
(* a command, kills it when its context is over, and returns with what it  *)
(* wrote.  The docker executor runs "docker run --rm" the same way.        *)
(*                                                                         *)
(* os/exec gives the command pipes, which every process it starts          *)
(* inherits; it kills the command alone, and waits for the end of the      *)
(* pipes, so for every process that still has them.  A container is no     *)
(* child of the docker client and writes through it.                       *)
(***************************************************************************)
EXTENDS Naturals

CONSTANTS
  Cmds,           \* calls of Run
  MaxOffspring,   \* bound: processes a command leaves at a time
  MaxOutput       \* bound: writes of a command and its offspring

ASSUME ExecutorAssumption == MaxOffspring \in Nat /\ MaxOutput \in Nat

VARIABLES
  runAt,       \* where each call is
  docker,      \* it is a call of the docker executor
  timeout,     \* req.Timeout > 0
  expired,     \* the call's context is over
  child,       \* the command
  offspring,   \* processes it started that still run and have the pipes
  container,   \* its container runs
  wrote,       \* what was written to the pipes
  copied,      \* what is in the buffers
  exit         \* how Run returned

execVars == <<runAt, docker, timeout, expired, child, offspring, container, wrote, copied, exit>>

ExecTypeOK ==
  /\ runAt \in [Cmds -> {"none", "wait", "returned"}]
  /\ docker \in [Cmds -> BOOLEAN] /\ timeout \in [Cmds -> BOOLEAN]
  /\ expired \in [Cmds -> BOOLEAN] /\ container \in [Cmds -> BOOLEAN]
  /\ child \in [Cmds -> {"none", "running", "ok", "error", "killed"}]
  /\ offspring \in [Cmds -> 0..MaxOffspring]
  /\ wrote \in [Cmds -> 0..MaxOutput] /\ copied \in [Cmds -> 0..MaxOutput]
  /\ exit \in [Cmds -> {"none", "nil", "ExitError", "error"}]

ExecInit ==
  /\ runAt = [x \in Cmds |-> "none"] /\ docker = [x \in Cmds |-> FALSE]
  /\ timeout = [x \in Cmds |-> FALSE] /\ expired = [x \in Cmds |-> FALSE]
  /\ child = [x \in Cmds |-> "none"] /\ offspring = [x \in Cmds |-> 0]
  /\ container = [x \in Cmds |-> FALSE]
  /\ wrote = [x \in Cmds |-> 0] /\ copied = [x \in Cmds |-> 0]
  /\ exit = [x \in Cmds |-> "none"]

Returns(x, how) ==
  /\ runAt' = [runAt EXCEPT ![x] = "returned"]
  /\ exit' = [exit EXCEPT ![x] = how]

-----------------------------------------------------------------------------
(* The beginning of Run                                                    *)

RunCommand(x, isDocker, limited) ==
  /\ runAt[x] = "none"
  /\ runAt' = [runAt EXCEPT ![x] = "wait"]
  /\ docker' = [docker EXCEPT ![x] = isDocker]
  /\ timeout' = [timeout EXCEPT ![x] = limited]
  /\ child' = [child EXCEPT ![x] = "running"]
  /\ container' = [container EXCEPT ![x] = isDocker]
  /\ UNCHANGED <<expired, offspring, wrote, copied, exit>>

\* "docker run --rm" around the command.
RunDocker(x, limited) == RunCommand(x, TRUE, limited)
RunLocal(x, limited) == RunCommand(x, FALSE, limited)

\* An empty command, or one that cannot be started.
RunRefused(x) ==
  /\ runAt[x] = "none"
  /\ Returns(x, "error")
  /\ UNCHANGED <<docker, timeout, expired, child, offspring, container, wrote, copied>>

\* The timeout is over, or the worker's context cancelled.
Expires(x) ==
  /\ runAt[x] = "wait"
  /\ expired' = [expired EXCEPT ![x] = TRUE]
  /\ UNCHANGED <<runAt, docker, timeout, child, offspring, container, wrote, copied, exit>>

-----------------------------------------------------------------------------
(* The processes                                                           *)

HasPipes(x) == child[x] = "running" \/ offspring[x] > 0

Forks(x) ==
  /\ HasPipes(x) /\ ~docker[x] /\ offspring[x] < MaxOffspring
  /\ offspring' = [offspring EXCEPT ![x] = @ + 1]
  /\ UNCHANGED <<runAt, docker, timeout, expired, child, container, wrote, copied, exit>>

OffspringExits(x) ==
  /\ offspring[x] > 0
  /\ offspring' = [offspring EXCEPT ![x] = @ - 1]
  /\ UNCHANGED <<runAt, docker, timeout, expired, child, container, wrote, copied, exit>>

Writes(x) ==
  /\ HasPipes(x) /\ wrote[x] < MaxOutput
  /\ wrote' = [wrote EXCEPT ![x] = @ + 1]
  /\ UNCHANGED <<runAt, docker, timeout, expired, child, offspring, container, copied, exit>>

\* The docker client ends with its container, or alone when the daemon fails.
ChildExits(x, status) ==
  /\ child[x] = "running"
  /\ child' = [child EXCEPT ![x] = status]
  /\ \/ UNCHANGED container
     \/ container' = [container EXCEPT ![x] = FALSE]
  /\ status = "ok" => ~container'[x]
  /\ UNCHANGED <<runAt, docker, timeout, expired, offspring, wrote, copied, exit>>

\* The container of a client that is gone ends in its own time.
ContainerExits(x) ==
  /\ container[x] /\ child[x] # "running"
  /\ container' = [container EXCEPT ![x] = FALSE]
  /\ UNCHANGED <<runAt, docker, timeout, expired, child, offspring, wrote, copied, exit>>

-----------------------------------------------------------------------------
(* cmd.Run                                                                 *)

\* Variant for mutation: the context is not that of the command.
KillNever(x) ==
  /\ runAt[x] = "wait" /\ expired[x] /\ child[x] = "running"
  /\ UNCHANGED execVars

\* CommandContext kills the command and nothing else.
Kill(x) ==
  /\ runAt[x] = "wait" /\ expired[x] /\ child[x] = "running"
  /\ child' = [child EXCEPT ![x] = "killed"]
  /\ UNCHANGED <<runAt, docker, timeout, expired, offspring, container, wrote, copied, exit>>

Copy(x) ==
  /\ runAt[x] = "wait" /\ copied[x] < wrote[x]
  /\ copied' = [copied EXCEPT ![x] = @ + 1]
  /\ UNCHANGED <<runAt, docker, timeout, expired, child, offspring, container, wrote, exit>>

\* A command that was killed although it had ended well is an error.
Outcome(x) ==
  IF child[x] # "ok" THEN {"ExitError"} ELSE {"nil"} \cup (IF expired[x] THEN {"error"} ELSE {})

\* Variant for mutation: the command's end is enough.
WaitedChild(x) ==
  /\ runAt[x] = "wait" /\ child[x] # "running"
  /\ \E how \in Outcome(x) : Returns(x, how)
  /\ UNCHANGED <<docker, timeout, expired, child, offspring, container, wrote, copied>>

\* The command has ended and so have the pipes.
Waited(x) ==
  /\ runAt[x] = "wait" /\ ~HasPipes(x) /\ copied[x] = wrote[x]
  /\ \E how \in Outcome(x) : Returns(x, how)
  /\ UNCHANGED <<docker, timeout, expired, child, offspring, container, wrote, copied>>

-----------------------------------------------------------------------------
ExecStep(x) == Kill(x) \/ Copy(x) \/ Waited(x)

ExecNext ==
  \E x \in Cmds :
    \/ \E t \in BOOLEAN : RunLocal(x, t) \/ RunDocker(x, t)
    \/ RunRefused(x) \/ Expires(x)
    \/ Forks(x) \/ OffspringExits(x) \/ Writes(x) \/ ContainerExits(x)
    \/ \E s \in {"ok", "error"} : ChildExits(x, s)
    \/ ExecStep(x)

ExecSpec == ExecInit /\ [][ExecNext]_execVars

\* os/exec does its part and a timeout comes; no process has to end.
ExecFairness ==
  \A x \in Cmds : WF_execVars(ExecStep(x)) /\ WF_execVars(timeout[x] /\ Expires(x))

-----------------------------------------------------------------------------
(* Properties                                                              *)

\* What Run returned is final: the output is all there was and nobody can
\* write any more, though offspring went on after the command, and a nil
\* error means that the command itself succeeded (executor.go Run).
OutputComplete ==
  \A x \in Cmds : runAt[x] = "returned" /\ child[x] # "none" =>
    copied[x] = wrote[x] /\ ~HasPipes(x) /\ (exit[x] = "nil" => child[x] = "ok" /\ ~container[x])

\* A run with a timeout returns, unless a process its command left keeps the
\* pipes (executor.go:82).
RunReturns ==
  \A x \in Cmds : runAt[x] = "wait" /\ timeout[x] ~> runAt[x] = "returned" \/ offspring[x] > 0
=============================================================================
