------------------------------ MODULE Lifecycle ------------------------------
(***************************************************************************)
(* The life of a process of each kind: bzy-runner, bzy-interface and       *)
(* bzy-brain (their cmd/main.go, httpserver.Server and server.GRPCServer), *)
(* from fx.New to its exit, with requests in flight.                       *)
(*                                                                         *)
(* fx is modelled by what the code relies on: Start runs the OnStart       *)
(* hooks; Stop runs the OnStop hooks of what was started, and returns at   *)
(* once when nothing was, or another Stop has begun; Run is Start, a wait  *)
(* for a signal, and Stop with a deadline.  The deadline of a stop and the *)
(* 15 s of the brain's own hook are one event here.  The hooks of the      *)
(* runner's parts are in their own modules: none of them runs here.        *)
(***************************************************************************)
EXTENDS FiniteSets

CONSTANTS
  Programs,   \* subset of "runner", "interface", "brain"
  Requests    \* requests and gRPC calls

ASSUME LifecycleAssumption == Programs \subseteq {"runner", "interface", "brain"}

VARIABLES
  prog,       \* the program this process runs
  built,      \* fx.New succeeded
  fx,         \* the state of fx's life cycle
  mainAt,     \* where main is
  goAt,       \* the goroutine in which the interface waits for a signal
  signalled,  \* who received SIGTERM
  server,     \* the goroutine that listens and serves
  request,    \* what has become of each request
  stopper,    \* who runs the OnStop hooks
  late,       \* the time for draining is over
  exitCode    \* of the process, or none while it runs

lifeVars == <<prog, built, fx, mainAt, goAt, signalled, server, request, stopper, late, exitCode>>

LifeTypeOK ==
  /\ prog \in Programs \cup {"none"} /\ built \in BOOLEAN
  /\ fx \in {"stopped", "started", "stopping"}
  /\ mainAt \in {"new", "start", "wait", "stop", "end"}
  /\ goAt \in {"none", "wait", "stop", "done"}
  /\ signalled \subseteq {"main", "goroutine"} /\ late \in BOOLEAN
  /\ server \in {"none", "listen", "serving", "closed"}
  /\ request \in [Requests -> {"none", "open", "answered", "cut"}]
  /\ stopper \in {"none", "main", "goroutine"}
  /\ exitCode \in {"none", "0", "1"}

LifeInit ==
  /\ prog = "none" /\ built = FALSE
  /\ fx = "stopped" /\ mainAt = "new" /\ signalled = {} /\ late = FALSE
  /\ goAt = "none"
  /\ server = "none" /\ request = [q \in Requests |-> "none"]
  /\ stopper = "none" /\ exitCode = "none"

Up == exitCode = "none"
Open == {q \in Requests : request[q] = "open"}
Cut == request' = [q \in Requests |-> IF q \in Open THEN "cut" ELSE request[q]]

\* The process is gone, and with it what it was doing.
ExitsWith(code) == exitCode' = code /\ Cut

-----------------------------------------------------------------------------
(* main and fx                                                             *)

\* main begins with fx.New, which keeps the error of a constructor, of Redis
\* for instance.
NewApp(program, goroutine) ==
  /\ mainAt = "new"
  /\ prog' = program /\ built' \in BOOLEAN
  /\ mainAt' = "start" /\ goAt' = goroutine
  /\ UNCHANGED <<fx, signalled, server, request, stopper, late, exitCode>>

NewRunner == "runner" \in Programs /\ NewApp("runner", "none")
NewInterface == "interface" \in Programs /\ NewApp("interface", "wait")
NewBrain == "brain" \in Programs /\ NewApp("brain", "none")

\* app.Run begins with app.Start, whose hook starts the server's goroutine.
AppStart ==
  /\ Up /\ mainAt = "start" /\ prog # "runner" /\ built
  /\ mainAt' = "wait" /\ fx' = "started" /\ server' = "listen"
  /\ UNCHANGED <<prog, built, goAt, signalled, request, stopper, late, exitCode>>

\* app.Start returns the error of fx.New.
AppFails ==
  /\ Up /\ mainAt = "start" /\ prog # "runner" /\ ~built
  /\ ExitsWith("1")
  /\ UNCHANGED <<prog, built, fx, mainAt, goAt, signalled, server, stopper, late>>

\* The runner's main goes on to its wait for a signal, errors or not.
RunnerWaits ==
  /\ Up /\ mainAt = "start" /\ prog = "runner"
  /\ mainAt' = "wait"
  /\ UNCHANGED <<prog, built, fx, goAt, signalled, server, request, stopper, late, exitCode>>

\* The interface and the brain have a goroutine that listens from the start
\* (an app that is not built ends by itself);
\* main listens when fx has started.  What the brain's receives is logged.
Signal ==
  /\ Up
  /\ mainAt = "wait" \/ (mainAt = "start" /\ prog # "runner" /\ built)
  /\ signalled' = signalled \cup (IF mainAt = "wait" THEN {"main"} ELSE {})
                             \cup (IF prog = "interface" THEN {"goroutine"} ELSE {})
  /\ UNCHANGED <<prog, built, fx, mainAt, goAt, server, request, stopper, late, exitCode>>

Stops(who) == fx = "started" /\ fx' = "stopping" /\ stopper' = who
StopsNothing == fx # "started" /\ UNCHANGED <<fx, stopper>>

\* app.Stop by main: in Run, or, in the runner, for itself.
MainStop ==
  /\ Up /\ mainAt = "wait" /\ "main" \in signalled
  /\ \/ Stops("main") /\ mainAt' = "stop"
     \/ StopsNothing /\ mainAt' = "end"
  /\ UNCHANGED <<prog, built, goAt, signalled, server, request, late, exitCode>>

\* app.Stop(context.Background()) by the interface's goroutine.
GoroutineStop ==
  /\ Up /\ goAt = "wait" /\ "goroutine" \in signalled
  /\ \/ Stops("goroutine") /\ goAt' = "stop"
     \/ StopsNothing /\ goAt' = "done"
  /\ UNCHANGED <<prog, built, mainAt, signalled, server, request, late, exitCode>>

\* main returns and the process ends, whatever other goroutines do.
MainReturns ==
  /\ Up /\ mainAt = "end"
  /\ ExitsWith(IF stopper = "main" /\ late /\ prog = "interface" THEN "1" ELSE "0")
  /\ UNCHANGED <<prog, built, fx, mainAt, goAt, signalled, server, stopper, late>>

-----------------------------------------------------------------------------
(* The server                                                              *)

Serve ==
  /\ Up /\ server = "listen" /\ fx = "started"
  /\ server' = "serving"
  /\ UNCHANGED <<prog, built, fx, mainAt, goAt, signalled, request, stopper, late, exitCode>>

\* The address cannot be had: logger.Fatal.
ListenFails ==
  /\ Up /\ server = "listen"
  /\ ExitsWith("1")
  /\ UNCHANGED <<prog, built, fx, mainAt, goAt, signalled, server, stopper, late>>

\* Serve after the stop: ErrServerClosed is nil to the interface's server,
\* ErrServerStopped is fatal to the brain's.
ServeTooLate ==
  /\ Up /\ server = "listen" /\ fx # "started"
  /\ server' = "closed"
  /\ IF prog = "brain" THEN ExitsWith("1") ELSE UNCHANGED <<request, exitCode>>
  /\ UNCHANGED <<prog, built, fx, mainAt, goAt, signalled, stopper, late>>

\* A stopping server takes no new ones.
RequestArrives(q) ==
  /\ Up /\ server = "serving" /\ fx = "started" /\ request[q] = "none"
  /\ request' = [request EXCEPT ![q] = "open"]
  /\ UNCHANGED <<prog, built, fx, mainAt, goAt, signalled, server, stopper, late, exitCode>>

\* The handler returns, or panics: gin and recoveryInterceptor answer either.
RequestEnds(q) ==
  /\ Up /\ request[q] = "open"
  /\ request' = [request EXCEPT ![q] = "answered"]
  /\ UNCHANGED <<prog, built, fx, mainAt, goAt, signalled, server, stopper, late, exitCode>>

-----------------------------------------------------------------------------
(* The OnStop hook                                                         *)

\* main's stop has a deadline and so has the brain's hook; the goroutine's
\* stop of the interface has none.
TimeIsUp ==
  /\ Up /\ fx = "stopping" /\ stopper = "main" /\ ~late
  /\ late' = TRUE
  /\ UNCHANGED <<prog, built, fx, mainAt, goAt, signalled, server, request, stopper, exitCode>>

StopReturns ==
  /\ fx' = "stopped" /\ server' = (IF server = "serving" THEN "closed" ELSE server)
  /\ IF stopper = "main" THEN mainAt' = "end" /\ UNCHANGED goAt
                         ELSE goAt' = "done" /\ UNCHANGED mainAt

\* Variant for mutation: the hook does not wait for requests.
DrainedAtOnce ==
  /\ Up /\ fx = "stopping"
  /\ StopReturns
  /\ UNCHANGED <<prog, built, signalled, request, stopper, late, exitCode>>

\* Shutdown or GracefulStop returns when there are no more requests.
Drained ==
  /\ Up /\ fx = "stopping" /\ Open = {}
  /\ StopReturns
  /\ UNCHANGED <<prog, built, signalled, request, stopper, late, exitCode>>

\* Variant for mutation: only GracefulStop, and no deadline.
AbandonNever == FALSE /\ UNCHANGED lifeVars

\* After the deadline the brain's hook calls grpc.Stop, which cuts calls, and
\* Shutdown returns with them open.
Abandon ==
  /\ Up /\ fx = "stopping" /\ late
  /\ IF prog = "brain" THEN Cut ELSE UNCHANGED request
  /\ StopReturns
  /\ UNCHANGED <<prog, built, signalled, stopper, late, exitCode>>

-----------------------------------------------------------------------------
LifeStep ==
  \/ AppStart \/ AppFails \/ RunnerWaits \/ MainStop \/ MainReturns \/ GoroutineStop
  \/ Serve \/ ServeTooLate \/ TimeIsUp \/ Drained \/ Abandon

LifeNext ==
  \/ NewRunner \/ NewInterface \/ NewBrain \/ LifeStep \/ Signal \/ ListenFails
  \/ \E q \in Requests : RequestArrives(q) \/ RequestEnds(q)

\* main, the stops and their deadlines go on; no request has to end.
LifeFairness == WF_lifeVars(LifeStep)

-----------------------------------------------------------------------------
(* Properties                                                              *)

\* A request that was taken is answered before the process exits, unless the
\* time for draining was over, or, in the interface, main did not run the
\* hooks itself: app.Run returns while the goroutine's Stop still drains
\* (interface main.go:58, brain main.go:93).
ExitsDrained ==
  \A q \in Requests : request[q] = "cut" =>
    late \/ (prog = "interface" /\ stopper = "goroutine")

\* Once main has received a signal the process exits, and without one the
\* interface and the brain serve, or end because they cannot; the runner
\* starts nothing, since its main never calls app.Start (runner main.go:77).
\* A signal from before fx has started stops nothing (brain main.go:107).
SignalExits ==
  /\ "main" \in signalled ~> ~Up
  /\ mainAt = "wait" ~> (server = "serving" \/ signalled # {} \/ ~Up \/ prog = "runner")
=============================================================================
