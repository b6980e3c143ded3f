---------------------------- MODULE TaskDelivery ----------------------------
(***************************************************************************)
(* What the task queue and the worker pools together promise a producer:   *)
(* entries are started in the order they were submitted, each one at most  *)
(* once; a started entry is either finished or lost, and that verdict is   *)
(* final.  Nothing here says that an entry is finished: WorkerPool states  *)
(* that as a liveness property and shows what it depends on.               *)
(***************************************************************************)
EXTENDS Naturals

VARIABLES
  submitted,   \* number of entries submitted so far
  started,     \* number of entries handed out: entries 1..started
  running,     \* started entries whose processing has not ended
  finished,    \* entries a worker reported on, as done or as failed
  lost         \* started entries nobody will ever report on

dvars == <<submitted, started, running, finished, lost>>

DInit ==
  /\ submitted = 0
  /\ started = 0
  /\ running = {}
  /\ finished = {}
  /\ lost = {}

Submit ==
  /\ submitted' = submitted + 1
  /\ UNCHANGED <<started, running, finished, lost>>

\* The oldest entry not handed out yet goes to one worker, or is lost on the way.
StartNext ==
  /\ started < submitted
  /\ started' = started + 1
  /\ \/ running' = running \cup {started'} /\ UNCHANGED lost
     \/ lost' = lost \cup {started'} /\ UNCHANGED running
  /\ UNCHANGED <<submitted, finished>>

Finish(e) ==
  /\ e \in running
  /\ running' = running \ {e}
  /\ finished' = finished \cup {e}
  /\ UNCHANGED <<submitted, started, lost>>

\* The entries a dying process was working on disappear together.
Lose(S) ==
  /\ S \subseteq running
  /\ running' = running \ S
  /\ lost' = lost \cup S
  /\ UNCHANGED <<submitted, started, finished>>

DNext ==
  \/ Submit
  \/ StartNext
  \/ \E e \in running : Finish(e)
  \/ \E S \in SUBSET running : Lose(S)

DSpec == DInit /\ [][DNext]_dvars
=============================================================================
