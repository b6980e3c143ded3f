------------------------- MODULE NodeRegistryProofs -------------------------
(***************************************************************************)
(* Proofs about NodeRegistry, for any number of nodes with ids of their    *)
(* own and any times that satisfy TimesAssumption.                         *)
(*                                                                         *)
(* RegisteredHealthy is an argument about time.  Every heartbeat but the   *)
(* first starts when the ticker fires, or later if the one before was      *)
(* under way (Phase), so a node that may still fail k times in a row       *)
(* writes its key within k cycles and the time of one command, counted     *)
(* from its next tick or from the heartbeat under way.  What is left of    *)
(* the record outlasts that (Fresh), also when an older SET has just       *)
(* overwritten it.                                                         *)
(***************************************************************************)
EXTENDS NodeRegistry, Integers, TLAPS

DistinctIds == \A m, n \in Nodes : IdOf[m] = IdOf[n] => m = n

\* What a process that is down has forgotten, and what one that runs is doing.
Control(n) ==
  /\ proc[n] = "down" =>
       /\ ~ tick[n] /\ ~ quit[n] /\ ~ ctx[n] /\ ~ beaten[n]
       /\ next[n] = 0 /\ miss[n] = 0
  /\ quit[n] => proc[n] = "stopping"
  /\ hb[n] = "del" => proc[n] # "up"
  /\ proc[n] = "up" /\ hb[n] = "ended" => ctx[n]
  /\ beaten[n] => next[n] > 0
  /\ proc[n] = "up" /\ hb[n] = "set" /\ ~ slow[n] => age[n] <= Late

\* Where heartbeats are relative to the ticker: the first has none yet, the
\* others begin when it fires or later.
Phase(n) ==
  proc[n] = "up" /\ ~ ctx[n] =>
    /\ next[n] = 0 => hb[n] # "wait" /\ ~ tick[n]
    /\ hb[n] = "set" /\ next[n] > 0 /\ ~ tick[n] => age[n] + next[n] <= Interval

\* The time until the ticker fires.
ToTick(n) == IF tick[n] THEN 0 ELSE next[n]

\* The time that may pass with heartbeats that fail.
ToFail(n) == (MaxMiss - miss[n]) * Cycle

\* No earlier than this the next heartbeat that succeeds has returned.
Needed(n) ==
  IF hb[n] = "set" THEN ToFail(n) + Late - age[n] ELSE ToTick(n) + ToFail(n) + Late

Fresh(n) ==
  Registered(n) /\ Prompt(n) =>
    /\ by[IdOf[n]] = n
    /\ left[IdOf[n]] >= seen[IdOf[n]]
    /\ seen[IdOf[n]] > Needed(n)

\* What ListNodes has still to find.
Found ==
  \A n \in must :
    /\ Registered(n) /\ Prompt(n)
    /\ IdOf[n] \in todo \/ n \in got \/ IdOf[n] \in unread

Steady == NodeTypeOK /\ \A n \in Nodes : Control(n) /\ Phase(n)

Inv == Steady /\ (\A n \in Nodes : Fresh(n)) /\ Found

-----------------------------------------------------------------------------
(* The times                                                               *)

LEMMA Times ==
  /\ Interval \in Nat /\ Interval > 0 /\ MaxMiss \in Nat /\ Late \in Nat
  /\ Cycle \in Nat /\ Interval <= Cycle /\ Late <= Cycle
  /\ TTL \in Nat /\ TTL > MaxMiss * Cycle + Interval + 2 * Late
  /\ TTL > Interval /\ TTL > Late
<1>1. Cycle \in Nat /\ Interval <= Cycle /\ Late <= Cycle
  BY TimesAssumption DEF Cycle
<1>2. MaxMiss * Cycle \in Nat
  BY <1>1, TimesAssumption
<1> QED
  BY <1>1, <1>2, TimesAssumption

-----------------------------------------------------------------------------
(* Types                                                                   *)

LEMMA TypeInit == NodeInit => NodeTypeOK
BY NodesAssumption, Times DEF NodeInit, NodeTypeOK, NoStray

LEMMA TypeStep == NodeTypeOK /\ [NodeNext]_nodeVars => NodeTypeOK'
<1> SUFFICES ASSUME NodeTypeOK, [NodeNext]_nodeVars
             PROVE  NodeTypeOK'
  OBVIOUS
<1>0. /\ Interval \in Nat /\ Interval > 0 /\ MaxMiss \in Nat
      /\ Late \in Nat /\ TTL \in Nat /\ TTL > 0
  BY Times
<1> USE NodesAssumption, <1>0 DEF NodeTypeOK, kvars, hvars, lvars, Beat, NoStray
<1>1. CASE Tick
  <2> USE <1>1 DEF Tick
  <2>1. left' \in [Ids -> 0..TTL] /\ seen' \in [Ids -> 0..TTL] /\ by' \in [Ids -> Nodes \cup {Nobody}]
    BY DEF NoExpiry
  <2>2. \A i \in Ids : left'[i] = 0 <=> by'[i] = Nobody
    BY DEF NoExpiry
  <2>3. age' \in [Nodes -> 0..TTL] /\ stray' \in [Nodes -> 0..NoStray]
    BY DEF Older
  <2>6. slow' \in [Nodes -> BOOLEAN] /\ must' \subseteq Nodes
    OBVIOUS
  <2>4. next' \in [Nodes -> 0..Interval]
    <3>1. \A n \in Nodes : next[n] \in 0..Interval
      OBVIOUS
    <3>2. \A n \in Nodes : next[n] # 0 => next[n] - 1 \in 0..Interval
      BY <3>1
    <3>3. Interval \in 0..Interval /\ 0 \in 0..Interval
      OBVIOUS
    <3>4. next' = [n \in Nodes |-> IF Alive(n) /\ next[n] = 1 THEN Interval
                                   ELSE IF next[n] = 0 THEN 0 ELSE next[n] - 1]
      BY Zenon
    <3> HIDE DEF Alive, NodeTypeOK, Tick
    <3> QED
      BY <3>2, <3>3, <3>4
  <2>5. tick' \in [Nodes -> BOOLEAN]
    OBVIOUS
  <2> QED
    BY <2>1, <2>2, <2>3, <2>4, <2>5, <2>6
<1>2. ASSUME NEW n \in Nodes, HeartbeatStep(n)
      PROVE  NodeTypeOK'
  <2>1. CASE BeatDone(n)
    BY <2>1 DEF BeatDone, SetKey, AfterBeat, LeavesStray
  <2>2. CASE BeatFails(n)
    BY <2>2 DEF BeatFails, SetKey, AfterBeat, LeavesStray
  <2>3. CASE DeregisterDone(n)
    BY <2>3 DEF DeregisterDone, DelKey
  <2>4. CASE Orphaned(n)
    BY <2>4 DEF Orphaned, SetKey, DelKey
  <2>5. CASE SelectTick(n)
    BY <2>5 DEF SelectTick
  <2>6. CASE SelectQuit(n)
    BY <2>6 DEF SelectQuit
  <2>7. CASE SelectCtx(n)
    BY <2>7 DEF SelectCtx
  <2> QED
    BY <1>2, <2>1, <2>2, <2>3, <2>4, <2>5, <2>6, <2>7 DEF HeartbeatStep
<1>3. ASSUME NEW n \in Nodes, ProcessStep(n)
      PROVE  NodeTypeOK'
  <2>1. CASE StartNode(n)
    BY <2>1 DEF StartNode
  <2>2. CASE StartCtxDone(n)
    BY <2>2 DEF StartCtxDone
  <2>3. CASE StopHooks(n)
    BY <2>3 DEF StopHooks
  <2>4. CASE End(n)
    BY <2>4 DEF End, Forget
  <2> QED
    BY <1>3, <2>1, <2>2, <2>3, <2>4 DEF ProcessStep, Exit, Crash
<1>4. CASE ListScan
  BY <1>4 DEF ListScan
<1>5. ASSUME NEW i \in Ids, ListGet(i)
      PROVE  NodeTypeOK'
  BY <1>5 DEF ListGet
<1>6. ASSUME NEW n \in Nodes, StrayEnds(n)
      PROVE  NodeTypeOK'
  <2>1. CASE StrayRuns(n)
    <3>1. stray[n] \in 0..TTL
      BY <2>1 DEF StrayRuns
    <3> QED
      BY <2>1, <3>1 DEF StrayRuns, SetKey
  <2>2. CASE StrayLost(n)
    BY <2>2 DEF StrayLost
  <2> QED
    BY <1>6, <2>1, <2>2 DEF StrayEnds
<1>7. CASE UNCHANGED nodeVars
  BY <1>7 DEF nodeVars
<1> QED
  BY <1>1, <1>2, <1>3, <1>4, <1>5, <1>6, <1>7 DEF NodeNext


-----------------------------------------------------------------------------
(* Control and the phase of the heartbeats                                 *)

LEMMA SteadyInit == NodeInit => Steady
BY TypeInit DEF NodeInit, Steady, Control, Phase

LEMMA SteadyStep == Steady /\ [NodeNext]_nodeVars => Steady'
<1> SUFFICES ASSUME Steady, [NodeNext]_nodeVars, NEW m \in Nodes
             PROVE  Control(m)' /\ Phase(m)'
  BY TypeStep DEF Steady
<1>0. /\ Interval \in Nat /\ Interval > 0
      /\ Late \in Nat /\ TTL \in Nat /\ TTL > Interval
  BY Times
<1>a. NodeTypeOK /\ Control(m) /\ Phase(m)
  BY DEF Steady
<1> USE <1>0, <1>a DEF NodeTypeOK, Control, Phase, Beat, hvars
<1>1. CASE Tick
  <2>1. /\ proc'[m] = proc[m] /\ hb'[m] = hb[m] /\ miss'[m] = miss[m]
        /\ quit'[m] = quit[m] /\ ctx'[m] = ctx[m] /\ beaten'[m] = beaten[m]
    BY <1>1 DEF Tick
  <2>2. tick'[m] <=> tick[m] \/ (proc[m] # "down" /\ next[m] = 1)
    BY <1>1, Zenon DEF Tick, Alive
  <2>3. next'[m] = IF proc[m] # "down" /\ next[m] = 1 THEN Interval
                   ELSE IF next[m] = 0 THEN 0 ELSE next[m] - 1
    BY <1>1 DEF Tick, Alive
  <2>a. hb[m] = "set" => age'[m] = Older(age[m])
    BY <1>1 DEF Tick, InFlight
  <2>b. slow'[m] <=> slow[m] \/ (hb[m] = "set" /\ age'[m] > Late)
    BY <1>1, Zenon DEF Tick
  <2>4. hb[m] = "set" => age'[m] <= age[m] + 1 /\ (slow'[m] <=> slow[m] \/ age'[m] > Late)
    BY <2>a, <2>b DEF Older
  <2>5. proc[m] = "up" /\ hb[m] = "wait" => ~ tick[m]
    BY <1>1 DEF Tick, Quiet, Alive
  <2>6. next[m] \in 0..Interval /\ age[m] \in 0..TTL /\ age'[m] \in 0..TTL
    BY TypeStep
  <2>7. Control(m)'
    BY <2>1, <2>2, <2>3, <2>4, <2>6
  <2>8. Phase(m)'
    BY <2>1, <2>2, <2>3, <2>4, <2>5, <2>6
  <2> QED
    BY <2>7, <2>8
<1>2. ASSUME NEW n \in Nodes, HeartbeatStep(n)
      PROVE  Control(m)' /\ Phase(m)'
  <2>1. CASE BeatDone(n)
    BY <2>1 DEF BeatDone, AfterBeat, Alive
  <2>2. CASE BeatFails(n)
    BY <2>2 DEF BeatFails, AfterBeat, Alive
  <2>3. CASE DeregisterDone(n)
    BY <2>3 DEF DeregisterDone, Alive
  <2>4. CASE Orphaned(n)
    BY <2>4 DEF Orphaned, Alive
  <2>5. CASE SelectTick(n)
    BY <2>5 DEF SelectTick, Alive
  <2>6. CASE SelectQuit(n)
    BY <2>6 DEF SelectQuit, Alive
  <2>7. CASE SelectCtx(n)
    BY <2>7 DEF SelectCtx, Alive
  <2> QED
    BY <1>2, <2>1, <2>2, <2>3, <2>4, <2>5, <2>6, <2>7 DEF HeartbeatStep
<1>3. ASSUME NEW n \in Nodes, ProcessStep(n)
      PROVE  Control(m)' /\ Phase(m)'
  <2>1. CASE StartNode(n)
    BY <2>1 DEF StartNode
  <2>2. CASE StartCtxDone(n)
    BY <2>2 DEF StartCtxDone, Alive
  <2>3. CASE StopHooks(n)
    BY <2>3 DEF StopHooks
  <2>4. CASE End(n)
    BY <2>4 DEF End, Forget
  <2> QED
    BY <1>3, <2>1, <2>2, <2>3, <2>4 DEF ProcessStep, Exit, Crash
<1>4. CASE ListScan
  BY <1>4 DEF ListScan
<1>5. ASSUME NEW i \in Ids, ListGet(i)
      PROVE  Control(m)' /\ Phase(m)'
  BY <1>5 DEF ListGet
<1>6. ASSUME NEW n \in Nodes, StrayEnds(n)
      PROVE  Control(m)' /\ Phase(m)'
  BY <1>6 DEF StrayEnds, StrayRuns, StrayLost
<1>7. CASE UNCHANGED nodeVars
  BY <1>7 DEF nodeVars
<1> QED
  BY <1>1, <1>2, <1>3, <1>4, <1>5, <1>6, <1>7 DEF NodeNext

-----------------------------------------------------------------------------
(* The record of a registered node                                         *)

\* The time that may still pass when k heartbeats in a row have failed.
LEMMA FailBounds ==
  ASSUME NEW k \in 0..MaxMiss
  PROVE  /\ (MaxMiss - k) * Cycle \in Nat
         /\ (MaxMiss - k) * Cycle <= MaxMiss * Cycle
         /\ k < MaxMiss => (MaxMiss - (k + 1)) * Cycle = (MaxMiss - k) * Cycle - Cycle
<1>1. k \in Nat /\ MaxMiss \in Nat /\ Cycle \in Nat /\ MaxMiss - k \in Nat
  BY Times
<1>2. (MaxMiss - k) * Cycle \in Nat /\ k * Cycle \in Nat
  BY <1>1
<1>3. MaxMiss * Cycle = (MaxMiss - k) * Cycle + k * Cycle
  BY <1>1
<1>4. (MaxMiss - (k + 1)) * Cycle = (MaxMiss - k) * Cycle - Cycle
  BY <1>1
<1> QED
  BY <1>1, <1>2, <1>3, <1>4

LEMMA FreshInit == NodeInit => \A n \in Nodes : Fresh(n)
BY DEF NodeInit, Fresh, Registered

\* No wait is longer than this.
LEMMA NeededBound ==
  ASSUME NodeTypeOK', NEW n \in Nodes, miss'[n] <= MaxMiss
  PROVE  Needed(n)' \in Int /\ Needed(n)' <= Interval + MaxMiss * Cycle + Late
<1>1. age'[n] \in 0..TTL /\ next'[n] \in 0..Interval /\ miss'[n] \in 0..MaxMiss
  BY Times DEF NodeTypeOK
<1>2. ToTick(n)' \in Nat /\ ToTick(n)' <= Interval
  BY <1>1, Times DEF ToTick
<1>3. ToFail(n)' \in Nat /\ ToFail(n)' <= MaxMiss * Cycle
  BY <1>1, FailBounds DEF ToFail
<1>4. MaxMiss * Cycle \in Nat
  BY Times
<1>5. CASE hb'[n] = "set"
  BY <1>1, <1>3, <1>4, <1>5, Times DEF Needed
<1>6. CASE hb'[n] # "set"
  BY <1>2, <1>3, <1>4, <1>6, Times DEF Needed
<1> QED
  BY <1>5, <1>6

\* A record that is written outlasts the heartbeats to come, if it is no older
\* than Late.
LEMMA WrittenFresh ==
  ASSUME NodeTypeOK, NodeTypeOK', NEW n \in Nodes, miss'[n] <= MaxMiss,
         NEW a \in 0..Late, SetKey(n, a)
  PROVE  /\ by'[IdOf[n]] = n
         /\ left'[IdOf[n]] >= seen'[IdOf[n]]
         /\ seen'[IdOf[n]] > Needed(n)'
<1>1. by'[IdOf[n]] = n /\ left'[IdOf[n]] = TTL /\ seen'[IdOf[n]] = TTL - a
  BY NodesAssumption DEF SetKey, NodeTypeOK
<1>2. Needed(n)' \in Int /\ Needed(n)' <= Interval + MaxMiss * Cycle + Late
  BY NeededBound
<1>3. MaxMiss * Cycle \in Nat
  BY Times
<1> QED
  BY <1>1, <1>2, <1>3, Times

\* A step of another node touches neither the node nor its key.
LEMMA OthersFresh ==
  ASSUME NodeTypeOK, NEW m \in Nodes, Fresh(m),
         /\ proc'[m] = proc[m] /\ hb'[m] = hb[m] /\ age'[m] = age[m] /\ next'[m] = next[m]
         /\ tick'[m] = tick[m] /\ ctx'[m] = ctx[m] /\ miss'[m] = miss[m] /\ beaten'[m] = beaten[m]
         /\ slow'[m] = slow[m],
         /\ left'[IdOf[m]] = left[IdOf[m]] /\ by'[IdOf[m]] = by[IdOf[m]]
         /\ seen'[IdOf[m]] = seen[IdOf[m]]
  PROVE  Fresh(m)'
BY DEF Fresh, Registered, Prompt, Needed, ToTick, ToFail

LEMMA TickFresh ==
  ASSUME Steady, NEW m \in Nodes, Fresh(m), Registered(m), Prompt(m), ~ slow'[m], Tick
  PROVE  /\ by'[IdOf[m]] = m
         /\ left'[IdOf[m]] >= seen'[IdOf[m]]
         /\ seen'[IdOf[m]] > Needed(m)'
<1> DEFINE i == IdOf[m]
<1>1. i \in Ids /\ left[i] \in 0..TTL /\ seen[i] \in 0..TTL /\ TTL \in Nat
  BY NodesAssumption, Times DEF Steady, NodeTypeOK
<1>2. by[i] = m /\ left[i] >= seen[i] /\ seen[i] > Needed(m)
  BY DEF Fresh
<1>3. age[m] \in 0..TTL /\ next[m] \in 0..Interval /\ miss[m] \in 0..MaxMiss
  BY Times DEF Steady, NodeTypeOK, Prompt
<1>4. ToFail(m) \in Nat /\ ToFail(m)' = ToFail(m)
  BY <1>3, FailBounds DEF ToFail, Tick
<1>5. /\ Needed(m) >= 1
      /\ Needed(m)' = Needed(m) - 1
  <2>1. hb'[m] = hb[m] /\ proc[m] = "up" /\ ~ ctx[m] /\ beaten[m]
    BY DEF Tick, Registered
  <2>2. hb[m] \in {"set", "wait"} /\ next[m] > 0
    BY <2>1 DEF Steady, NodeTypeOK, Control
  <2>3. CASE hb[m] = "set"
    <3>1. age'[m] = Older(age[m]) /\ ~ (age'[m] > Late)
      BY <2>3 DEF Tick, InFlight
    <3>2. age'[m] = age[m] + 1 /\ age[m] < Late
      BY <1>3, <3>1, Times DEF Older
    <3>3. /\ Needed(m) = ToFail(m) + Late - age[m]
          /\ Needed(m)' = ToFail(m)' + Late - age'[m]
      BY <2>1, <2>3 DEF Needed
    <3> QED
      BY <1>3, <1>4, <3>2, <3>3, Times
  <2>4. CASE hb[m] = "wait"
    <3>1. ~ tick[m]
      BY <2>1, <2>4 DEF Tick, Quiet, Alive
    <3>2. tick'[m] <=> tick[m] \/ (proc[m] # "down" /\ next[m] = 1)
      BY Zenon DEF Tick, Alive
    <3>3. tick'[m] <=> next[m] = 1
      BY <2>1, <3>1, <3>2
    <3>4. next[m] # 1 => next'[m] = next[m] - 1
      BY <2>2, <1>3 DEF Tick
    <3>5. ToTick(m) = next[m] /\ ToTick(m)' = next[m] - 1
      BY <1>3, <2>2, <3>1, <3>3, <3>4, Times DEF ToTick
    <3> QED
      BY <1>3, <1>4, <2>1, <2>2, <2>4, <3>5, Times DEF Needed
  <2> QED
    BY <2>2, <2>3, <2>4
<1>6. Needed(m) \in Int
  BY <1>3, <1>4, Times DEF Needed, ToTick
<1>7. seen[i] >= 2 /\ left[i] >= 2
  BY <1>1, <1>2, <1>5, <1>6
<1>8. by'[i] = by[i] /\ left'[i] = left[i] - 1 /\ seen'[i] = seen[i] - 1
  BY <1>1, <1>7 DEF Tick, NoExpiry
<1> QED
  BY <1>1, <1>2, <1>5, <1>6, <1>8

LEMMA FreshStep ==
  DistinctIds /\ Steady /\ (\A n \in Nodes : Fresh(n)) /\ [NodeNext]_nodeVars
    => \A n \in Nodes : Fresh(n)'
<1> SUFFICES ASSUME DistinctIds, Steady, \A n \in Nodes : Fresh(n), [NodeNext]_nodeVars,
                    NEW m \in Nodes, Registered(m)', Prompt(m)'
             PROVE  /\ by'[IdOf[m]] = m
                    /\ left'[IdOf[m]] >= seen'[IdOf[m]]
                    /\ seen'[IdOf[m]] > Needed(m)'
  BY DEF Fresh
<1>0. NodeTypeOK /\ NodeTypeOK' /\ Control(m) /\ Phase(m) /\ Fresh(m)
  BY TypeStep DEF Steady
<1>a. \A n \in Nodes : IdOf[n] \in Ids /\ (n # m => IdOf[n] # IdOf[m])
  BY NodesAssumption DEF DistinctIds
<1> USE <1>0 DEF Registered, Prompt, NodeTypeOK, Beat
<1>1. CASE Tick
  <2>1. Registered(m) /\ Prompt(m) /\ ~ slow'[m]
    BY <1>1 DEF Tick
  <2> QED
    BY <1>1, <2>1, TickFresh
<1>2. ASSUME NEW n \in Nodes, HeartbeatStep(n), n # m
      PROVE  Fresh(m)'
  <2> DEFINE Untouched == /\ proc'[m] = proc[m] /\ hb'[m] = hb[m] /\ age'[m] = age[m]
                          /\ next'[m] = next[m] /\ tick'[m] = tick[m] /\ ctx'[m] = ctx[m]
                          /\ miss'[m] = miss[m] /\ beaten'[m] = beaten[m]
                          /\ slow'[m] = slow[m]
             Kept == /\ left'[IdOf[m]] = left[IdOf[m]]
                     /\ by'[IdOf[m]] = by[IdOf[m]] /\ seen'[IdOf[m]] = seen[IdOf[m]]
  <2>a. IdOf[n] # IdOf[m] /\ IdOf[m] \in Ids
    BY <1>2, <1>a
  <2>b. SetKey(n, age[n]) \/ DelKey(n) \/ UNCHANGED kvars => Kept
    BY <2>a DEF SetKey, DelKey, kvars
  <2> USE <1>2, <2>b DEF AfterBeat
  <2>1. BeatDone(n) => Untouched /\ Kept
    BY DEF BeatDone
  <2>2. BeatFails(n) => Untouched /\ Kept
    BY DEF BeatFails
  <2>3. DeregisterDone(n) => Untouched /\ Kept
    BY DEF DeregisterDone
  <2>4. Orphaned(n) => Untouched /\ Kept
    BY DEF Orphaned
  <2>5. SelectTick(n) => Untouched /\ Kept
    BY DEF SelectTick
  <2>6. SelectQuit(n) => Untouched /\ Kept
    BY DEF SelectQuit
  <2>7. SelectCtx(n) => Untouched /\ Kept
    BY DEF SelectCtx
  <2>c. Untouched /\ Kept
    BY <2>1, <2>2, <2>3, <2>4, <2>5, <2>6, <2>7 DEF HeartbeatStep
  <2> QED
    BY <2>c, OthersFresh
<1>3. CASE HeartbeatStep(m)
  <2>1. CASE BeatDone(m)
    <3>1. SetKey(m, age[m]) /\ miss'[m] <= MaxMiss /\ ~ (age[m] > Late)
      BY <2>1 DEF BeatDone
    <3>2. age[m] \in 0..Late
      BY <3>1, Times
    <3> QED
      BY <3>1, <3>2, WrittenFresh
  <2>2. CASE BeatFails(m)
    <3>1. hb[m] = "set" /\ AfterBeat(m) /\ proc[m] = "up" /\ ~ ctx[m] /\ beaten[m] /\ ~ slow[m]
      BY <2>2 DEF BeatFails, AfterBeat
    <3>4. miss'[m] <= MaxMiss /\ age[m] \in 0..Late
      BY <3>1, Times DEF Control
    <3>2. CASE SetKey(m, age[m])
      BY <3>2, <3>4, WrittenFresh
    <3>3. CASE UNCHANGED kvars
      <4>1. miss[m] \in 0..MaxMiss /\ miss[m] < MaxMiss /\ miss'[m] = miss[m] + 1
        BY <2>2, <3>4, Times DEF BeatFails
      <4>a. miss'[m] \in 0..MaxMiss
        BY <4>1, Times
      <4>2. ToFail(m)' = ToFail(m) - Cycle /\ ToFail(m) \in Nat /\ ToFail(m)' \in Nat
        <5>1. /\ (MaxMiss - miss[m]) * Cycle \in Nat
              /\ (MaxMiss - (miss[m] + 1)) * Cycle = (MaxMiss - miss[m]) * Cycle - Cycle
          BY <4>1, FailBounds
        <5>2. (MaxMiss - miss'[m]) * Cycle \in Nat
          BY <4>a, FailBounds
        <5> QED
          BY <4>1, <5>1, <5>2 DEF ToFail
      <4>3. ToTick(m)' \in Nat /\ ToTick(m)' <= Cycle - age[m]
        BY <3>1, <3>4, Times DEF AfterBeat, Control, Phase, ToTick
      <4>4. Needed(m) = ToFail(m) + Late - age[m]
            /\ Needed(m)' = ToTick(m)' + ToFail(m)' + Late
        BY <3>1 DEF Needed, AfterBeat
      <4>5. Needed(m)' <= Needed(m) /\ Needed(m) \in Int /\ Needed(m)' \in Int
        BY <3>4, <4>2, <4>3, <4>4, Times
      <4>6. seen[IdOf[m]] \in Int
        BY <1>a, Times
      <4> QED
        BY <3>1, <3>3, <4>1, <4>5, <4>6, Times DEF Fresh, kvars
    <3> QED
      BY <2>2, <3>2, <3>3, <3>1 DEF BeatFails
  <2>3. CASE DeregisterDone(m)
    BY <2>3 DEF DeregisterDone, Control
  <2>4. CASE Orphaned(m)
    BY <2>4 DEF Orphaned, Alive
  <2>5. CASE SelectTick(m)
    <3>1. hb[m] = "wait" /\ tick[m] /\ UNCHANGED <<left, by, seen, miss>> /\ Registered(m)
      BY <2>5 DEF SelectTick, kvars
    <3>2. hb'[m] = "set" /\ age'[m] = 0
      BY <2>5 DEF SelectTick
    <3>5. miss[m] \in 0..MaxMiss /\ Prompt(m)
      BY <2>5, Times DEF SelectTick
    <3>3. ToFail(m)' = ToFail(m) /\ ToFail(m) \in Nat
      BY <3>1, <3>5, FailBounds DEF ToFail
    <3>4. Needed(m)' = Needed(m)
      BY <3>1, <3>2, <3>3, Times DEF Needed, ToTick
    <3> QED
      BY <3>1, <3>4, <3>5 DEF Fresh
  <2>6. CASE SelectQuit(m)
    BY <2>6 DEF SelectQuit, Control
  <2>7. CASE SelectCtx(m)
    BY <2>7 DEF SelectCtx
  <2> QED
    BY <1>3, <2>1, <2>2, <2>3, <2>4, <2>5, <2>6, <2>7 DEF HeartbeatStep
<1>4. ASSUME NEW n \in Nodes, ProcessStep(n)
      PROVE  n # m /\ Fresh(m)'
  <2> USE DEF kvars, hvars
  <2>1. CASE StartNode(n)
    <3>1. n # m
      BY <2>1 DEF StartNode, Control
    <3> QED
      BY <2>1, <3>1, OthersFresh DEF StartNode
  <2>2. CASE StartCtxDone(n)
    BY <2>2, OthersFresh DEF StartCtxDone
  <2>3. CASE StopHooks(n)
    BY <2>3, OthersFresh DEF StopHooks
  <2>4. CASE End(n)
    BY <2>4, OthersFresh DEF End, Forget
  <2> QED
    BY <1>4, <2>1, <2>2, <2>3, <2>4 DEF ProcessStep, Exit, Crash
<1>5. CASE ListScan
  BY <1>5, OthersFresh DEF ListScan, Fresh, kvars, hvars
<1>6. ASSUME NEW i \in Ids, ListGet(i)
      PROVE  Fresh(m)'
  BY <1>6, OthersFresh DEF ListGet, kvars, hvars
<1>7. ASSUME NEW n \in Nodes, StrayEnds(n)
      PROVE  Fresh(m)'
  <2>1. CASE StrayLost(n)
    BY <2>1, OthersFresh DEF StrayLost, kvars
  <2>2. CASE StrayRuns(n) /\ n # m
    BY <2>2, <1>a, OthersFresh DEF StrayRuns, SetKey
  <2>3. CASE StrayRuns(m)
    <3>1. SetKey(m, stray[m]) /\ miss'[m] <= MaxMiss /\ stray[m] # NoStray /\ ~ (stray[m] > Late)
      BY <2>3 DEF StrayRuns
    <3>2. stray[m] \in 0..Late
      BY <3>1, Times DEF NoStray
    <3> QED
      BY <3>1, <3>2, WrittenFresh DEF Fresh
  <2> QED
    BY <1>7, <2>1, <2>2, <2>3 DEF StrayEnds
<1>8. CASE UNCHANGED nodeVars
  BY <1>8, OthersFresh DEF nodeVars, Fresh, kvars, hvars
<1> QED
  BY <1>1, <1>2, <1>3, <1>4, <1>5, <1>6, <1>7, <1>8 DEF NodeNext, Fresh

-----------------------------------------------------------------------------
(* What ListNodes has still to find                                        *)

LEMMA FoundStep ==
  DistinctIds /\ Inv /\ [NodeNext]_nodeVars => Found'
<1> SUFFICES ASSUME DistinctIds, Inv, [NodeNext]_nodeVars, NEW m \in must'
             PROVE  Registered(m)' /\ Prompt(m)' /\ (IdOf[m] \in todo' \/ m \in got' \/ IdOf[m] \in unread')
  BY DEF Found
<1>0. m \in Nodes
  BY TypeStep DEF Inv, Steady, NodeTypeOK
<1>a. NodeTypeOK /\ Control(m) /\ Fresh(m) /\ Found
  BY <1>0 DEF Inv, Steady
<1>1. CASE ListScan
  <2>1. Registered(m) /\ Registered(m)' /\ Prompt(m) /\ Prompt(m)'
    BY <1>1 DEF ListScan, Registered, Prompt, hvars
  <2>2. by[IdOf[m]] = m /\ IdOf[m] \in Ids /\ m # Nobody
    BY <1>0, <1>a, <2>1, NodesAssumption DEF Fresh
  <2>3. left[IdOf[m]] > 0
    BY <1>a, <2>2 DEF NodeTypeOK
  <2> QED
    BY <1>1, <2>1, <2>2, <2>3 DEF ListScan
<1>2. ASSUME NEW i \in Ids, ListGet(i)
      PROVE  Registered(m)' /\ Prompt(m)' /\ (IdOf[m] \in todo' \/ m \in got' \/ IdOf[m] \in unread')
  <2>1. must' = must /\ Registered(m) /\ Registered(m)' /\ Prompt(m) /\ Prompt(m)'
    BY <1>2, <1>a DEF ListGet, Found, Registered, Prompt, hvars
  <2>2. by[IdOf[m]] = m /\ IdOf[m] \in Ids /\ m # Nobody
    BY <1>0, <1>a, <2>1, NodesAssumption DEF Fresh
  <2>3. left[IdOf[m]] > 0
    BY <1>a, <2>2 DEF NodeTypeOK
  <2> QED
    BY <1>2, <1>a, <2>1, <2>2, <2>3 DEF ListGet, Found
<1>3. ASSUME UNCHANGED <<todo, got, unread>>, must' \subseteq must, Prompt(m) => Prompt(m)',
             UNCHANGED <<proc, ctx>> /\ (beaten'[m] = beaten[m] \/ beaten'[m])
      PROVE  Registered(m)' /\ Prompt(m)' /\ (IdOf[m] \in todo' \/ m \in got' \/ IdOf[m] \in unread')
  BY <1>3, <1>a DEF Found, Registered
<1>4. CASE Tick
  <2>1. Prompt(m)
    BY <1>4, <1>a DEF Tick, Found
  <2>2. ~ slow'[m] /\ Prompt(m)'
    BY <1>4, <2>1 DEF Tick, Prompt
  <2> QED
    BY <1>3, <1>4, <2>2 DEF Tick
<1>5. ASSUME NEW n \in Nodes, HeartbeatStep(n)
      PROVE  Registered(m)' /\ Prompt(m)' /\ (IdOf[m] \in todo' \/ m \in got' \/ IdOf[m] \in unread')
  <2> USE <1>0, <1>3, <1>a DEF NodeTypeOK, AfterBeat, lvars
  <2>1. CASE BeatDone(n)
    <3>1. Registered(m) /\ (m = n => ~ slow[n])
      BY <2>1 DEF BeatDone, Found, Prompt
    <3>2. m = n => ~ (age[n] > Late)
      BY <2>1, <3>1, Times DEF BeatDone, Control, Registered
    <3>3. Prompt(m) => Prompt(m)'
      BY <2>1, <3>2, Times DEF BeatDone, Prompt
    <3> QED
      BY <2>1, <3>3 DEF BeatDone
  <2>2. CASE BeatFails(n)
    <3>1. Prompt(m) => Prompt(m)'
      BY <2>2 DEF BeatFails, Prompt
    <3> QED
      BY <2>2, <3>1 DEF BeatFails
  <2>3. CASE DeregisterDone(n) \/ Orphaned(n)
    BY <2>3 DEF DeregisterDone, Orphaned, Prompt
  <2>4. CASE SelectTick(n) \/ SelectQuit(n) \/ SelectCtx(n)
    BY <2>4 DEF SelectTick, SelectQuit, SelectCtx, Prompt
  <2> QED
    BY <1>5, <2>1, <2>2, <2>3, <2>4 DEF HeartbeatStep
<1>6. ASSUME NEW n \in Nodes, ProcessStep(n)
      PROVE  Registered(m)' /\ Prompt(m)' /\ (IdOf[m] \in todo' \/ m \in got' \/ IdOf[m] \in unread')
  <2> USE <1>0, <1>a DEF NodeTypeOK, Found, Registered, Prompt, lvars, hvars
  <2>1. CASE StartNode(n)
    BY <2>1 DEF StartNode, Control
  <2>2. CASE StartCtxDone(n)
    BY <2>2 DEF StartCtxDone
  <2>3. CASE StopHooks(n)
    BY <2>3 DEF StopHooks
  <2>4. CASE End(n)
    BY <2>4 DEF End, Forget
  <2> QED
    BY <1>6, <2>1, <2>2, <2>3, <2>4 DEF ProcessStep, Exit, Crash
<1>7. ASSUME NEW n \in Nodes, StrayEnds(n)
      PROVE  Registered(m)' /\ Prompt(m)' /\ (IdOf[m] \in todo' \/ m \in got' \/ IdOf[m] \in unread')
  <2> USE <1>0, <1>3, <1>a DEF NodeTypeOK, Prompt
  <2>1. CASE StrayRuns(n)
    BY <2>1 DEF StrayRuns
  <2>2. CASE StrayLost(n)
    BY <2>2 DEF StrayLost, lvars
  <2> QED
    BY <1>7, <2>1, <2>2 DEF StrayEnds
<1>8. CASE UNCHANGED nodeVars
  BY <1>3, <1>8 DEF nodeVars, lvars, hvars, Prompt
<1> QED
  BY <1>1, <1>2, <1>4, <1>5, <1>6, <1>7, <1>8 DEF NodeNext

-----------------------------------------------------------------------------
(* The theorems                                                            *)

LEMMA InvInit == NodeInit => Inv
BY SteadyInit, FreshInit DEF NodeInit, Inv, Found

LEMMA InvStep == DistinctIds /\ Inv /\ [NodeNext]_nodeVars => Inv'
BY SteadyStep, FreshStep, FoundStep DEF Inv

\* The invariant that the theorems below rest on, with the types of the state.
THEOREM Invariant == ASSUME DistinctIds PROVE NodeSpec => []Inv
<1>1. NodeInit => Inv
  BY InvInit
<1>2. Inv /\ [NodeNext]_nodeVars => Inv'
  BY InvStep
<1> QED
  BY <1>1, <1>2, PTL DEF NodeSpec

\* A node with an id of its own is listed and healthy from its first heartbeat
\* to its stop or the end of its start context, as long as its SETs take no
\* longer than Late and no more than MaxMiss in a row fail, whatever older SETs
\* run in between (heartbeat.go: Run, beat; cluster.go: HealthyNodes).
THEOREM RegisteredHealthyCorrect == ASSUME DistinctIds PROVE NodeSpec => []RegisteredHealthy
<1>1. Inv => RegisteredHealthy
  <2> SUFFICES ASSUME Inv, NEW n \in Nodes, Registered(n), Prompt(n)
               PROVE  by[IdOf[n]] = n /\ IdOf[n] \in Healthy
    BY DEF RegisteredHealthy
  <2>1. NodeTypeOK /\ Fresh(n) /\ Control(n)
    BY DEF Inv, Steady
  <2>2. by[IdOf[n]] = n /\ IdOf[n] \in Ids
    BY <2>1, NodesAssumption DEF Fresh
  <2>3. seen[IdOf[n]] > 0 /\ left[IdOf[n]] > 0
    <3>1. left[IdOf[n]] \in Nat /\ seen[IdOf[n]] \in Nat
      BY <2>1, <2>2, Times DEF NodeTypeOK
    <3>2. age[n] \in Nat /\ next[n] \in Nat /\ miss[n] \in 0..MaxMiss
      BY <2>1, Times DEF NodeTypeOK, Prompt
    <3>5. hb[n] = "set" => age[n] <= Late
      BY <2>1 DEF Control, Registered, Prompt
    <3>3. ToFail(n) \in Nat
      BY <3>2, FailBounds DEF ToFail
    <3>4. Needed(n) \in Nat
      BY <3>2, <3>3, <3>5, Times DEF Needed, ToTick
    <3> QED
      BY <2>1, <3>1, <3>4 DEF Fresh
  <2> QED
    BY <2>2, <2>3 DEF Healthy
<1> QED
  BY <1>1, Invariant, PTL

\* ListNodes returns every node that was registered and prompt from its scan to
\* its last read, unless the GET of its own key failed (cluster.go: ListNodes).
THEOREM ListCompleteCorrect == ASSUME DistinctIds PROVE NodeSpec => []ListComplete
<1>1. Inv => ListComplete
  BY DEF Inv, Found, ListComplete
<1> QED
  BY <1>1, Invariant, PTL
=============================================================================
