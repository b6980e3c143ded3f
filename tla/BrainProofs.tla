---------------------------- MODULE BrainProofs ----------------------------
(***************************************************************************)
(* Proofs about bzy-brain: its workflow runs, ingests and queries, loops   *)
(* over tools, plans and conversation memory, for any number of each, any  *)
(* finite graphs, documents, answers and histories.  Each part has an      *)
(* invariant of its own; BrainInv is all of them, and a step of one part   *)
(* leaves the others alone (BrainParts).                                   *)
(***************************************************************************)
EXTENDS MCBrain, FiniteSetTheorems, NaturalsInduction, WellFoundedInduction, TLAPS

-----------------------------------------------------------------------------
\* A bounded sequence is one that is not too long.
LEMMA BoundedSeqHas ==
  ASSUME NEW S, NEW s \in Seq(S), NEW n \in Nat, Len(s) \in 0..n
  PROVE  s \in BoundedSeq(S, n)
<1>1. s \in [1..Len(s) -> S]
  OBVIOUS
<1> QED
  BY <1>1 DEF BoundedSeq, SeqOf

-----------------------------------------------------------------------------
(* WorkflowEngine                                                          *)

FlowTyped == FlowTypeOK /\ graph \in [Runs -> Graphs \cup {NoNode}]

Lengths == Nat \ {0}

\* In graph g, when F fails, node m leads to n.
LeadsTo(g, F, m, n) ==
  \/ m \in F /\ n = g.onError[m]
  \/ m \notin F /\ g.next[m] # <<>> /\ n = Head(g.next[m])

\* p is the way from the entry through k nodes that have handlers.
Way(g, F, k, p) ==
  /\ \A i \in 1..k : p[i] \in g.nodes \cap g.handled
  /\ p[1] = g.entry
  /\ \A i, j \in 1..k : j = i + 1 => LeadsTo(g, F, p[i], p[j])

\* The way ends with success.
WholeWay(g, F, k, p) == Way(g, F, k, p) /\ p[k] \notin F /\ g.next[p[k]] = <<>>

HasWay(g, F) == \E k \in Lengths : \E p \in [1..k -> g.nodes] : WholeWay(g, F, k, p)

\* Where a run is, and what was set when.
Underway(r) ==
  /\ at[r] = "none" <=> status[r] = "none"
  /\ at[r] = "none" => \A n \in Nodes : ns[r][n] = "none"
  /\ at[r] # "none" => graph[r] \in Graphs
  /\ at[r] \in {"none", "top", "handler", "error"} => ended[r] = "not"
  /\ at[r] = "finish" => ended[r] # "error"

\* A node with a handler is running only while the run is in it.
Settled(r) ==
  at[r] # "none" =>
    \A n \in graph[r].handled : ns[r][n] = "running" => at[r] = "handler" /\ cur[r] = n

\* Every successful way goes through the current node ...
Inevitable(g, F, at1, cur1) ==
  at1 \in {"top", "handler"} =>
    \A k \in Lengths : \A p \in [1..k -> g.nodes] :
      WholeWay(g, F, k, p) => \E i \in 1..k : p[i] = cur1

\* ... and the run came to it on a way.
Reached(g, F, at1, cur1) ==
  /\ at1 = "top" =>
       \/ cur1 = g.entry
       \/ /\ cur1 # NoNode
          /\ \E k \in Lengths : \E p \in [1..k -> g.nodes] : Way(g, F, k, p) /\ LeadsTo(g, F, p[k], cur1)
  /\ at1 = "handler" => \E k \in Lengths : \E p \in [1..k -> g.nodes] : Way(g, F, k, p) /\ p[k] = cur1

\* An empty graph is not left by an error.
Empties(g, at1, cur1) == g.entry = NoNode => at1 \notin {"handler", "error"} /\ cur1 = NoNode

Outcome(g, F, at1, ended1) ==
  /\ at1 = "error" \/ ended1 = "error" => g.entry # NoNode /\ ~ HasWay(g, F)
  /\ at1 = "finish" \/ ended1 = "nil" => g.entry = NoNode \/ HasWay(g, F)

FlowInv ==
  /\ FlowTyped
  /\ \A r \in Runs :
       /\ Underway(r) /\ Settled(r)
       /\ at[r] # "none" =>
            /\ Inevitable(graph[r], fails[r], at[r], cur[r])
            /\ Reached(graph[r], fails[r], at[r], cur[r])
            /\ Empties(graph[r], at[r], cur[r])
            /\ Outcome(graph[r], fails[r], at[r], ended[r])

-----------------------------------------------------------------------------
(* Ways through a graph                                                    *)

LEMMA WayBegins ==
  ASSUME NEW g, NEW F, g.entry \in g.nodes \cap g.handled
  PROVE  \E k \in Lengths : \E p \in [1..k -> g.nodes] : Way(g, F, k, p) /\ p[k] = g.entry
<1> DEFINE p == [i \in 1..1 |-> g.entry]
<1>1. 1 \in Lengths /\ p \in [1..1 -> g.nodes] /\ p[1] = g.entry /\ \A i \in 1..1 : p[i] = g.entry
  BY DEF Lengths
<1>2. \A i, j \in 1..1 : j # i + 1
  OBVIOUS
<1>3. Way(g, F, 1, p)
  BY <1>1, <1>2 DEF Way
<1> HIDE DEF p
<1> QED
  BY <1>1, <1>3

LEMMA WayExtends ==
  ASSUME NEW g, NEW F, NEW k \in Lengths, NEW p \in [1..k -> g.nodes], Way(g, F, k, p),
         NEW n \in g.nodes \cap g.handled, LeadsTo(g, F, p[k], n)
  PROVE  \E m \in Lengths : \E q \in [1..m -> g.nodes] : Way(g, F, m, q) /\ q[m] = n
<1> DEFINE q == [i \in 1..(k + 1) |-> IF i <= k THEN p[i] ELSE n]
<1>1. k \in Nat /\ k >= 1 /\ k + 1 \in Lengths
  BY DEF Lengths
<1>2. /\ \A i \in 1..k : q[i] = p[i] /\ i \in 1..(k + 1)
      /\ q[k + 1] = n
      /\ \A i \in 1..(k + 1) : i \in 1..k \/ i = k + 1
  BY <1>1
<1>3. q \in [1..(k + 1) -> g.nodes]
  BY <1>1
<1> HIDE DEF q
<1>4. \A i \in 1..(k + 1) : q[i] \in g.nodes \cap g.handled
  BY <1>2 DEF Way
<1>5. q[1] = g.entry
  <2>1. 1 \in 1..k
    BY <1>1
  <2> QED
    BY <1>2, <2>1 DEF Way
<1>6. ASSUME NEW i \in 1..(k + 1), NEW j \in 1..(k + 1), j = i + 1 PROVE LeadsTo(g, F, q[i], q[j])
  <2>1. CASE j \in 1..k
    <3>1. i \in 1..k
      BY <1>1, <1>6, <2>1
    <3> QED
      BY <1>2, <1>6, <2>1, <3>1 DEF Way
  <2>2. CASE j = k + 1
    <3>1. i = k /\ k \in 1..k
      BY <1>1, <1>6, <2>2
    <3> QED
      BY <1>2, <2>2, <3>1
  <2> QED
    BY <1>2, <2>1, <2>2
<1>7. Way(g, F, k + 1, q)
  BY <1>4, <1>5, <1>6 DEF Way
<1> QED
  BY <1>1, <1>2, <1>3, <1>7

\* A successful way that goes through m goes on from it the way the run does.
LEMMA WayGoesOn ==
  ASSUME NEW g, NEW F, NEW k \in Lengths, NEW p \in [1..k -> g.nodes], WholeWay(g, F, k, p),
         NEW i \in 1..k
  PROVE  /\ p[i] \in g.nodes \cap g.handled
         /\ p[i] \in F \/ g.next[p[i]] # <<>> =>
              \E j \in 1..k : LeadsTo(g, F, p[i], p[j])
<1>1. p[i] \in g.nodes \cap g.handled
  BY DEF WholeWay, Way
<1>2. ASSUME p[i] \in F \/ g.next[p[i]] # <<>> PROVE \E j \in 1..k : LeadsTo(g, F, p[i], p[j])
  <2>1. i # k
    BY <1>2 DEF WholeWay
  <2>2. i + 1 \in 1..k
    BY <2>1 DEF Lengths
  <2> QED
    BY <2>2 DEF WholeWay, Way
<1> QED
  BY <1>1, <1>2

LEMMA InevitableMoves ==
  ASSUME NEW g, NEW F, NEW m, NEW n, Inevitable(g, F, "handler", m), LeadsTo(g, F, m, n)
  PROVE  Inevitable(g, F, "top", n)
<1> SUFFICES ASSUME NEW k \in Lengths, NEW p \in [1..k -> g.nodes], WholeWay(g, F, k, p)
             PROVE  \E i \in 1..k : p[i] = n
  BY DEF Inevitable
<1>1. PICK i \in 1..k : p[i] = m
  BY DEF Inevitable
<1>2. PICK j \in 1..k : LeadsTo(g, F, m, p[j])
  <2>1. p[i] \in F \/ g.next[p[i]] # <<>>
    BY <1>1 DEF LeadsTo
  <2>2. \E j \in 1..k : LeadsTo(g, F, p[i], p[j])
    BY <2>1, WayGoesOn
  <2> QED
    BY <1>1, <2>2
<1>3. p[j] = n
  BY <1>2 DEF LeadsTo
<1> QED
  BY <1>3

\* No successful way goes through a node that cannot be left.
LEMMA NoWay ==
  ASSUME NEW g \in Graphs, NEW F, NEW at1 \in {"top", "handler"}, NEW m, Inevitable(g, F, at1, m),
         \/ m \notin g.nodes \cap g.handled
         \/ m \in F /\ g.onError[m] = NoNode
  PROVE  ~ HasWay(g, F)
<1> SUFFICES ASSUME NEW k \in Lengths, NEW p \in [1..k -> g.nodes], WholeWay(g, F, k, p)
             PROVE  FALSE
  BY DEF HasWay
<1>1. PICK i \in 1..k : p[i] = m
  BY DEF Inevitable
<1>2. m \in g.nodes \cap g.handled
  BY <1>1, WayGoesOn
<1>3. m \in F /\ g.onError[m] = NoNode
  BY <1>2
<1>4. PICK j \in 1..k : LeadsTo(g, F, m, p[j])
  BY <1>1, <1>3, WayGoesOn
<1>5. p[j] = NoNode
  BY <1>3, <1>4 DEF LeadsTo
<1> QED
  BY <1>5, GraphsAssumption

LEMMA LeastNat ==
  ASSUME NEW L \in SUBSET Nat, L # {}
  PROVE  \E j \in L : \A i \in L : j <= i
<1>1. PICK j \in L : \A i \in L : ~ (<<i, j>> \in OpToRel(<, Nat))
  BY NatLessThanWellFounded, WFMin
<1>2. \A i \in L : ~ (i < j)
  BY <1>1 DEF OpToRel
<1> QED
  BY <1>2

\* A way that comes to a node twice can do without what lies between.
LEMMA WayCut ==
  ASSUME NEW g, NEW F, NEW k \in Lengths, NEW p \in [1..k -> g.nodes], WholeWay(g, F, k, p),
         NEW x \in 1..k, NEW y \in 1..k, x < y, p[x] = p[y]
  PROVE  \E m \in Lengths : m < k /\ \E q \in [1..m -> g.nodes] : WholeWay(g, F, m, q)
<1> DEFINE d == y - x
           m == k - d
           q == [i \in 1..m |-> IF i <= x THEN p[i] ELSE p[i + d]]
<1>1. /\ k \in Nat /\ x \in Nat /\ y \in Nat /\ d \in Nat /\ d >= 1 /\ m \in Nat
      /\ m >= x /\ x >= 1 /\ m < k /\ x + d = y /\ m + d = k /\ x <= k
  BY DEF Lengths
<1>2. m \in Lengths
  BY <1>1 DEF Lengths
<1> HIDE DEF m, d
<1>3. /\ \A i \in 1..m : i <= x => i \in 1..k
      /\ \A i \in 1..m : i + d \in 1..k
  BY <1>1
<1>4. q \in [1..m -> g.nodes]
  BY <1>3
<1>5. /\ \A i \in 1..m : i <= x => q[i] = p[i]
      /\ \A i \in 1..m : ~ (i <= x) => q[i] = p[i + d]
  OBVIOUS
<1> HIDE DEF q
<1>6. ASSUME NEW i \in 1..m PROVE q[i] \in g.nodes \cap g.handled
  BY <1>3, <1>5 DEF WholeWay, Way
<1>7. q[1] = g.entry
  <2>1. 1 \in 1..m /\ 1 <= x
    BY <1>1
  <2> QED
    BY <1>5, <2>1 DEF WholeWay, Way
<1>8. ASSUME NEW i \in 1..m, NEW j \in 1..m, j = i + 1 PROVE LeadsTo(g, F, q[i], q[j])
  <2>1. CASE j <= x
    <3>1. i <= x /\ i \in 1..k /\ j \in 1..k
      BY <1>1, <1>8, <2>1
    <3>2. q[i] = p[i] /\ q[j] = p[j]
      BY <1>5, <2>1, <3>1
    <3> QED
      BY <1>8, <3>1, <3>2 DEF WholeWay, Way
  <2>2. CASE ~ (j <= x) /\ ~ (i <= x)
    <3>1. i + d \in 1..k /\ j + d \in 1..k /\ j + d = (i + d) + 1
      BY <1>1, <1>3, <1>8
    <3>2. q[i] = p[i + d] /\ q[j] = p[j + d]
      BY <1>5, <2>2
    <3> QED
      BY <3>1, <3>2 DEF WholeWay, Way
  <2>3. CASE i = x
    <3>1. ~ (j <= x) /\ i <= x /\ j + d = y + 1 /\ j + d \in 1..k
      BY <1>1, <1>3, <1>8, <2>3
    <3>2. q[i] = p[x] /\ q[j] = p[j + d]
      BY <1>5, <2>3, <3>1
    <3>3. LeadsTo(g, F, p[y], p[j + d])
      BY <3>1 DEF WholeWay, Way
    <3> QED
      BY <3>2, <3>3
  <2>4. j <= x \/ (~ (j <= x) /\ ~ (i <= x)) \/ i = x
    BY <1>1, <1>8
  <2> QED
    BY <2>1, <2>2, <2>3, <2>4
<1>9. q[m] = p[k]
  <2>1. CASE m <= x
    <3>1. m = x /\ y = k /\ m \in 1..m
      BY <1>1, <2>1
    <3> QED
      BY <1>5, <2>1, <3>1
  <2>2. CASE ~ (m <= x)
    <3>1. m \in 1..m
      BY <1>1
    <3> QED
      BY <1>1, <1>5, <2>2, <3>1
  <2> QED
    BY <2>1, <2>2
<1>10. WholeWay(g, F, m, q)
  BY <1>6, <1>7, <1>8, <1>9 DEF WholeWay, Way
<1> QED
  BY <1>1, <1>2, <1>4, <1>10

\* If a way succeeds, one does that is no longer than there are nodes.
LEMMA ShortWay ==
  ASSUME NEW g \in Graphs, NEW F, HasWay(g, F)
  PROVE  \E k \in 1..Cardinality(g.nodes) : \E p \in [1..k -> g.nodes] : WholeWay(g, F, k, p)
<1> DEFINE L == {k \in Lengths : \E p \in [1..k -> g.nodes] : WholeWay(g, F, k, p)}
<1>1. L \in SUBSET Nat /\ L # {}
  BY DEF HasWay, Lengths
<1>2. PICK k \in L : \A i \in L : k <= i
  BY <1>1, LeastNat
<1>3. PICK p \in [1..k -> g.nodes] : WholeWay(g, F, k, p)
  OBVIOUS
<1>4. k \in Lengths /\ k \in Nat /\ k >= 1
  BY DEF Lengths
<1>5. ASSUME NEW x \in 1..k, NEW y \in 1..k, p[x] = p[y], x < y PROVE FALSE
  <2>1. PICK m \in Lengths : m < k /\ \E q \in [1..m -> g.nodes] : WholeWay(g, F, m, q)
    BY <1>3, <1>4, <1>5, WayCut
  <2>2. m \in L /\ m \in Nat
    BY <2>1 DEF Lengths
  <2> QED
    BY <1>2, <1>4, <2>1, <2>2
<1>6. ASSUME NEW x \in 1..k, NEW y \in 1..k, p[x] = p[y] PROVE x = y
  <2>1. x \in Nat /\ y \in Nat
    BY <1>4
  <2>2. ~ (x < y) /\ ~ (y < x)
    BY <1>5, <1>6
  <2> QED
    BY <2>1, <2>2
<1>7. p \in Injection(1..k, g.nodes)
  BY <1>6, Zenon DEF Injection, IsInjective
<1>8. IsFiniteSet(g.nodes)
  BY GraphsAssumption
<1>9. Cardinality(1..k) <= Cardinality(g.nodes) /\ Cardinality(g.nodes) \in Nat
  BY <1>7, <1>8, FS_Injection, FS_CardinalityType, Zenon
<1>10. Cardinality(1..k) = k
  BY <1>4, FS_Interval
<1>11. k \in 1..Cardinality(g.nodes)
  BY <1>4, <1>9, <1>10
<1> QED
  BY <1>3, <1>11

LEMMA HasWayCan ==
  ASSUME NEW r \in Runs, graph[r] \in Graphs
  PROVE  CanSucceed(r) <=> graph[r].entry = NoNode \/ HasWay(graph[r], fails[r])
<1> DEFINE g == graph[r]
           F == fails[r]
<1>1. ASSUME NEW k \in Lengths, NEW p \in [1..k -> g.nodes]
      PROVE  Succeeds(r, p) <=> WholeWay(g, F, k, p)
  <2>1. DOMAIN p = 1..k /\ k \in Nat /\ k >= 1 /\ k \in 1..k /\ 1 \in 1..k
    BY DEF Lengths
  <2>2. Len(p) = k
    BY <2>1
  <2>3. (\A i \in 1..k : i > 1 => Edge(r, p[i - 1], p[i])) <=>
        (\A i, j \in 1..k : j = i + 1 => LeadsTo(g, F, p[i], p[j]))
    <3>1. ASSUME \A i \in 1..k : i > 1 => Edge(r, p[i - 1], p[i]), NEW i \in 1..k, NEW j \in 1..k, j = i + 1
          PROVE  LeadsTo(g, F, p[i], p[j])
      <4>1. j > 1 /\ j - 1 = i
        BY <2>1, <3>1
      <4> QED
        BY <3>1, <4>1 DEF Edge, LeadsTo
    <3>2. ASSUME \A i, j \in 1..k : j = i + 1 => LeadsTo(g, F, p[i], p[j]), NEW j \in 1..k, j > 1
          PROVE  Edge(r, p[j - 1], p[j])
      <4>1. j - 1 \in 1..k /\ j = (j - 1) + 1
        BY <2>1, <3>2
      <4> QED
        BY <3>2, <4>1 DEF Edge, LeadsTo
    <3> QED
      BY <3>1, <3>2
  <2>4. Succeeds(r, p) <=> /\ p[1] = g.entry
                           /\ \A i \in 1..k : p[i] \in g.nodes \cap g.handled
                           /\ \A i \in 1..k : i > 1 => Edge(r, p[i - 1], p[i])
                           /\ p[k] \notin F /\ g.next[p[k]] = <<>>
    BY <2>1, <2>2 DEF Succeeds, Finishes
  <2> QED
    BY <2>3, <2>4 DEF WholeWay, Way
<1>2. \A k \in 1..Cardinality(g.nodes) : k \in Lengths
  <2>1. Cardinality(g.nodes) \in Nat
    BY GraphsAssumption, FS_CardinalityType
  <2> QED
    BY <2>1 DEF Lengths
<1>3. CanSucceed(r) => g.entry = NoNode \/ HasWay(g, F)
  BY <1>1, <1>2 DEF CanSucceed, HasWay
<1>4. ASSUME HasWay(g, F) PROVE CanSucceed(r)
  BY <1>1, <1>2, <1>4, ShortWay DEF CanSucceed
<1> QED
  BY <1>3, <1>4 DEF CanSucceed

-----------------------------------------------------------------------------
LEMMA FlowInvInit == FlowInit => FlowInv
<1> SUFFICES ASSUME FlowInit PROVE FlowInv
  OBVIOUS
<1>1. FlowTyped
  BY DEF FlowInit, FlowTyped, FlowTypeOK
<1>2. \A r \in Runs : at[r] = "none" /\ Underway(r) /\ Settled(r)
  BY DEF FlowInit, Underway, Settled
<1> QED
  BY <1>1, <1>2 DEF FlowInv

\* What is known of one run.
FlowRun(r) ==
  /\ Underway(r) /\ Settled(r)
  /\ at[r] # "none" =>
       /\ Inevitable(graph[r], fails[r], at[r], cur[r])
       /\ Reached(graph[r], fails[r], at[r], cur[r])
       /\ Empties(graph[r], at[r], cur[r])
       /\ Outcome(graph[r], fails[r], at[r], ended[r])

LEMMA FlowRunKept ==
  ASSUME NEW r \in Runs, FlowRun(r),
         graph'[r] = graph[r], fails'[r] = fails[r], at'[r] = at[r], cur'[r] = cur[r],
         ns'[r] = ns[r], ended'[r] = ended[r], status[r] = "none" <=> status'[r] = "none"
  PROVE  FlowRun(r)'
BY DEF FlowRun, Underway, Settled

\* The other runs keep what they have.
Others(r) ==
  \A o \in Runs : o # r =>
    /\ graph'[o] = graph[o] /\ fails'[o] = fails[o] /\ at'[o] = at[o] /\ cur'[o] = cur[o]
    /\ ns'[o] = ns[o] /\ ended'[o] = ended[o] /\ status'[o] = status[o]

LEMMA FlowStepOfOne ==
  ASSUME FlowInv, NEW r \in Runs, FlowTyped', Others(r), FlowRun(r)'
  PROVE  FlowInv'
<1>1. ASSUME NEW o \in Runs, o # r PROVE FlowRun(o)'
  BY <1>1, FlowRunKept DEF FlowInv, FlowRun, Others
<1> QED
  BY <1>1 DEF FlowInv, FlowRun

LEMMA ExecuteKeeps ==
  ASSUME FlowInv, NEW r \in Runs, NEW g \in Graphs, NEW F \in SUBSET Nodes, Execute(r, g, F)
  PROVE  FlowInv'
<1>0. FlowTyped /\ FlowRun(r)
  BY DEF FlowInv, FlowRun
<1>1. /\ status[r] = "none"
      /\ graph' = [graph EXCEPT ![r] = g] /\ fails' = [fails EXCEPT ![r] = F]
      /\ status' = [status EXCEPT ![r] = "running"]
      /\ cur' = [cur EXCEPT ![r] = g.entry] /\ at' = [at EXCEPT ![r] = "top"]
      /\ UNCHANGED <<ns, output, ended>>
  BY DEF Execute, Current, FlowGoto
<1>2. at[r] = "none" /\ ended[r] = "not" /\ \A n \in Nodes : ns[r][n] = "none"
  BY <1>0, <1>1 DEF FlowRun, Underway
<1>3. g.entry \in Nodes \cup {NoNode} /\ g.nodes \subseteq Nodes /\ g.handled \subseteq Nodes
  BY GraphsAssumption
<1>4. FlowTyped'
  BY <1>0, <1>1, <1>3 DEF FlowTyped, FlowTypeOK
<1>5. Others(r)
  BY <1>0, <1>1 DEF Others, FlowTyped, FlowTypeOK
<1>6. /\ graph'[r] = g /\ fails'[r] = F /\ cur'[r] = g.entry /\ at'[r] = "top" /\ status'[r] = "running"
      /\ ended'[r] = "not" /\ ns'[r] = ns[r]
  BY <1>0, <1>1, <1>2 DEF FlowTyped, FlowTypeOK
<1>7. Underway(r)' /\ Settled(r)'
  BY <1>2, <1>3, <1>6 DEF Underway, Settled
<1>8. Inevitable(g, F, "top", g.entry)
  <2> SUFFICES ASSUME NEW k \in Lengths, NEW p \in [1..k -> g.nodes], WholeWay(g, F, k, p)
               PROVE  \E i \in 1..k : p[i] = g.entry
    BY DEF Inevitable
  <2>1. 1 \in 1..k
    BY DEF Lengths
  <2> QED
    BY <2>1 DEF WholeWay, Way
<1>9. Reached(g, F, "top", g.entry) /\ Empties(g, "top", g.entry) /\ Outcome(g, F, "top", "not")
  BY DEF Reached, Empties, Outcome
<1> QED
  BY <1>4, <1>5, <1>6, <1>7, <1>8, <1>9, FlowStepOfOne DEF FlowRun

LEMMA CancelKeeps ==
  ASSUME FlowInv, NEW r \in Runs, Cancel(r)
  PROVE  FlowInv'
<1>1. FlowTyped' /\ Others(r)
  BY DEF FlowInv, FlowTyped, FlowTypeOK, Cancel, Others
<1>2. FlowRun(r)'
  <2>1. FlowRun(r) /\ status[r] # "none" /\ status'[r] = "cancelled"
    BY DEF FlowInv, FlowRun, FlowTyped, FlowTypeOK, Cancel
  <2>2. UNCHANGED <<graph, fails, at, cur, ns, output, ended>>
    BY DEF Cancel
  <2> QED
    BY <2>1, <2>2, FlowRunKept
<1> QED
  BY <1>1, <1>2, FlowStepOfOne

\* Into a handler, or out of the loop for the want of one.
LEMMA BeginKeeps ==
  ASSUME FlowInv, NEW r \in Runs, Begin(r) \/ BeginUnhandled(r) \/ BeginMissing(r)
  PROVE  FlowInv'
<1> DEFINE g == graph[r]
           F == fails[r]
           m == cur[r]
<1>0. FlowTyped /\ FlowRun(r)
  BY DEF FlowInv, FlowRun
<1>1. /\ at[r] = "top" /\ UNCHANGED <<graph, fails, status, cur, output, ended>>
      /\ at' = [at EXCEPT ![r] = IF m \in g.nodes \cap g.handled THEN "handler" ELSE "error"]
      /\ ns' = ns \/ ns' = [ns EXCEPT ![r][m] = "running"]
      /\ m \in g.handled => (m \in g.nodes \/ ns' = ns)
      /\ m # NoNode \/ m \in g.nodes
  BY DEF Begin, BeginUnhandled, BeginMissing, FlowGoto, Mark
<1>2. /\ g \in Graphs /\ ended[r] = "not" /\ status[r] # "none"
      /\ \A n \in g.handled : ns[r][n] # "running"
      /\ Inevitable(g, F, "top", m) /\ Reached(g, F, "top", m) /\ Empties(g, "top", m)
  BY <1>0, <1>1 DEF FlowRun, Underway, Settled
<1>3. g.nodes \subseteq Nodes /\ g.handled \subseteq Nodes /\ NoNode \notin Nodes
  BY <1>2, GraphsAssumption
<1>4. FlowTyped'
  <2>1. ns' \in [Runs -> [Nodes -> {"none", "running", "completed", "failed"}]]
    <3>1. ns \in [Runs -> [Nodes -> {"none", "running", "completed", "failed"}]]
      BY <1>0 DEF FlowTyped, FlowTypeOK
    <3> QED
      BY <1>1, <3>1
  <2>2. at' \in [Runs -> {"none", "top", "handler", "finish", "error", "done"}]
    BY <1>0, <1>1 DEF FlowTyped, FlowTypeOK
  <2> QED
    BY <1>0, <1>1, <2>1, <2>2 DEF FlowTyped, FlowTypeOK
<1>5. Others(r)
  BY <1>0, <1>1 DEF Others, FlowTyped, FlowTypeOK
<1>6. /\ graph'[r] = g /\ fails'[r] = F /\ cur'[r] = m /\ ended'[r] = "not" /\ status'[r] # "none"
      /\ at'[r] = IF m \in g.nodes \cap g.handled THEN "handler" ELSE "error"
  BY <1>0, <1>1, <1>2 DEF FlowTyped, FlowTypeOK
<1>7. \A n \in Nodes : n # m => ns'[r][n] = ns[r][n]
  BY <1>0, <1>1 DEF FlowTyped, FlowTypeOK
<1>8. ns'[r] = ns[r] \/ m \notin g.handled \/ m \in g.nodes \cap g.handled
  BY <1>1
<1>9. g.entry # NoNode
  BY <1>1, <1>2, <1>3 DEF Empties
<1>10. Underway(r)'
  BY <1>2, <1>6 DEF Underway
<1>11. Settled(r)'
  BY <1>2, <1>3, <1>6, <1>7, <1>8 DEF Settled
<1>12. CASE m \in g.nodes \cap g.handled
  <2>1. Inevitable(g, F, "handler", m) /\ Empties(g, "handler", m) /\ Outcome(g, F, "handler", "not")
    BY <1>2, <1>9 DEF Inevitable, Empties, Outcome
  <2>2. \E k \in Lengths : \E p \in [1..k -> g.nodes] : Way(g, F, k, p) /\ p[k] = m
    <3>1. CASE m = g.entry
      BY <1>12, <3>1, WayBegins
    <3>2. CASE m # g.entry
      BY <1>2, <1>12, <3>2, WayExtends DEF Reached
    <3> QED
      BY <3>1, <3>2
  <2>3. Reached(g, F, "handler", m)
    BY <2>2 DEF Reached
  <2>4. FlowRun(r)'
    BY <1>6, <1>10, <1>11, <1>12, <2>1, <2>3 DEF FlowRun
  <2> QED
    BY <1>4, <1>5, <2>4, FlowStepOfOne
<1>13. CASE m \notin g.nodes \cap g.handled
  <2>1. ~ HasWay(g, F)
    BY <1>2, <1>13, NoWay
  <2>2. Inevitable(g, F, "error", m) /\ Reached(g, F, "error", m) /\ Empties(g, "error", m) /\ Outcome(g, F, "error", "not")
    BY <1>9, <2>1 DEF Inevitable, Reached, Empties, Outcome
  <2>3. FlowRun(r)'
    BY <1>6, <1>10, <1>11, <1>13, <2>2 DEF FlowRun
  <2> QED
    BY <1>4, <1>5, <2>3, FlowStepOfOne
<1> QED
  BY <1>12, <1>13

\* Out of a handler.
LEMMA NodeKeeps ==
  ASSUME FlowInv, NEW r \in Runs, NodeFails(r) \/ NodeDone(r)
  PROVE  FlowInv'
<1> DEFINE g == graph[r]
           F == fails[r]
           m == cur[r]
           then == g.next[m]
           to == IF m \in F THEN IF g.onError[m] = NoNode THEN "error" ELSE "top"
                            ELSE IF then = <<>> THEN "finish" ELSE "top"
           n == IF m \in F THEN g.onError[m] ELSE Head(then)
<1>0. FlowTyped /\ FlowRun(r)
  BY DEF FlowInv, FlowRun
<1>1. /\ at[r] = "handler" /\ UNCHANGED <<graph, fails, status, output, ended>>
      /\ at' = [at EXCEPT ![r] = to]
      /\ cur' = IF to = "top" THEN [cur EXCEPT ![r] = n] ELSE cur
      /\ ns' = [ns EXCEPT ![r][m] = IF m \in F THEN "failed" ELSE "completed"]
  BY DEF NodeFails, NodeDone, FlowGoto, Mark, Current
<1>2. /\ g \in Graphs /\ ended[r] = "not" /\ status[r] # "none"
      /\ \A x \in g.handled : ns[r][x] = "running" => x = m
      /\ Inevitable(g, F, "handler", m) /\ Reached(g, F, "handler", m) /\ Empties(g, "handler", m)
  BY <1>0, <1>1 DEF FlowRun, Underway, Settled
<1>3. /\ g.nodes \subseteq Nodes /\ g.handled \subseteq Nodes /\ NoNode \notin Nodes
      /\ g.next \in [Nodes -> Seq(Nodes)] /\ g.onError \in [Nodes -> Nodes \cup {NoNode}]
  BY <1>2, GraphsAssumption
<1>4. PICK k \in Lengths : \E p \in [1..k -> g.nodes] : Way(g, F, k, p) /\ p[k] = m
  BY <1>2 DEF Reached
<1>5. PICK p \in [1..k -> g.nodes] : Way(g, F, k, p) /\ p[k] = m
  BY <1>4
<1>6. m \in Nodes /\ g.entry # NoNode
  <2>1. k \in 1..k
    BY DEF Lengths
  <2> QED
    BY <1>2, <1>3, <1>5, <2>1 DEF Empties
<1>7. to = "top" => n \in Nodes /\ LeadsTo(g, F, m, n)
  <2>1. then \in Seq(Nodes)
    BY <1>3, <1>6
  <2>2. then # <<>> => Head(then) \in Nodes
    BY <2>1
  <2> QED
    BY <1>3, <1>6, <2>2 DEF LeadsTo
<1> HIDE DEF n
<1>8. FlowTyped'
  BY <1>0, <1>1, <1>7 DEF FlowTyped, FlowTypeOK
<1>9. Others(r)
  BY <1>0, <1>1 DEF Others, FlowTyped, FlowTypeOK
<1>10. /\ graph'[r] = g /\ fails'[r] = F /\ ended'[r] = "not" /\ status'[r] # "none"
       /\ at'[r] = to /\ cur'[r] = IF to = "top" THEN n ELSE m
  BY <1>0, <1>1, <1>2 DEF FlowTyped, FlowTypeOK
<1>11. ns'[r][m] # "running" /\ \A x \in Nodes : x # m => ns'[r][x] = ns[r][x]
  BY <1>0, <1>1, <1>6 DEF FlowTyped, FlowTypeOK
<1>12. to \in {"error", "top", "finish"}
  OBVIOUS
<1>13. Underway(r)' /\ Settled(r)'
  BY <1>2, <1>3, <1>10, <1>11, <1>12 DEF Underway, Settled
<1>14. CASE to = "top"
  <2>1. Inevitable(g, F, "top", n)
    BY <1>2, <1>7, <1>14, InevitableMoves
  <2>2. n # NoNode /\ \E k1 \in Lengths : \E p1 \in [1..k1 -> g.nodes] : Way(g, F, k1, p1) /\ LeadsTo(g, F, p1[k1], n)
    BY <1>3, <1>5, <1>7, <1>14
  <2>3. Reached(g, F, "top", n) /\ Empties(g, "top", n) /\ Outcome(g, F, "top", "not")
    BY <1>6, <2>2 DEF Reached, Empties, Outcome
  <2>4. FlowRun(r)'
    BY <1>10, <1>13, <1>14, <2>1, <2>3 DEF FlowRun
  <2> QED
    BY <1>8, <1>9, <2>4, FlowStepOfOne
<1>15. CASE to = "error"
  <2>1. ~ HasWay(g, F)
    BY <1>2, <1>15, NoWay
  <2>2. Inevitable(g, F, "error", m) /\ Reached(g, F, "error", m) /\ Empties(g, "error", m) /\ Outcome(g, F, "error", "not")
    BY <1>6, <2>1 DEF Inevitable, Reached, Empties, Outcome
  <2>3. FlowRun(r)'
    BY <1>10, <1>13, <1>15, <2>2 DEF FlowRun
  <2> QED
    BY <1>8, <1>9, <2>3, FlowStepOfOne
<1>16. CASE to = "finish"
  <2>1. m \notin F /\ then = <<>>
    BY <1>16
  <2>2. HasWay(g, F)
    BY <1>5, <2>1 DEF HasWay, WholeWay
  <2>3. Inevitable(g, F, "finish", m) /\ Reached(g, F, "finish", m) /\ Empties(g, "finish", m) /\ Outcome(g, F, "finish", "not")
    BY <1>6, <2>2 DEF Inevitable, Reached, Empties, Outcome
  <2>4. FlowRun(r)'
    BY <1>10, <1>13, <1>16, <2>3 DEF FlowRun
  <2> QED
    BY <1>8, <1>9, <2>4, FlowStepOfOne
<1> QED
  BY <1>12, <1>14, <1>15, <1>16

\* The end of a run.
LEMMA EndKeeps ==
  ASSUME FlowInv, NEW r \in Runs, NoMoreNodes(r) \/ Complete(r) \/ SetOutput(r) \/ Fail(r)
  PROVE  FlowInv'
<1> DEFINE g == graph[r]
           F == fails[r]
           m == cur[r]
<1>0. FlowTyped /\ FlowRun(r)
  BY DEF FlowInv, FlowRun
<1>1. FlowTyped'
  BY <1>0 DEF FlowTyped, FlowTypeOK, NoMoreNodes, Complete, SetOutput, Fail, FlowGoto
<1>2. Others(r)
  BY <1>0 DEF FlowTyped, FlowTypeOK, NoMoreNodes, Complete, SetOutput, Fail, FlowGoto, Others
<1>3. UNCHANGED <<graph, fails, cur, ns>>
  BY DEF NoMoreNodes, Complete, SetOutput, Fail
<1>4. \/ at[r] = "top" /\ m = NoNode /\ at'[r] = "finish" /\ ended'[r] = ended[r] /\ status'[r] = status[r]
      \/ at[r] = "finish" /\ at'[r] = "finish" /\ ended'[r] = "nil" /\ status'[r] = "completed"
      \/ at[r] = "finish" /\ at'[r] = "done" /\ ended'[r] = ended[r] /\ ended[r] = "nil" /\ status'[r] = status[r]
      \/ at[r] = "error" /\ at'[r] = "done" /\ ended'[r] = "error" /\ status'[r] = "failed"
  BY <1>0 DEF FlowTyped, FlowTypeOK, NoMoreNodes, Complete, SetOutput, Fail, FlowGoto
<1>5. Underway(r) /\ Settled(r) /\ at[r] # "none" /\ Outcome(g, F, at[r], ended[r]) /\ Empties(g, at[r], m)
      /\ Reached(g, F, at[r], m)
  BY <1>0, <1>4 DEF FlowRun
<1>6. Underway(r)'
  BY <1>3, <1>4, <1>5 DEF Underway
<1>7. Settled(r)'
  BY <1>3, <1>4, <1>5 DEF Settled
<1>8. Outcome(g, F, at'[r], ended'[r])
  <2>1. at[r] = "top" /\ m = NoNode => g.entry = NoNode
    BY <1>5 DEF Reached
  <2>2. at[r] = "top" => ended[r] = "not"
    BY <1>5 DEF Underway
  <2>3. at[r] = "finish" => ended[r] # "error"
    BY <1>5 DEF Underway
  <2> QED
    BY <1>4, <1>5, <2>1, <2>2, <2>3 DEF Outcome
<1>9. at'[r] \in {"finish", "done"}
  BY <1>4
<1>10. Inevitable(g, F, at'[r], m) /\ Reached(g, F, at'[r], m)
  BY <1>9 DEF Inevitable, Reached
<1>11. Empties(g, at'[r], m)
  BY <1>4, <1>5, <1>9 DEF Empties
<1>12. FlowRun(r)'
  BY <1>3, <1>6, <1>7, <1>8, <1>10, <1>11 DEF FlowRun
<1> QED
  BY <1>1, <1>2, <1>12, FlowStepOfOne

LEMMA FlowInvStep == FlowInv /\ [FlowNext]_flowVars => FlowInv'
<1> SUFFICES ASSUME FlowInv, [FlowNext]_flowVars PROVE FlowInv'
  OBVIOUS
<1>1. ASSUME NEW r \in Runs, NEW g \in Graphs, NEW F \in SUBSET Nodes, Execute(r, g, F) PROVE FlowInv'
  BY <1>1, ExecuteKeeps
<1>2. ASSUME NEW r \in Runs, Cancel(r) PROVE FlowInv'
  BY <1>2, CancelKeeps
<1>3. ASSUME NEW r \in Runs, ExecuteDAG(r) PROVE FlowInv'
  BY <1>3, BeginKeeps, NodeKeeps, EndKeeps DEF ExecuteDAG, Begins
<1>4. CASE UNCHANGED flowVars
  BY <1>4 DEF flowVars, FlowInv, FlowTyped, FlowTypeOK, Underway, Settled
<1> QED
  BY <1>1, <1>2, <1>3, <1>4 DEF FlowNext

LEMMA FlowInvShows == FlowInv => FlowTypeOK /\ OutcomeFollowsGraph /\ NodesSettled
<1> SUFFICES ASSUME FlowInv PROVE FlowTypeOK /\ OutcomeFollowsGraph /\ NodesSettled
  OBVIOUS
<1>1. FlowTypeOK
  BY DEF FlowInv, FlowTyped
<1>2. ASSUME NEW r \in Runs, ended[r] # "not"
      PROVE  /\ ended[r] = "nil" <=> CanSucceed(r)
             /\ \A n \in graph[r].handled : ns[r][n] # "running"
  <2>1. at[r] \notin {"none", "top", "handler", "error"} /\ graph[r] \in Graphs /\ Settled(r)
        /\ Outcome(graph[r], fails[r], at[r], ended[r])
    BY <1>2 DEF FlowInv, Underway
  <2>2. ended[r] \in {"nil", "error"}
    BY <1>1, <1>2 DEF FlowTypeOK
  <2>3. CanSucceed(r) <=> graph[r].entry = NoNode \/ HasWay(graph[r], fails[r])
    BY <2>1, HasWayCan
  <2>4. ended[r] = "nil" <=> CanSucceed(r)
    BY <2>1, <2>2, <2>3 DEF Outcome
  <2> QED
    BY <2>1, <2>4 DEF Settled
<1> QED
  BY <1>1, <1>2 DEF OutcomeFollowsGraph, NodesSettled

-----------------------------------------------------------------------------
(* RagPipeline                                                             *)

RagDomains ==
  /\ DOMAIN ragAt = Calls /\ DOMAIN texts = Calls /\ DOMAIN vecs = Calls
  /\ DOMAIN doc = Ingests /\ DOMAIN written = Ingests
  /\ DOMAIN rows = Keys /\ holder \in [Keys -> Ingests \cup Deletions \cup {Nobody}]

\* A cached vector is that of its text.
CacheRight == \A t \in Texts : cache[t] \in {NoVec, t}

\* What a call embeds, and the vectors it has: all of them when it goes on.
Aligned(o) ==
  /\ texts[o] \in Seq(Texts) /\ DOMAIN vecs[o] = DOMAIN texts[o]
  /\ \A i \in DOMAIN texts[o] : vecs[o][i] \in {NoVec, texts[o][i]}
  /\ ragAt[o] \in {"store", "search"} => \A i \in DOMAIN texts[o] : vecs[o][i] = texts[o][i]

\* An ingest under way has a document and its chunks, and holds what it wrote.
Locked(o) ==
  /\ ragAt[o] \in {"lookup", "embed", "store"} => doc[o] \in Docs /\ texts[o] \in Chunked
  /\ ragAt[o] # "store" => written[o] = 0
  /\ written[o] \in Nat
  /\ \A k \in Keys : holder[k] = o <=> (ragAt[o] = "store" /\ k[1] = doc[o] /\ k[2] <= written[o])

RagInv ==
  /\ RagDomains /\ CacheRight
  /\ \A o \in Calls : Aligned(o)
  /\ \A o \in Ingests : Locked(o)

-----------------------------------------------------------------------------
LEMMA RagInvInit == RagInit => RagInv
<1> SUFFICES ASSUME RagInit PROVE RagInv
  OBVIOUS
<1> USE DEF RagInit
<1>1. RagDomains
  BY DEF RagDomains
<1>2. CacheRight
  BY DEF CacheRight
<1>3. ASSUME NEW o \in Calls PROVE Aligned(o)
  BY DEF Aligned
<1>4. ASSUME NEW o \in Ingests PROVE Locked(o)
  BY RagAssumption DEF Locked, Calls, Keys
<1> QED
  BY <1>1, <1>2, <1>3, <1>4 DEF RagInv

\* A step of another call leaves this one as it is.
LEMMA CallKept ==
  ASSUME NEW p \in Calls, Aligned(p),
         texts'[p] = texts[p], vecs'[p] = vecs[p], ragAt'[p] = ragAt[p]
  PROVE  Aligned(p)'
BY DEF Aligned

\* The end of a call.
LEMMA ReturnsKeeps ==
  ASSUME RagInv, NEW o \in Calls, NEW label \in {"done", "failed"},
         RagReturns(o, label), EndTx(o)
  PROVE  /\ \A p \in Calls : Aligned(p)'
         /\ \A p \in Ingests : Locked(p)'
         /\ /\ DOMAIN ragAt' = Calls /\ DOMAIN texts' = Calls /\ DOMAIN vecs' = Calls
            /\ DOMAIN doc' = Ingests /\ DOMAIN written' = Ingests
            /\ holder' \in [Keys -> Ingests \cup Deletions \cup {Nobody}]
<1> USE DEF RagReturns, RagGoto, EndTx
<1>1. ASSUME NEW p \in Calls PROVE Aligned(p)'
  BY DEF RagInv, RagDomains, Aligned
<1>2. ASSUME NEW p \in Ingests PROVE Locked(p)'
  <2>1. Locked(p) /\ p \in Calls /\ p # Nobody
    BY RagAssumption DEF RagInv, Calls
  <2>2. CASE p = o
    BY <2>1, <2>2 DEF RagInv, RagDomains, Locked
  <2>3. CASE p # o
    BY <2>1, <2>3 DEF RagInv, RagDomains, Locked
  <2> QED
    BY <2>2, <2>3
<1> QED
  BY <1>1, <1>2 DEF RagInv, RagDomains

\* The beginning of an Embed.
LEMMA BeginsKeeps ==
  ASSUME RagInv, NEW o \in Calls, ragAt[o] = "none", NEW s \in Seq(Texts), EmbedTexts(o, s)
  PROVE  \A p \in Calls : Aligned(p)'
BY DEF RagInv, RagDomains, Aligned, EmbedTexts, RagGoto

LEMMA LookupKeeps ==
  ASSUME RagInv, NEW o \in Calls, Lookup(o)
  PROVE  RagInv'
<1>0. RagDomains /\ CacheRight /\ Aligned(o)
  BY DEF RagInv
<1>1. PICK hits \in SUBSET {i \in DOMAIN texts[o] : cache[texts[o][i]] # NoVec} :
        /\ vecs' = [vecs EXCEPT ![o] = [i \in DOMAIN @ |->
                      IF i \in hits THEN cache[texts[o][i]] ELSE NoVec]]
        /\ RagGoto(o, IF hits = DOMAIN texts[o] THEN AfterEmbed(o) ELSE "embed")
  BY DEF Lookup
<1>2. UNCHANGED <<cache, rows, holder, doc, texts, written, found>> /\ ragAt[o] = "lookup"
  BY DEF Lookup
<1>3. RagDomains' /\ CacheRight'
  BY <1>0, <1>1, <1>2 DEF RagDomains, CacheRight, RagGoto
<1>4. Aligned(o)'
  <2>1. \A i \in DOMAIN texts[o] : texts[o][i] \in Texts
    BY <1>0 DEF Aligned
  <2>2. \A i \in DOMAIN texts[o] : vecs'[o][i] = IF i \in hits THEN cache[texts[o][i]] ELSE NoVec
    BY <1>0, <1>1 DEF RagDomains, Aligned
  <2>3. \A i \in hits : cache[texts[o][i]] = texts[o][i]
    BY <1>0, <2>1 DEF CacheRight
  <2>4. ragAt'[o] = IF hits = DOMAIN texts[o] THEN AfterEmbed(o) ELSE "embed"
    BY <1>0, <1>1 DEF RagDomains, RagGoto
  <2>5. DOMAIN vecs'[o] = DOMAIN texts[o] /\ texts'[o] = texts[o]
    BY <1>0, <1>1, <1>2 DEF RagDomains, Aligned
  <2> QED
    BY <1>0, <2>2, <2>3, <2>4, <2>5 DEF Aligned
<1>5. ASSUME NEW p \in Calls, p # o PROVE Aligned(p)'
  BY <1>0, <1>1, <1>2, <1>5 DEF RagInv, RagDomains, Aligned, RagGoto
<1>6. ASSUME NEW p \in Ingests PROVE Locked(p)'
  BY <1>0, <1>1, <1>2 DEF RagInv, RagDomains, Locked, RagGoto, AfterEmbed, Keys, Calls
<1> QED
  BY <1>3, <1>4, <1>5, <1>6 DEF RagInv

LEMMA EmbedKeeps ==
  ASSUME RagInv, NEW o \in Calls, Embed(o)
  PROVE  RagInv'
<1>0. RagDomains /\ CacheRight /\ Aligned(o)
  BY DEF RagInv
<1>1. /\ ragAt[o] = "embed" /\ RagGoto(o, AfterEmbed(o))
      /\ UNCHANGED <<rows, holder, doc, texts, written, found>>
      /\ \E S \in SUBSET {texts[o][i] : i \in Missing(o)} :
           cache' = [t \in Texts |-> IF t \in S THEN t ELSE cache[t]]
  BY DEF Embed, EmbedMissing
<1>2. /\ DOMAIN vecs' = Calls /\ DOMAIN vecs'[o] = DOMAIN vecs[o]
      /\ \A p \in Calls : p # o => vecs'[p] = vecs[p]
  BY <1>0 DEF RagDomains, Embed, EmbedMissing
<1>3. \A i \in DOMAIN vecs[o] :
        vecs'[o][i] = IF i \in Missing(o) THEN texts[o][i] ELSE vecs[o][i]
  BY <1>0 DEF RagDomains, Embed, EmbedMissing
<1>4. RagDomains' /\ CacheRight'
  BY <1>0, <1>1, <1>2 DEF RagDomains, CacheRight, RagGoto
<1>5. Aligned(o)'
  BY <1>0, <1>1, <1>2, <1>3 DEF Aligned, Missing
<1>6. ASSUME NEW p \in Calls, p # o PROVE Aligned(p)'
  BY <1>0, <1>1, <1>2, <1>6 DEF RagInv, RagDomains, Aligned, RagGoto
<1>7. ASSUME NEW p \in Ingests PROVE Locked(p)'
  BY <1>0, <1>1 DEF RagInv, RagDomains, Locked, RagGoto, AfterEmbed, Keys, Calls
<1> QED
  BY <1>4, <1>5, <1>6, <1>7 DEF RagInv

LEMMA UpsertKeeps ==
  ASSUME RagInv, NEW o \in Ingests, Upsert(o)
  PROVE  RagInv'
<1>0. RagDomains /\ Locked(o) /\ o \in Calls /\ o # Nobody
  BY RagAssumption DEF RagInv, Calls
<1> DEFINE k0 == <<doc[o], written[o] + 1>>
<1>1. /\ ragAt[o] = "store" /\ holder[k0] \in {Nobody, o}
      /\ holder' = [holder EXCEPT ![k0] = o]
      /\ written' = [written EXCEPT ![o] = @ + 1]
      /\ UNCHANGED <<cache, rows, ragAt, doc, texts, vecs, found>>
  BY DEF Upsert, Free
<1>2. RagDomains' /\ CacheRight'
  BY <1>0, <1>1 DEF RagInv, RagDomains, CacheRight
<1>3. ASSUME NEW p \in Calls PROVE Aligned(p)'
  BY <1>1, CallKept DEF RagInv
<1>4. Locked(o)'
  <2>1. written'[o] = written[o] + 1 /\ written[o] \in Nat
    BY <1>0, <1>1 DEF RagDomains, Locked
  <2>2. ASSUME NEW k \in Keys
        PROVE  holder'[k] = o <=> (k[1] = doc[o] /\ k[2] <= written[o] + 1)
    <3>1. k = <<k[1], k[2]>> /\ k[2] \in Nat
      BY RagAssumption DEF Keys
    <3>2. CASE k = k0
      BY <1>0, <1>1, <2>1, <3>2 DEF RagDomains
    <3>3. CASE k # k0
      <4>1. holder'[k] = holder[k]
        BY <1>0, <1>1, <3>3 DEF RagDomains
      <4>2. ~ (k[1] = doc[o] /\ k[2] = written[o] + 1)
        BY <3>1, <3>3
      <4> QED
        BY <1>0, <1>1, <2>1, <3>1, <4>1, <4>2 DEF Locked
    <3> QED
      BY <3>2, <3>3
  <2> QED
    BY <1>0, <1>1, <2>1, <2>2 DEF Locked
<1>5. ASSUME NEW p \in Ingests, p # o PROVE Locked(p)'
  <2>1. Locked(p) /\ p # Nobody
    BY RagAssumption DEF RagInv
  <2>2. written'[p] = written[p]
    BY <1>0, <1>1, <1>5 DEF RagDomains
  <2>3. ASSUME NEW k \in Keys PROVE holder'[k] = p <=> holder[k] = p
    BY <1>0, <1>1, <1>5, <2>1 DEF RagDomains
  <2> QED
    BY <1>1, <2>1, <2>2, <2>3 DEF Locked
<1> QED
  BY <1>2, <1>3, <1>4, <1>5 DEF RagInv

\* A deletion takes no row from an ingest.
LEMMA DeletionsKeep ==
  ASSUME RagInv, UNCHANGED <<cache, ragAt, doc, texts, vecs, written>>, DOMAIN rows' = Keys,
         holder' \in [Keys -> Ingests \cup Deletions \cup {Nobody}],
         \A o \in Ingests, k \in Keys : holder'[k] = o <=> holder[k] = o
  PROVE  RagInv'
<1>1. RagDomains' /\ CacheRight' /\ \A o \in Calls : Aligned(o)'
  BY DEF RagInv, RagDomains, CacheRight, Aligned
<1>2. ASSUME NEW o \in Ingests PROVE Locked(o)'
  BY DEF RagInv, Locked
<1> QED
  BY <1>1, <1>2 DEF RagInv

\* A row that another holds, or nobody, is not held by x after x has ended.
LEMMA EndTxHolder ==
  ASSUME holder \in [Keys -> Ingests \cup Deletions \cup {Nobody}], NEW x, EndTx(x)
  PROVE  /\ holder' \in [Keys -> Ingests \cup Deletions \cup {Nobody}]
         /\ \A k \in Keys : holder'[k] = IF holder[k] = x THEN Nobody ELSE holder[k]
BY DEF EndTx

LEMMA RagInvStep == RagInv /\ [RagNext]_ragVars => RagInv'
<1> SUFFICES ASSUME RagInv, [RagNext]_ragVars PROVE RagInv'
  OBVIOUS
<1>1. ASSUME NEW o \in Ingests, NEW d \in Docs, NEW content \in Contents, Ingest(o, d, content)
      PROVE  RagInv'
  <2> DEFINE s == SelectSeq(content, LAMBDA p : p # Blank)
  <2>1. s \in Chunked /\ s \in Seq(Texts)
    BY ChunksAssumption DEF Chunked
  <2> HIDE DEF s
  <2>2. /\ ragAt[o] = "none" /\ doc' = [doc EXCEPT ![o] = d] /\ EmbedTexts(o, s)
        /\ UNCHANGED <<cache, rows, holder, written, found>>
    BY <1>1 DEF Ingest, s
  <2>3. o \in Calls /\ RagDomains /\ CacheRight
    BY DEF RagInv, Calls
  <2>4. \A p \in Calls : Aligned(p)'
    BY <2>1, <2>2, <2>3, BeginsKeeps
  <2>5. RagDomains' /\ CacheRight'
    BY <2>2, <2>3 DEF RagDomains, CacheRight, EmbedTexts, RagGoto
  <2>6. ASSUME NEW p \in Ingests PROVE Locked(p)'
    BY <2>1, <2>2, <2>3 DEF RagInv, RagDomains, Locked, EmbedTexts, RagGoto
  <2> QED
    BY <2>4, <2>5, <2>6 DEF RagInv
<1>2. ASSUME NEW o \in Queries, NEW t \in Texts, Query(o, t)
      PROVE  RagInv'
  <2>1. o \in Calls /\ o \notin Ingests /\ RagDomains /\ CacheRight
    BY RagAssumption DEF RagInv, Calls
  <2>2. \A p \in Calls : Aligned(p)'
    <3>1. ragAt[o] = "none" /\ EmbedTexts(o, <<t>>)
      BY <1>2 DEF Query
    <3>2. <<t>> \in Seq(Texts)
      OBVIOUS
    <3> QED
      BY <2>1, <3>1, <3>2, BeginsKeeps
  <2>3. RagDomains' /\ CacheRight'
    BY <1>2, <2>1 DEF RagDomains, CacheRight, Query, EmbedTexts, RagGoto
  <2>4. ASSUME NEW p \in Ingests PROVE Locked(p)'
    BY <1>2, <2>1 DEF RagInv, RagDomains, Locked, Query, EmbedTexts, RagGoto
  <2> QED
    BY <2>2, <2>3, <2>4 DEF RagInv
<1>3. ASSUME NEW o \in Calls, RagStep(o)
      PROVE  RagInv'
  BY <1>3, LookupKeeps, EmbedKeeps DEF RagStep
<1>4. ASSUME NEW o \in Ingests, Upsert(o)
      PROVE  RagInv'
  BY <1>4, UpsertKeeps
<1>5. ASSUME NEW o \in Ingests, NEW label \in {"done", "failed"}, Commits(o), RagReturns(o, label)
      PROVE  RagInv'
  BY <1>5, ReturnsKeeps DEF Commits, RagInv, RagDomains, CacheRight, Calls
<1>6. ASSUME NEW o \in Calls, RagFails(o)
      PROVE  RagInv'
  BY <1>6, ReturnsKeeps DEF RagFails, RagInv, RagDomains, CacheRight
<1>7. ASSUME NEW o \in Queries, Search(o)
      PROVE  RagInv'
  <2>1. o \in Calls /\ o \notin Ingests
    BY RagAssumption DEF Calls
  <2>2. /\ ragAt' = [ragAt EXCEPT ![o] = "chat"]
        /\ UNCHANGED <<cache, rows, holder, doc, texts, vecs, written>>
    BY <1>7 DEF Search, RagGoto
  <2> QED
    BY <2>1, <2>2 DEF RagInv, RagDomains, CacheRight, Aligned, Locked
<1>8. ASSUME NEW o \in Queries, Chat(o)
      PROVE  RagInv'
  <2>1. RagReturns(o, "done") /\ UNCHANGED <<cache, rows, holder>>
    BY <1>8 DEF Chat
  <2>2. o \in Calls /\ o \notin Ingests
    BY RagAssumption DEF Calls
  <2>3. EndTx(o)
    BY <2>1, <2>2, RagAssumption DEF EndTx, RagInv, RagDomains, Calls
  <2> QED
    BY <2>1, <2>2, <2>3, ReturnsKeeps DEF RagInv, RagDomains, CacheRight
<1>9. ASSUME NEW t \in Texts, CacheExpires(t)
      PROVE  RagInv'
  BY <1>9 DEF CacheExpires, RagInv, RagDomains, CacheRight, Aligned, Locked
<1>10. RagDomains /\ \A x \in Deletions : x # Nobody /\ x \notin Ingests
  BY RagAssumption DEF RagInv
<1>11. ASSUME NEW k \in Keys, Delete(k)
      PROVE  RagInv'
  BY <1>10, <1>11, DeletionsKeep DEF Delete, callVars, RagDomains
<1>12. ASSUME NEW x \in Deletions, DeleteCollection(x)
      PROVE  RagInv'
  BY <1>10, <1>12, DeletionsKeep DEF DeleteCollection, callVars, RagDomains
<1>13. ASSUME NEW x \in Deletions, NEW k \in Keys, DeleteRow(x, k)
      PROVE  RagInv'
  <2>1. /\ holder[k] = Nobody /\ holder' = [holder EXCEPT ![k] = x]
        /\ UNCHANGED <<cache, rows, ragAt, doc, texts, vecs, written>>
    BY <1>13 DEF DeleteRow, callVars
  <2>2. holder' \in [Keys -> Ingests \cup Deletions \cup {Nobody}]
    BY <1>10, <2>1 DEF RagDomains
  <2>3. \A o \in Ingests, j \in Keys : holder'[j] = o <=> holder[j] = o
    BY <1>10, <2>1, RagAssumption DEF RagDomains
  <2> QED
    BY <1>10, <2>1, <2>2, <2>3, DeletionsKeep DEF RagDomains
<1>14. ASSUME NEW x \in Deletions, DeleteCommits(x) \/ DeleteFails(x)
      PROVE  RagInv'
  <2>1. EndTx(x) /\ DOMAIN rows' = Keys /\ UNCHANGED <<cache, ragAt, doc, texts, vecs, written>>
    BY <1>10, <1>14 DEF DeleteCommits, DeleteFails, callVars, RagDomains
  <2>2. /\ holder' \in [Keys -> Ingests \cup Deletions \cup {Nobody}]
        /\ \A k \in Keys : holder'[k] = IF holder[k] = x THEN Nobody ELSE holder[k]
    BY <1>10, <2>1, EndTxHolder DEF RagDomains
  <2>3. \A o \in Ingests, k \in Keys : holder'[k] = o <=> holder[k] = o
    BY <1>10, <2>2, RagAssumption
  <2> QED
    BY <2>1, <2>2, <2>3, DeletionsKeep
<1>15. CASE UNCHANGED ragVars
  BY <1>10, <1>15, DeletionsKeep DEF ragVars, callVars, RagDomains
<1> QED
  BY <1>1, <1>2, <1>3, <1>4, <1>5, <1>6, <1>7, <1>8, <1>9, <1>11, <1>12, <1>13, <1>14, <1>15
     DEF RagNext, IngestStep, QueryStep, DeleteStep, Commit, CommitUnknown, Calls

-----------------------------------------------------------------------------
(* Deletions of the collection                                             *)

\* A deletion that is not under way has and seeks no row.
Idle(x) == deleteAt[x] # "rows" => toDelete[x] = {} /\ Holds(x) = {}

DelInv ==
  /\ deleteAt \in [Deletions -> {"none", "rows", "done", "failed"}]
  /\ toDelete \in [Deletions -> SUBSET Keys]
  /\ \A x \in Deletions : Idle(x)

\* What the table owes to the deletions under way.
Doomed == [x \in Deletions |-> toDelete[x] \cup Holds(x)]

LEMMA DelInvInit == RagInit => DelInv
<1> SUFFICES ASSUME RagInit PROVE DelInv
  OBVIOUS
<1>1. \A x \in Deletions : Holds(x) = {}
  BY RagAssumption DEF RagInit, Holds
<1> QED
  BY <1>1 DEF RagInit, DelInv, Idle

\* A step that changes nothing that deletions hold or seek.
LEMMA NoDeletion ==
  ASSUME DelInv, UNCHANGED deleteVars,
         \A x \in Deletions, k \in Keys : holder'[k] = x <=> holder[k] = x
  PROVE  DelInv' /\ Doomed' = Doomed
<1>1. \A x \in Deletions : Holds(x)' = Holds(x)
  BY DEF Holds
<1> QED
  BY <1>1 DEF DelInv, Idle, Doomed, deleteVars

\* A step of an ingest, a query or the cache is one.
LEMMA CallsDeleteNothing ==
  ASSUME RagInv, NEW o \in Calls,
         \/ UNCHANGED holder
         \/ EndTx(o)
         \/ Upsert(o) /\ o \in Ingests
  PROVE  \A x \in Deletions, k \in Keys : holder'[k] = x <=> holder[k] = x
<1>1. holder \in [Keys -> Ingests \cup Deletions \cup {Nobody}]
  BY DEF RagInv, RagDomains
<1>2. \A x \in Deletions : x # Nobody /\ x # o
  BY RagAssumption DEF Calls
<1>3. CASE UNCHANGED holder
  BY <1>3
<1>4. CASE EndTx(o)
  BY <1>1, <1>2, <1>4, EndTxHolder
<1>5. CASE Upsert(o) /\ o \in Ingests
  <2> DEFINE k0 == <<doc[o], written[o] + 1>>
  <2>1. holder[k0] \in {Nobody, o} /\ holder' = [holder EXCEPT ![k0] = o]
    BY <1>5 DEF Upsert, Free
  <2> HIDE DEF k0
  <2> QED
    BY <1>1, <1>2, <2>1
<1> QED
  BY <1>3, <1>4, <1>5

LEMMA DeleteRowKeeps ==
  ASSUME RagInv, DelInv, NEW x \in Deletions, NEW k \in Keys, DeleteRow(x, k)
  PROVE  DelInv' /\ Doomed' = Doomed
<1>1. /\ deleteAt[x] = "rows" /\ k \in toDelete[x] /\ holder[k] = Nobody
      /\ holder' = [holder EXCEPT ![k] = x]
      /\ toDelete' = [toDelete EXCEPT ![x] = @ \ {k}]
      /\ deleteAt' = deleteAt
  BY DEF DeleteRow
<1>2. /\ holder \in [Keys -> Ingests \cup Deletions \cup {Nobody}]
      /\ toDelete \in [Deletions -> SUBSET Keys] /\ \A y \in Deletions : y # Nobody
  BY RagAssumption DEF RagInv, RagDomains, DelInv
<1>3. ASSUME NEW y \in Deletions, y # x PROVE Holds(y)' = Holds(y) /\ toDelete'[y] = toDelete[y]
  BY <1>1, <1>2, <1>3 DEF Holds
<1>4. Holds(x)' = Holds(x) \cup {k} /\ toDelete'[x] = toDelete[x] \ {k}
  BY <1>1, <1>2 DEF Holds
<1>5. DelInv'
  BY <1>1, <1>2, <1>3, <1>4 DEF DelInv, Idle
<1>6. \A y \in Deletions : toDelete'[y] \cup Holds(y)' = toDelete[y] \cup Holds(y)
  BY <1>1, <1>3, <1>4
<1> QED
  BY <1>5, <1>6 DEF Doomed

\* The end of a deletion: it holds and seeks nothing, and the others what they did.
LEMMA DeletionEnds ==
  ASSUME RagInv, DelInv, NEW x \in Deletions, EndTx(x), NEW label \in {"done", "failed"},
         deleteAt' = [deleteAt EXCEPT ![x] = label],
         NEW S \in SUBSET Keys,
         toDelete' \in [Deletions -> SUBSET Keys], toDelete'[x] = {},
         \A y \in Deletions \ {x} : toDelete'[y] = toDelete[y] \ S /\ S \cap Holds(y) = {}
  PROVE  DelInv' /\ Doomed' = [y \in Deletions |-> IF y = x THEN {} ELSE Doomed[y] \ S]
<1>1. /\ \A k \in Keys : holder'[k] = IF holder[k] = x THEN Nobody ELSE holder[k]
      /\ \A y \in Deletions : y # Nobody
  BY EndTxHolder, RagAssumption DEF RagInv, RagDomains
<1>2. Holds(x)' = {} /\ \A y \in Deletions \ {x} : Holds(y)' = Holds(y)
  BY <1>1 DEF Holds
<1>3. deleteAt'[x] = label /\ \A y \in Deletions \ {x} : deleteAt'[y] = deleteAt[y]
  BY DEF DelInv
<1>4. deleteAt' \in [Deletions -> {"none", "rows", "done", "failed"}]
  BY DEF DelInv
<1>5. DelInv'
  BY <1>2, <1>3, <1>4 DEF DelInv, Idle
<1>6. \A y \in Deletions \ {x} : toDelete'[y] \cup Holds(y)' = (toDelete[y] \cup Holds(y)) \ S
  BY <1>2
<1> QED
  BY <1>2, <1>5, <1>6 DEF Doomed

-----------------------------------------------------------------------------
(* The table implements DocumentRows                                       *)

\* A commit is one whole ingest.
LEMMA CommitIngests ==
  ASSUME RagInv, NEW o \in Ingests, Commits(o), Doomed' = Doomed
  PROVE  Store!Ingested(doc[o], texts[o]) /\ doc[o] \in Docs /\ texts[o] \in Chunked
<1>1. RagDomains /\ Locked(o) /\ Aligned(o)
  BY DEF RagInv, Calls
<1>2. ragAt[o] = "store" /\ written[o] = Len(texts[o])
      /\ rows' = [k \in Keys |-> IF k \in Holds(o) THEN Row(texts[o][k[2]], vecs[o][k[2]])
                                                   ELSE rows[k]]
  BY DEF Commits
<1>3. ASSUME NEW k \in Keys
      PROVE  /\ k \in Holds(o) <=> (k[1] = doc[o] /\ k[2] <= Len(texts[o]))
             /\ k \in Holds(o) => Row(texts[o][k[2]], vecs[o][k[2]]) = Store!Row(texts[o][k[2]])
  <2>1. k \in Holds(o) <=> (k[1] = doc[o] /\ k[2] <= Len(texts[o]))
    BY <1>1, <1>2 DEF Holds, Locked
  <2>2. k[2] \in Nat /\ k[2] >= 1
    BY RagAssumption DEF Keys
  <2>3. k \in Holds(o) => vecs[o][k[2]] = texts[o][k[2]]
    BY <1>1, <1>2, <2>1, <2>2 DEF Aligned
  <2> QED
    BY <2>1, <2>3 DEF Row, Store!Row
<1> QED
  BY <1>1, <1>2, <1>3 DEF Store!Ingested, Locked, Doomed

\* A step of the calls and the cache is none of a deletion.
CallStep ==
  \/ \E o \in Ingests : (\E d \in Docs, ps \in Contents : Ingest(o, d, ps)) \/ IngestStep(o)
  \/ \E o \in Queries : (\E t \in Texts : Query(o, t)) \/ QueryStep(o)
  \/ \E o \in Calls : RagFails(o)
  \/ \E t \in Texts : CacheExpires(t)
  \/ UNCHANGED ragVars

\* What such a step does to the table and its locks.
LEMMA CallStepIs ==
  ASSUME CallStep
  PROVE  /\ UNCHANGED deleteVars
         /\ \/ UNCHANGED <<rows, holder>>
            \/ \E o \in Ingests : Upsert(o) /\ UNCHANGED rows
            \/ \E o \in Ingests : Commits(o)
            \/ \E o \in Calls : EndTx(o) /\ UNCHANGED rows
<1>1. ASSUME NEW o \in Ingests, NEW d \in Docs, NEW ps \in Contents, Ingest(o, d, ps)
      PROVE  UNCHANGED <<rows, holder, deleteVars>>
  BY <1>1 DEF Ingest
<1>2. ASSUME NEW o \in Queries, NEW t \in Texts, Query(o, t)
      PROVE  UNCHANGED <<rows, holder, deleteVars>>
  BY <1>2 DEF Query
<1>3. ASSUME NEW o \in Calls, RagStep(o)
      PROVE  UNCHANGED <<rows, holder, deleteVars>>
  BY <1>3 DEF RagStep, Lookup, Embed, EmbedMissing
<1>4. ASSUME NEW o \in Ingests, Upsert(o)
      PROVE  UNCHANGED <<rows, deleteVars>>
  BY <1>4 DEF Upsert
<1>5. ASSUME NEW o \in Ingests, Commit(o) \/ CommitUnknown(o)
      PROVE  Commits(o) /\ UNCHANGED deleteVars
  BY <1>5 DEF Commit, CommitUnknown, Commits
<1>6. ASSUME NEW o \in Queries, Search(o) \/ Chat(o)
      PROVE  UNCHANGED <<rows, holder, deleteVars>>
  BY <1>6, Zenon DEF Search, Chat
<1>7. ASSUME NEW o \in Calls, RagFails(o)
      PROVE  EndTx(o) /\ UNCHANGED <<rows, deleteVars>>
  BY <1>7 DEF RagFails
<1>8. ASSUME NEW t \in Texts, CacheExpires(t)
      PROVE  UNCHANGED <<rows, holder, deleteVars>>
  BY <1>8 DEF CacheExpires
<1>9. CASE UNCHANGED ragVars
  BY <1>9 DEF ragVars
<1> QED
  BY <1>1, <1>2, <1>3, <1>4, <1>5, <1>6, <1>7, <1>8, <1>9 DEF CallStep, IngestStep, QueryStep, Calls

LEMMA CallStepKeeps ==
  ASSUME RagInv, DelInv, CallStep
  PROVE  /\ DelInv' /\ Doomed' = Doomed
         /\ rows' = rows \/ \E d \in Docs, ps \in Chunked : Store!Ingested(d, ps)
<1>1. /\ UNCHANGED deleteVars
      /\ \/ UNCHANGED <<rows, holder>>
         \/ \E o \in Ingests : Upsert(o) /\ UNCHANGED rows
         \/ \E o \in Ingests : Commits(o)
         \/ \E o \in Calls : EndTx(o) /\ UNCHANGED rows
  BY CallStepIs
<1>2. \A x \in Deletions, k \in Keys : holder'[k] = x <=> holder[k] = x
  <2>1. ASSUME NEW o \in Calls, EndTx(o) \/ (Upsert(o) /\ o \in Ingests)
        PROVE  \A x \in Deletions, k \in Keys : holder'[k] = x <=> holder[k] = x
    BY <2>1, CallsDeleteNothing
  <2>2. CASE UNCHANGED holder
    BY <2>2
  <2>3. ASSUME NEW o \in Ingests, Upsert(o) \/ Commits(o)
        PROVE  \A x \in Deletions, k \in Keys : holder'[k] = x <=> holder[k] = x
    <3>1. o \in Calls /\ (EndTx(o) \/ (Upsert(o) /\ o \in Ingests))
      BY <2>3 DEF Commits, Calls
    <3> QED
      BY <2>1, <3>1
  <2>4. ASSUME NEW o \in Calls, EndTx(o)
        PROVE  \A x \in Deletions, k \in Keys : holder'[k] = x <=> holder[k] = x
    BY <2>4, CallsDeleteNothing
  <2>5. \/ UNCHANGED holder
        \/ \E o \in Ingests : Upsert(o) \/ Commits(o)
        \/ \E o \in Calls : EndTx(o)
    BY <1>1
  <2> QED
    BY <2>2, <2>3, <2>4, <2>5
<1>3. DelInv' /\ Doomed' = Doomed
  BY <1>1, <1>2, NoDeletion
<1>4. ASSUME NEW o \in Ingests, Commits(o)
      PROVE  \E d \in Docs, ps \in Chunked : Store!Ingested(d, ps)
  BY <1>3, <1>4, CommitIngests
<1> QED
  BY <1>1, <1>3, <1>4

LEMMA StepRefines ==
  ASSUME RagInv, DelInv, [RagNext]_ragVars
  PROVE  DelInv' /\ [Store!RowsNext]_(Store!rowsVars)
<1>0. /\ holder \in [Keys -> Ingests \cup Deletions \cup {Nobody}] /\ DOMAIN rows = Keys
      /\ toDelete \in [Deletions -> SUBSET Keys]
      /\ deleteAt \in [Deletions -> {"none", "rows", "done", "failed"}]
      /\ \A x \in Deletions : x # Nobody
  BY RagAssumption DEF RagInv, RagDomains, DelInv
<1>1. CASE CallStep
  BY <1>1, CallStepKeeps DEF Doomed, Store!RowsNext, Store!rowsVars
<1>2. ASSUME NEW k \in Keys, Delete(k)
      PROVE  DelInv' /\ Store!Removed(k)
  <2>1. /\ holder[k] = Nobody /\ rows' = [rows EXCEPT ![k] = NoRow]
        /\ toDelete' = [x \in Deletions |-> toDelete[x] \ {k}]
        /\ holder' = holder /\ deleteAt' = deleteAt
    BY <1>2 DEF Delete
  <2>2. \A x \in Deletions : Holds(x)' = Holds(x) /\ k \notin Holds(x) /\ toDelete'[x] = toDelete[x] \ {k}
    BY <1>0, <2>1 DEF Holds
  <2>3. DelInv'
    BY <1>0, <2>1, <2>2 DEF DelInv, Idle
  <2>4. rows' = [j \in Keys |-> IF j \in {k} THEN NoRow ELSE rows[j]]
    BY <1>0, <2>1
  <2>5. Doomed' = [x \in Deletions |-> Doomed[x] \ {k}]
    BY <2>2 DEF Doomed
  <2> QED
    BY <2>3, <2>4, <2>5 DEF Store!Removed, Store!RemovedAll, Doomed
<1>3. ASSUME NEW x \in Deletions, DeleteCollection(x)
      PROVE  DelInv' /\ Store!EmptyingBegins(x)
  <2> DEFINE S == {k \in Keys : rows[k] # NoRow}
  <2>1. /\ deleteAt[x] = "none" /\ deleteAt' = [deleteAt EXCEPT ![x] = "rows"]
        /\ toDelete' = [toDelete EXCEPT ![x] = S] /\ rows' = rows /\ holder' = holder
    BY <1>3 DEF DeleteCollection
  <2>2. Holds(x) = {} /\ \A y \in Deletions : Holds(y)' = Holds(y)
    BY <2>1 DEF DelInv, Idle, Holds
  <2>3. S \in SUBSET Keys
    OBVIOUS
  <2> HIDE DEF S
  <2>4. DelInv'
    BY <1>0, <2>1, <2>2, <2>3 DEF DelInv, Idle
  <2>5. Doomed' = [Doomed EXCEPT ![x] = S]
    <3>1. ASSUME NEW y \in Deletions
          PROVE  toDelete'[y] \cup Holds(y)' = IF y = x THEN S ELSE toDelete[y] \cup Holds(y)
      BY <1>0, <2>1, <2>2
    <3> QED
      BY <3>1 DEF Doomed
  <2> QED
    BY <2>1, <2>4, <2>5 DEF Store!EmptyingBegins, Doomed, S
<1>4. ASSUME NEW x \in Deletions, NEW k \in Keys, DeleteRow(x, k)
      PROVE  DelInv' /\ UNCHANGED Store!rowsVars
  BY <1>4, DeleteRowKeeps DEF DeleteRow, Doomed, Store!rowsVars
<1>5. ASSUME NEW x \in Deletions, DeleteCommits(x)
      PROVE  DelInv' /\ Store!Emptied(x)
  <2>1. /\ toDelete[x] = {} /\ EndTx(x)
        /\ rows' = [k \in Keys |-> IF k \in Holds(x) THEN NoRow ELSE rows[k]]
        /\ toDelete' = [y \in Deletions |-> toDelete[y] \ Holds(x)]
    BY <1>5 DEF DeleteCommits
  <2>2. PICK label \in {"done", "failed"} : deleteAt' = [deleteAt EXCEPT ![x] = label]
    BY <1>5 DEF DeleteCommits
  <2>3. /\ Holds(x) \in SUBSET Keys /\ toDelete' \in [Deletions -> SUBSET Keys] /\ toDelete'[x] = {}
        /\ \A y \in Deletions \ {x} : toDelete'[y] = toDelete[y] \ Holds(x) /\ Holds(x) \cap Holds(y) = {}
    BY <1>0, <2>1 DEF Holds
  <2>4. DelInv' /\ Doomed' = [y \in Deletions |-> IF y = x THEN {} ELSE Doomed[y] \ Holds(x)]
    BY <2>1, <2>2, <2>3, DeletionEnds
  <2>5. Doomed[x] = Holds(x)
    BY <2>1 DEF Doomed
  <2>6. Doomed' = [y \in Deletions |-> Doomed[y] \ Doomed[x]]
    BY <2>4, <2>5
  <2>7. rows' = [k \in Keys |-> IF k \in Doomed[x] THEN NoRow ELSE rows[k]]
    BY <2>1, <2>5
  <2> QED
    BY <2>4, <2>6, <2>7 DEF Store!Emptied, Store!RemovedAll, Doomed
<1>6. ASSUME NEW x \in Deletions, DeleteFails(x)
      PROVE  DelInv' /\ Store!EmptyingFails(x)
  <2>1. /\ EndTx(x) /\ deleteAt' = [deleteAt EXCEPT ![x] = "failed"]
        /\ toDelete' = [toDelete EXCEPT ![x] = {}] /\ rows' = rows
    BY <1>6 DEF DeleteFails
  <2>2. /\ {} \in SUBSET Keys /\ toDelete' \in [Deletions -> SUBSET Keys] /\ toDelete'[x] = {}
        /\ \A y \in Deletions \ {x} : toDelete'[y] = toDelete[y] \ {} /\ {} \cap Holds(y) = {}
    BY <1>0, <2>1
  <2>3. DelInv' /\ Doomed' = [y \in Deletions |-> IF y = x THEN {} ELSE Doomed[y] \ {}]
    BY <2>1, <2>2, DeletionEnds
  <2>4. Doomed' = [Doomed EXCEPT ![x] = {}]
    BY <2>3 DEF Doomed
  <2> QED
    BY <2>1, <2>3, <2>4 DEF Store!EmptyingFails, Doomed
<1>7. \/ CallStep
      \/ \E k \in Keys : Delete(k)
      \/ \E x \in Deletions : \/ DeleteCollection(x) \/ DeleteCommits(x) \/ DeleteFails(x)
                              \/ \E k \in Keys : DeleteRow(x, k)
  BY DEF RagNext, DeleteStep, CallStep
<1> QED
  BY <1>1, <1>2, <1>3, <1>4, <1>5, <1>6, <1>7 DEF Store!RowsNext

\* What a reader of the table sees changes by whole ingests, each row with the
\* vector of its own text, whatever calls run at once, fail or meet a cached
\* vector; and a deletion of the collection removes at once the rows that were
\* there when it began, however many ingests and deletions it crosses (rag.go
\* Ingest, pgvector.go UpsertBatch and DeleteCollection, embedding.go Embed).
THEOREM IngestsWholeCorrect == RagSpec => IngestsWhole
<1>1. RagInit => Store!RowsInit
  <2> SUFFICES ASSUME RagInit PROVE Store!RowsInit
    OBVIOUS
  <2>1. \A x \in Deletions : Holds(x) = {} /\ toDelete[x] = {}
    BY RagAssumption DEF RagInit, Holds
  <2> QED
    BY <2>1 DEF RagInit, Store!RowsInit
<1>2. RagInit => RagInv /\ DelInv
  BY RagInvInit, DelInvInit
<1>3. RagInv /\ DelInv /\ [RagNext]_ragVars => RagInv' /\ DelInv'
  BY RagInvStep, StepRefines
<1>4. RagInv /\ DelInv /\ [RagNext]_ragVars => [Store!RowsNext]_(Store!rowsVars)
  BY StepRefines
<1> QED
  BY <1>1, <1>2, <1>3, <1>4, PTL DEF RagSpec, IngestsWhole, Store!RowsSpec
-----------------------------------------------------------------------------
(* The types of the retrieval pipeline                                     *)

Stored == {k \in Keys : rows[k] # NoRow}

\* The table is finite, and what an ingest writes is no more than its content.
RagTyped ==
  /\ RagTypeOK /\ texts \in [Calls -> Seq(Texts)] /\ vecs \in [Calls -> Seq(Texts \cup {NoVec})]
  /\ found \in [Queries -> Seq(AllRows)]
  /\ IsFiniteSet(Stored)
  /\ \A o \in Ingests : Len(texts[o]) <= MaxChunks /\ written[o] <= Len(texts[o])

LEMMA RagTypedInit == RagInit => RagTyped
<1> SUFFICES ASSUME RagInit PROVE RagTyped
  OBVIOUS
<1>1. Stored = {} /\ IsFiniteSet(Stored)
  BY FS_EmptySet DEF RagInit, Stored
<1>2. texts \in [Calls -> Seq(Texts)] /\ vecs \in [Calls -> Seq(Texts \cup {NoVec})] /\ found \in [Queries -> Seq(AllRows)]
  BY DEF RagInit
<1>3. \A o \in Calls : texts[o] = <<>> /\ vecs[o] = <<>>
  BY DEF RagInit
<1>4. \A o \in Ingests : Len(texts[o]) <= MaxChunks /\ written[o] <= Len(texts[o])
  BY <1>3, RagAssumption DEF RagInit, Calls
<1>5. RagTypeOK
  BY <1>2, <1>3, RagAssumption DEF RagInit, RagTypeOK
<1> QED
  BY <1>1, <1>2, <1>4, <1>5 DEF RagTyped

\* A call of Embed begins.
LEMMA EmbedTextsTyped ==
  ASSUME RagTyped, NEW o \in Calls, NEW s \in Seq(Texts), EmbedTexts(o, s)
  PROVE  /\ texts' \in [Calls -> Seq(Texts)] /\ vecs' \in [Calls -> Seq(Texts \cup {NoVec})]
         /\ \A p \in Calls : /\ texts'[p] \in Seq(Texts) /\ vecs'[p] \in Seq(Texts \cup {NoVec})
                             /\ Len(vecs'[p]) = Len(texts'[p])
         /\ texts'[o] = s /\ \A p \in Calls : p # o => texts'[p] = texts[p]
         /\ ragAt' = [ragAt EXCEPT ![o] = "lookup"]
<1> DEFINE v == [i \in DOMAIN s |-> NoVec]
<1>1. v \in Seq(Texts \cup {NoVec}) /\ Len(v) = Len(s)
  OBVIOUS
<1>2. texts' = [texts EXCEPT ![o] = s] /\ vecs' = [vecs EXCEPT ![o] = v] /\ ragAt' = [ragAt EXCEPT ![o] = "lookup"]
  BY DEF EmbedTexts, RagGoto
<1> HIDE DEF v
<1>3. texts \in [Calls -> Seq(Texts)] /\ vecs \in [Calls -> Seq(Texts \cup {NoVec})]
      /\ \A p \in Calls : Len(vecs[p]) = Len(texts[p])
  BY DEF RagTyped, RagTypeOK
<1> QED
  BY <1>1, <1>2, <1>3

\* A call ends.
LEMMA ReturnsTyped ==
  ASSUME RagTyped, NEW o \in Calls, NEW label \in {"done", "failed"}, RagReturns(o, label), EndTx(o),
         cache' = cache, rows' \in [Keys -> AllRows \cup {NoRow}], IsFiniteSet(Stored'),
         UNCHANGED deleteVars
  PROVE  RagTyped'
<1>1. /\ texts \in [Calls -> Seq(Texts)] /\ vecs \in [Calls -> Seq(Texts \cup {NoVec})]
      /\ found \in [Queries -> Seq(AllRows)] /\ RagTypeOK
      /\ \A p \in Ingests : Len(texts[p]) <= MaxChunks /\ written[p] <= Len(texts[p])
  BY DEF RagTyped
<1>2. /\ texts' = [texts EXCEPT ![o] = <<>>] /\ vecs' = [vecs EXCEPT ![o] = <<>>]
      /\ doc' = [i \in Ingests |-> IF i = o THEN Nobody ELSE doc[i]]
      /\ written' = [i \in Ingests |-> IF i = o THEN 0 ELSE written[i]]
      /\ found' = [q \in Queries |-> IF q = o THEN <<>> ELSE found[q]]
      /\ ragAt' = [ragAt EXCEPT ![o] = label]
      /\ holder' = [k \in Keys |-> IF holder[k] = o THEN Nobody ELSE holder[k]]
  BY DEF RagReturns, RagGoto, EndTx
<1>3. texts' \in [Calls -> Seq(Texts)] /\ vecs' \in [Calls -> Seq(Texts \cup {NoVec})]
  <2>1. <<>> \in Seq(Texts) /\ <<>> \in Seq(Texts \cup {NoVec})
    OBVIOUS
  <2> QED
    BY <1>1, <1>2, <2>1
<1>4. found' \in [Queries -> Seq(AllRows)]
  <2>1. <<>> \in Seq(AllRows)
    OBVIOUS
  <2> QED
    BY <1>1, <1>2, <2>1
<1>5. \A p \in Calls : Len(vecs'[p]) = Len(texts'[p])
  <2>1. \A p \in Calls : Len(vecs[p]) = Len(texts[p])
    BY <1>1 DEF RagTypeOK
  <2>2. \A p \in Calls : (p = o /\ texts'[p] = <<>> /\ vecs'[p] = <<>>) \/ (texts'[p] = texts[p] /\ vecs'[p] = vecs[p])
    BY <1>1, <1>2
  <2> QED
    BY <2>1, <2>2
<1>6. \A p \in Ingests : Len(texts'[p]) <= MaxChunks /\ written'[p] <= Len(texts'[p])
  <2>1. \A p \in Ingests : \/ p = o /\ texts'[p] = <<>> /\ written'[p] = 0
                           \/ texts'[p] = texts[p] /\ written'[p] = written[p]
    BY <1>1, <1>2 DEF Calls
  <2>2. Len(<<>>) = 0 /\ 0 <= MaxChunks /\ 0 <= 0
    BY RagAssumption
  <2> QED
    BY <1>1, <2>1, <2>2
<1>7. /\ ragAt' \in [Calls -> {"none", "lookup", "embed", "store", "search", "chat", "done", "failed"}]
      /\ doc' \in [Ingests -> Docs \cup {Nobody}] /\ holder' \in [Keys -> Ingests \cup Deletions \cup {Nobody}]
      /\ cache' \in [Texts -> Texts \cup {NoVec}]
  BY <1>1, <1>2 DEF RagTypeOK
<1>8. written' \in [Ingests -> 0..MaxChunks]
  <2>1. 0 \in 0..MaxChunks /\ written \in [Ingests -> 0..MaxChunks]
    BY <1>1, RagAssumption DEF RagTypeOK
  <2> QED
    BY <1>2, <2>1
<1> QED
  BY <1>1, <1>3, <1>4, <1>5, <1>6, <1>7, <1>8 DEF RagTyped, RagTypeOK, deleteVars

\* The table after a commit.
LEMMA CommitTyped ==
  ASSUME RagInv, RagTyped, NEW o \in Ingests, Commits(o)
  PROVE  rows' \in [Keys -> AllRows \cup {NoRow}] /\ IsFiniteSet(Stored')
<1>1. /\ ragAt[o] = "store" /\ written[o] = Len(texts[o])
      /\ rows' = [k \in Keys |-> IF k \in Holds(o) THEN Row(texts[o][k[2]], vecs[o][k[2]]) ELSE rows[k]]
  BY DEF Commits
<1>2. Locked(o) /\ Aligned(o) /\ RagTypeOK /\ IsFiniteSet(Stored) /\ Len(texts[o]) <= MaxChunks
  BY DEF RagInv, RagTyped, Calls
<1>3. ASSUME NEW k \in Holds(o)
      PROVE  k[2] \in 1..Len(texts[o]) /\ k \in {doc[o]} \X (1..MaxChunks)
  <2>1. k \in Keys /\ k[1] = doc[o] /\ k[2] <= written[o]
    BY <1>1, <1>2 DEF Holds, Locked
  <2>2. k = <<k[1], k[2]>> /\ k[2] \in 1..MaxChunks
    BY <2>1 DEF Keys
  <2>3. Len(texts[o]) \in Nat
    BY <1>2 DEF Aligned
  <2>4. k[2] \in 1..Len(texts[o])
    BY <1>1, <2>1, <2>2, <2>3, RagAssumption
  <2> QED
    BY <2>1, <2>2, <2>4
<1>4. ASSUME NEW k \in Holds(o) PROVE Row(texts[o][k[2]], vecs[o][k[2]]) \in AllRows
  <2>1. texts[o] \in Seq(Texts) /\ k[2] \in DOMAIN texts[o]
    BY <1>2, <1>3 DEF Aligned
  <2>2. texts[o][k[2]] \in Texts /\ vecs[o][k[2]] \in {NoVec, texts[o][k[2]]}
    BY <1>2, <2>1 DEF Aligned
  <2> QED
    BY <2>2 DEF Row, AllRows
<1>5. rows' \in [Keys -> AllRows \cup {NoRow}]
  BY <1>1, <1>2, <1>4 DEF RagTypeOK
<1>6. Stored' \subseteq Stored \cup ({doc[o]} \X (1..MaxChunks))
  BY <1>1, <1>3 DEF Stored
<1>7. IsFiniteSet({doc[o]} \X (1..MaxChunks))
  <2>1. 1 \in Int /\ MaxChunks \in Int
    BY RagAssumption
  <2>2. IsFiniteSet(1..MaxChunks)
    BY <2>1, FS_Interval, Zenon
  <2>3. IsFiniteSet({doc[o]})
    BY FS_Singleton, Zenon
  <2> QED
    BY <2>2, <2>3, FS_Product, Zenon
<1>8. IsFiniteSet(Stored \cup ({doc[o]} \X (1..MaxChunks)))
  BY <1>2, <1>7, FS_Union, Zenon
<1>9. IsFiniteSet(Stored')
  BY <1>6, <1>8, FS_Subset, Zenon
<1> QED
  BY <1>5, <1>9

\* Rows that are found are rows of the table.
LEMMA SearchTyped ==
  ASSUME RagTyped, NEW o \in Queries, Search(o)
  PROVE  found' \in [Queries -> Seq(AllRows)]
<1> DEFINE score(k) == Score[rows[k].embedding, vecs[o][1]]
           good == {k \in Keys : rows[k] # NoRow /\ score(k) >= MinScore}
           m == IF Cardinality(good) < TopK THEN Cardinality(good) ELSE TopK
<1>1. PICK s \in [1..m -> good] : found' = [found EXCEPT ![o] = [i \in 1..m |-> rows[s[i]]]]
  <2>1. \E n \in {m} : \E s \in [1..n -> good] :
          /\ \A i, j \in 1..n : i < j => s[i] # s[j] /\ score(s[i]) >= score(s[j])
          /\ \A k \in good, i \in 1..n : score(k) > score(s[i]) => \E j \in 1..n : s[j] = k
          /\ found' = [found EXCEPT ![o] = [i \in 1..n |-> rows[s[i]]]]
    BY Zenon DEF Search
  <2> HIDE DEF m, good
  <2> QED
    BY <2>1
<1>2. good \subseteq Stored /\ IsFiniteSet(Stored)
  BY DEF Stored, RagTyped
<1>3. IsFiniteSet(good)
  BY <1>2, FS_Subset, Zenon
<1>4. Cardinality(good) \in Nat
  BY <1>3, FS_CardinalityType, Zenon
<1>5. m \in Nat
  BY <1>4, RagAssumption
<1>6. \A k \in good : rows[k] \in AllRows
  BY DEF RagTyped, RagTypeOK
<1> HIDE DEF good, m
<1>7. [i \in 1..m |-> rows[s[i]]] \in Seq(AllRows)
  BY <1>5, <1>6
<1> QED
  BY <1>1, <1>7 DEF RagTyped

LEMMA LookupTyped ==
  ASSUME RagTyped, NEW o \in Calls, Lookup(o)
  PROVE  RagTyped'
<1>0. /\ texts \in [Calls -> Seq(Texts)] /\ vecs \in [Calls -> Seq(Texts \cup {NoVec})] /\ RagTypeOK
      /\ Len(vecs[o]) = Len(texts[o])
  BY DEF RagTyped, RagTypeOK
<1>1. PICK hits \in SUBSET {i \in DOMAIN texts[o] : cache[texts[o][i]] # NoVec} :
        /\ vecs' = [vecs EXCEPT ![o] = [i \in DOMAIN @ |->
                      IF i \in hits THEN cache[texts[o][i]] ELSE NoVec]]
        /\ RagGoto(o, IF hits = DOMAIN texts[o] THEN AfterEmbed(o) ELSE "embed")
  BY DEF Lookup
<1>2. UNCHANGED <<cache, rows, holder, doc, texts, written, found, deleteVars>>
  BY DEF Lookup
<1> DEFINE v == [i \in DOMAIN vecs[o] |-> IF i \in hits THEN cache[texts[o][i]] ELSE NoVec]
<1>3. \A i \in hits : cache[texts[o][i]] \in Texts \cup {NoVec}
  BY <1>0 DEF RagTypeOK
<1>4. v \in Seq(Texts \cup {NoVec}) /\ Len(v) = Len(vecs[o])
  <2>1. DOMAIN vecs[o] = 1..Len(vecs[o]) /\ Len(vecs[o]) \in Nat
    BY <1>0
  <2>2. v \in [1..Len(vecs[o]) -> Texts \cup {NoVec}]
    BY <1>3, <2>1
  <2> HIDE DEF v
  <2> QED
    BY <2>1, <2>2
<1>5. vecs' = [vecs EXCEPT ![o] = v]
  BY <1>0, <1>1
<1> HIDE DEF v
<1>6. vecs' \in [Calls -> Seq(Texts \cup {NoVec})] /\ \A p \in Calls : Len(vecs'[p]) = Len(texts'[p])
  BY <1>0, <1>2, <1>4, <1>5 DEF RagTypeOK
<1>7. ragAt' \in [Calls -> {"none", "lookup", "embed", "store", "search", "chat", "done", "failed"}]
  BY <1>0, <1>1 DEF RagTypeOK, RagGoto, AfterEmbed
<1>8. Stored' = Stored
  BY <1>2 DEF Stored
<1> QED
  BY <1>2, <1>6, <1>7, <1>8 DEF RagTyped, RagTypeOK, deleteVars

LEMMA EmbedTyped ==
  ASSUME RagTyped, NEW o \in Calls, Embed(o)
  PROVE  RagTyped'
<1>0. /\ texts \in [Calls -> Seq(Texts)] /\ vecs \in [Calls -> Seq(Texts \cup {NoVec})] /\ RagTypeOK
      /\ Len(vecs[o]) = Len(texts[o])
  BY DEF RagTyped, RagTypeOK
<1> DEFINE place == [m \in Missing(o) |-> m]
           filled == {place[m] : m \in Missing(o)}
           from(i) == CHOOSE m \in Missing(o) : place[m] = i
           w == [i \in DOMAIN vecs[o] |-> IF i \in filled THEN texts[o][from(i)] ELSE vecs[o][i]]
<1>1. /\ ragAt' = [ragAt EXCEPT ![o] = AfterEmbed(o)]
      /\ UNCHANGED <<rows, holder, doc, texts, written, found, deleteVars>>
      /\ \E S \in SUBSET {texts[o][i] : i \in Missing(o)} :
           cache' = [t \in Texts |-> IF t \in S THEN t ELSE cache[t]]
  BY DEF Embed, EmbedMissing, RagGoto
<1>2. \A p \in Calls : p # o => vecs'[p] = vecs[p]
  BY <1>0 DEF Embed, EmbedMissing
<1>3. DOMAIN vecs' = Calls /\ DOMAIN vecs'[o] = DOMAIN vecs[o]
      /\ \A i \in DOMAIN vecs[o] : vecs'[o][i] = IF i \in Missing(o) THEN texts[o][i] ELSE vecs[o][i]
  BY <1>0 DEF Embed, EmbedMissing
<1>3a. vecs' = [vecs EXCEPT ![o] = w]
  BY DEF Embed, EmbedMissing
<1>3b. w = [i \in DOMAIN vecs[o] |-> w[i]]
  OBVIOUS
<1> HIDE DEF w
<1>3c. vecs'[o] = w
  BY <1>0, <1>3a
<1>4. \A i \in DOMAIN vecs[o] : vecs'[o][i] \in Texts \cup {NoVec}
  <2>1. DOMAIN vecs[o] = DOMAIN texts[o]
    BY <1>0
  <2>2. \A i \in DOMAIN texts[o] : texts[o][i] \in Texts /\ vecs[o][i] \in Texts \cup {NoVec}
    BY <1>0, <2>1
  <2> QED
    BY <1>3, <2>1, <2>2
<1>5. vecs'[o] \in Seq(Texts \cup {NoVec}) /\ Len(vecs'[o]) = Len(vecs[o])
  <2>1. DOMAIN vecs[o] = 1..Len(vecs[o]) /\ Len(vecs[o]) \in Nat
    BY <1>0
  <2>2. vecs'[o] \in [1..Len(vecs[o]) -> Texts \cup {NoVec}]
    BY <1>3b, <1>3c, <1>4, <2>1
  <2> QED
    BY <2>1, <2>2
<1>6. vecs' \in [Calls -> Seq(Texts \cup {NoVec})]
  BY <1>0, <1>3a, <1>3c, <1>5
<1>7. \A p \in Calls : Len(vecs'[p]) = Len(texts'[p])
  BY <1>0, <1>1, <1>2, <1>5 DEF RagTypeOK
<1>8. ragAt' \in [Calls -> {"none", "lookup", "embed", "store", "search", "chat", "done", "failed"}]
      /\ cache' \in [Texts -> Texts \cup {NoVec}]
  BY <1>0, <1>1 DEF RagTypeOK, AfterEmbed
<1>9. Stored' = Stored
  BY <1>1 DEF Stored
<1> QED
  BY <1>1, <1>6, <1>7, <1>8, <1>9 DEF RagTyped, RagTypeOK, deleteVars

LEMMA RagTypedStep == RagInv /\ RagTyped /\ [RagNext]_ragVars => RagTyped'
<1> SUFFICES ASSUME RagInv, RagTyped, [RagNext]_ragVars PROVE RagTyped'
  OBVIOUS
<1>0. RagTypeOK /\ texts \in [Calls -> Seq(Texts)] /\ IsFiniteSet(Stored)
  BY DEF RagTyped
<1>1. ASSUME NEW o \in Ingests, NEW d \in Docs, NEW content \in Contents, Ingest(o, d, content)
      PROVE  RagTyped'
  <2> DEFINE s == SelectSeq(content, LAMBDA p : p # Blank)
  <2>1. s \in Chunked /\ s \in Seq(Texts) /\ Len(s) <= MaxChunks
    BY ChunksAssumption DEF Chunked
  <2> HIDE DEF s
  <2>2. /\ ragAt[o] = "none" /\ doc' = [doc EXCEPT ![o] = d] /\ EmbedTexts(o, s)
        /\ UNCHANGED <<cache, rows, holder, written, found, deleteVars>>
    BY <1>1 DEF Ingest, s
  <2>3. o \in Calls /\ written[o] = 0 /\ Len(s) \in Nat
    BY <2>1, <2>2 DEF Calls, RagInv, Locked
  <2>4. /\ texts' \in [Calls -> Seq(Texts)] /\ vecs' \in [Calls -> Seq(Texts \cup {NoVec})]
        /\ \A p \in Calls : /\ texts'[p] \in Seq(Texts) /\ vecs'[p] \in Seq(Texts \cup {NoVec})
                            /\ Len(vecs'[p]) = Len(texts'[p])
        /\ texts'[o] = s /\ \A p \in Calls : p # o => texts'[p] = texts[p]
        /\ ragAt' = [ragAt EXCEPT ![o] = "lookup"]
    BY <2>1, <2>2, <2>3, EmbedTextsTyped
  <2>5. \A p \in Ingests : Len(texts'[p]) <= MaxChunks /\ written'[p] <= Len(texts'[p])
    <3>1. 0 <= Len(s)
      BY <2>3
    <3>2. \A p \in Ingests : written'[p] = written[p] /\ p \in Calls
      BY <2>2 DEF Calls
    <3>3. \A p \in Ingests : Len(texts[p]) <= MaxChunks /\ written[p] <= Len(texts[p])
      BY DEF RagTyped
    <3> QED
      BY <2>1, <2>3, <2>4, <3>1, <3>2, <3>3
  <2>6. Stored' = Stored
    BY <2>2 DEF Stored
  <2> QED
    BY <1>0, <2>2, <2>4, <2>5, <2>6 DEF RagTyped, RagTypeOK, deleteVars
<1>2. ASSUME NEW o \in Queries, NEW t \in Texts, Query(o, t)
      PROVE  RagTyped'
  <2>1. o \in Calls /\ o \notin Ingests /\ <<t>> \in Seq(Texts)
    BY RagAssumption DEF Calls
  <2>2. EmbedTexts(o, <<t>>) /\ UNCHANGED <<cache, rows, holder, doc, written, found, deleteVars>>
    BY <1>2 DEF Query
  <2>4. /\ texts' \in [Calls -> Seq(Texts)] /\ vecs' \in [Calls -> Seq(Texts \cup {NoVec})]
        /\ \A p \in Calls : /\ texts'[p] \in Seq(Texts) /\ vecs'[p] \in Seq(Texts \cup {NoVec})
                            /\ Len(vecs'[p]) = Len(texts'[p])
        /\ \A p \in Calls : p # o => texts'[p] = texts[p]
        /\ ragAt' = [ragAt EXCEPT ![o] = "lookup"]
    BY <2>1, <2>2, EmbedTextsTyped
  <2>5. \A p \in Ingests : texts'[p] = texts[p] /\ written'[p] = written[p]
    BY <2>1, <2>2, <2>4 DEF Calls
  <2>6. Stored' = Stored
    BY <2>2 DEF Stored
  <2> QED
    BY <1>0, <2>2, <2>4, <2>5, <2>6 DEF RagTyped, RagTypeOK, deleteVars
<1>3. ASSUME NEW o \in Calls, RagStep(o)
      PROVE  RagTyped'
  BY <1>3, LookupTyped, EmbedTyped DEF RagStep
<1>4. ASSUME NEW o \in Ingests, Upsert(o)
      PROVE  RagTyped'
  <2>1. /\ written[o] < Len(texts[o])
        /\ holder' = [holder EXCEPT ![<<doc[o], written[o] + 1>>] = o]
        /\ written' = [written EXCEPT ![o] = @ + 1]
        /\ UNCHANGED <<cache, rows, ragAt, doc, texts, vecs, found, deleteVars>>
    BY <1>4 DEF Upsert
  <2>2. Len(texts[o]) \in Nat /\ written[o] \in Nat /\ Len(texts[o]) <= MaxChunks
    BY <1>0, RagAssumption DEF RagTyped, RagTypeOK, Calls
  <2>3. written[o] + 1 \in 0..MaxChunks /\ written[o] + 1 <= Len(texts[o])
    BY <2>1, <2>2, RagAssumption
  <2>4. written' \in [Ingests -> 0..MaxChunks] /\ written'[o] = written[o] + 1
        /\ \A p \in Ingests : p # o => written'[p] = written[p]
    BY <1>0, <2>1, <2>3 DEF RagTypeOK
  <2>5. holder' \in [Keys -> Ingests \cup Deletions \cup {Nobody}]
    BY <1>0, <2>1 DEF RagTypeOK
  <2>6. \A p \in Ingests : Len(texts'[p]) <= MaxChunks /\ written'[p] <= Len(texts'[p])
    BY <2>1, <2>3, <2>4 DEF RagTyped
  <2>7. Stored' = Stored
    BY <2>1 DEF Stored
  <2> QED
    BY <2>1, <2>4, <2>5, <2>6, <2>7 DEF RagTyped, RagTypeOK, deleteVars
<1>5. ASSUME NEW o \in Ingests, NEW label \in {"done", "failed"}, Commits(o), RagReturns(o, label)
      PROVE  RagTyped'
  BY <1>5, ReturnsTyped, CommitTyped DEF Commits, Calls
<1>6. ASSUME NEW o \in Calls, RagFails(o)
      PROVE  RagTyped'
  <2>1. EndTx(o) /\ RagReturns(o, "failed") /\ cache' = cache /\ rows' = rows /\ UNCHANGED deleteVars
    BY <1>6 DEF RagFails
  <2>2. Stored' = Stored /\ rows' \in [Keys -> AllRows \cup {NoRow}]
    BY <1>0, <2>1 DEF Stored, RagTypeOK
  <2> QED
    BY <1>0, <2>1, <2>2, ReturnsTyped
<1>7. ASSUME NEW o \in Queries, Search(o)
      PROVE  RagTyped'
  <2>1. found' \in [Queries -> Seq(AllRows)]
    BY <1>7, SearchTyped
  <2>2. /\ ragAt' = [ragAt EXCEPT ![o] = "chat"]
        /\ UNCHANGED <<cache, rows, holder, doc, texts, vecs, written, deleteVars>>
    BY <1>7 DEF Search, RagGoto
  <2>3. ragAt' \in [Calls -> {"none", "lookup", "embed", "store", "search", "chat", "done", "failed"}]
    BY <1>0, <2>2 DEF RagTypeOK
  <2>4. Stored' = Stored
    BY <2>2 DEF Stored
  <2> QED
    BY <2>1, <2>2, <2>3, <2>4 DEF RagTyped, RagTypeOK, deleteVars
<1>8. ASSUME NEW o \in Queries, Chat(o)
      PROVE  RagTyped'
  <2>1. RagReturns(o, "done") /\ UNCHANGED <<cache, rows, holder, deleteVars>>
    BY <1>8 DEF Chat
  <2>2. o \in Calls /\ o \notin Ingests
    BY <1>8, RagAssumption DEF Calls
  <2>3. EndTx(o)
    BY <2>1, <2>2, RagAssumption DEF EndTx, RagInv, RagDomains
  <2>4. Stored' = Stored /\ rows' \in [Keys -> AllRows \cup {NoRow}]
    BY <1>0, <2>1 DEF Stored, RagTypeOK
  <2> QED
    BY <1>0, <2>1, <2>2, <2>3, <2>4, ReturnsTyped
<1>9. ASSUME UNCHANGED <<ragAt, doc, texts, vecs, written, found>>,
             holder' \in [Keys -> Ingests \cup Deletions \cup {Nobody}],
             deleteAt' \in [Deletions -> {"none", "rows", "done", "failed"}],
             toDelete' \in [Deletions -> SUBSET Keys],
             cache' \in [Texts -> Texts \cup {NoVec}], rows' \in [Keys -> AllRows \cup {NoRow}],
             Stored' \subseteq Stored
      PROVE  RagTyped'
  <2>1. IsFiniteSet(Stored')
    BY <1>0, <1>9, FS_Subset, Zenon
  <2> QED
    BY <1>9, <2>1 DEF RagTyped, RagTypeOK
<1>10. ASSUME NEW t \in Texts, CacheExpires(t)
      PROVE  RagTyped'
  BY <1>0, <1>9, <1>10 DEF CacheExpires, deleteVars, RagTypeOK, Stored
<1>11. ASSUME NEW k \in Keys, Delete(k)
      PROVE  RagTyped'
  BY <1>0, <1>9, <1>11 DEF Delete, callVars, RagTypeOK, Stored
<1>12. ASSUME NEW x \in Deletions, DeleteCollection(x)
      PROVE  RagTyped'
  BY <1>0, <1>9, <1>12 DEF DeleteCollection, callVars, RagTypeOK, Stored
<1>13. ASSUME NEW x \in Deletions, NEW k \in Keys, DeleteRow(x, k)
      PROVE  RagTyped'
  BY <1>0, <1>9, <1>13 DEF DeleteRow, callVars, RagTypeOK, Stored
<1>14. ASSUME NEW x \in Deletions, DeleteCommits(x) \/ DeleteFails(x)
      PROVE  RagTyped'
  <2>1. /\ UNCHANGED <<cache, ragAt, doc, texts, vecs, written, found>> /\ EndTx(x)
        /\ rows' = rows \/ rows' = [k \in Keys |-> IF k \in Holds(x) THEN NoRow ELSE rows[k]]
        /\ \E label \in {"done", "failed"} : deleteAt' = [deleteAt EXCEPT ![x] = label]
        /\ \/ toDelete' = [toDelete EXCEPT ![x] = {}]
           \/ toDelete' = [y \in Deletions |-> toDelete[y] \ Holds(x)]
    BY <1>14 DEF DeleteCommits, DeleteFails, callVars
  <2>2. holder' \in [Keys -> Ingests \cup Deletions \cup {Nobody}]
    BY <1>0, <2>1, EndTxHolder DEF RagTypeOK
  <2>3. rows' \in [Keys -> AllRows \cup {NoRow}] /\ Stored' \subseteq Stored
    BY <1>0, <2>1 DEF RagTypeOK, Stored
  <2>4. /\ deleteAt' \in [Deletions -> {"none", "rows", "done", "failed"}]
        /\ toDelete' \in [Deletions -> SUBSET Keys]
    <3>1. /\ deleteAt \in [Deletions -> {"none", "rows", "done", "failed"}]
          /\ toDelete \in [Deletions -> SUBSET Keys] /\ {} \in SUBSET Keys
      BY <1>0 DEF RagTypeOK
    <3>2. deleteAt' \in [Deletions -> {"none", "rows", "done", "failed"}]
      <4>1. PICK label \in {"done", "failed"} : deleteAt' = [deleteAt EXCEPT ![x] = label]
        BY <2>1
      <4> QED
        BY <3>1, <4>1
    <3>3. ASSUME toDelete' = [toDelete EXCEPT ![x] = {}]
          PROVE  toDelete' \in [Deletions -> SUBSET Keys]
      BY <3>1, <3>3, Zenon
    <3>4. ASSUME toDelete' = [y \in Deletions |-> toDelete[y] \ Holds(x)]
          PROVE  toDelete' \in [Deletions -> SUBSET Keys]
      BY <3>1, <3>4
    <3> QED
      BY <2>1, <3>2, <3>3, <3>4
  <2> QED
    BY <1>0, <1>9, <2>1, <2>2, <2>3, <2>4 DEF RagTypeOK
<1>15. CASE UNCHANGED ragVars
  BY <1>0, <1>9, <1>15 DEF ragVars, callVars, deleteVars, RagTypeOK, Stored
<1> QED
  BY <1>1, <1>2, <1>3, <1>4, <1>5, <1>6, <1>7, <1>8, <1>10, <1>11, <1>12, <1>13, <1>14, <1>15
     DEF RagNext, IngestStep, QueryStep, DeleteStep, Commit, CommitUnknown, Calls

-----------------------------------------------------------------------------
(* ToolLoop                                                                *)

LoopMessages ==
  [role : {"system", "user", "assistant", "tool"}, calls : Answers,
   for : 0..MaxToolCalls, obs : {"none", "result", "error", "unknown"}]

\* The number of calls that are to be answered.
Owed(md, calls) == IF md = "agent" \/ calls = <<>> THEN Len(calls) ELSE 1

\* Message i of ms is followed by the answers to its first n calls ...
Followed(ms, i, n) ==
  /\ i + n <= Len(ms)
  /\ \A q \in DOMAIN ms : i < q /\ q <= i + n => ms[q].role = "tool" /\ ms[q].for = q - i

\* ... and by no other.
AnsweredIn(ms, i, n) ==
  /\ Followed(ms, i, n)
  /\ \A q \in DOMAIN ms : q = i + n + 1 => ms[q].role # "tool"

\* The calls of the messages before the one at top are answered.
AnsweredTo(ms, md, top) ==
  \A i \in DOMAIN ms : i < top /\ ms[i].role = "assistant" => AnsweredIn(ms, i, Owed(md, ms[i].calls))

\* The last assistant's message is at i, and the calls left are still to be answered.
Open(ms, md, left, i) ==
  /\ ms[i].role = "assistant" /\ AnsweredTo(ms, md, i)
  /\ \A q \in DOMAIN ms : i < q => ms[q].role = "tool"
  /\ Followed(ms, i, Len(ms) - i)
  /\ Len(ms) - i < Owed(md, ms[i].calls)
  /\ left = (Len(ms) - i + 1)..Owed(md, ms[i].calls)

\* What holds of one loop.
Holding(place, md, ms, left) ==
  /\ place = "none" => ms = <<>>
  /\ place = "chat" => AnsweredTo(ms, md, Len(ms) + 1)
  /\ place = "tools" => \E i \in DOMAIN ms : Open(ms, md, left, i)

LoopDomains ==
  /\ tools \in SUBSET ToolNames
  /\ loopAt \in [Loops -> {"none", "idle", "chat", "tools", "done"}]
  /\ mode \in [Loops -> {"none", "agent", "react", "cot", "tot"}]
  /\ own \in [Loops -> SUBSET ToolNames]
  /\ limit \in [Loops -> Nat] /\ step \in [Loops -> Nat] /\ counted \in [Loops -> Nat]
  /\ msgs \in [Loops -> Seq(LoopMessages)]
  /\ pending \in [Loops -> SUBSET (1..MaxToolCalls)]
  /\ result \in [Loops -> {"none", "answer", "failed", "exceeded", "unsupported"}]
  /\ agentRuns \in [Loops -> 0..MaxAgentRuns]

\* What a loop's tools can have given.
Given(l) == [t \in ToolNames |-> Observations(l, t)]

\* A tool's message in the place of the answer to a call is from that tool.
Told(ms, given) ==
  \A i \in DOMAIN ms : ms[i].role = "assistant" =>
    \A k \in DOMAIN ms[i].calls :
      i + k \in DOMAIN ms /\ (\A q \in DOMAIN ms : i < q /\ q <= i + k => ms[q].role = "tool")
        => ms[i + k].obs \in given[ms[i].calls[k]]

LoopInv ==
  /\ LoopDomains
  /\ \A l \in Loops : Told(msgs[l], Given(l))
  /\ \A l \in Loops : Holding(loopAt[l], mode[l], msgs[l], pending[l])

LEMMA AnswerHas ==
  ASSUME NEW calls \in Answers
  PROVE  /\ calls \in Seq(ToolNames) /\ Len(calls) \in 0..MaxToolCalls /\ DOMAIN calls = 1..Len(calls)
         /\ calls = <<>> <=> Len(calls) = 0
<1>1. PICK n \in 0..MaxToolCalls : calls \in [1..n -> ToolNames]
  BY ToolLoopAssumption DEF Answers, BoundedSeq, SeqOf
<1>2. n \in Nat /\ calls \in Seq(ToolNames) /\ Len(calls) = n
  BY <1>1, ToolLoopAssumption
<1> QED
  BY <1>1, <1>2

LEMMA SaysTyped ==
  /\ \A role \in {"system", "user", "assistant", "tool"} : Says(role) \in LoopMessages
  /\ \A calls \in Answers : Assistant(calls) \in LoopMessages
  /\ \A k \in 0..MaxToolCalls, obs \in {"result", "error", "unknown"} : Observed(k, obs) \in LoopMessages
<1>1. <<>> \in Answers /\ 0 \in 0..MaxToolCalls
  <2>1. <<>> \in Seq(ToolNames) /\ Len(<<>>) \in 0..MaxToolCalls
    BY ToolLoopAssumption
  <2> QED
    BY <2>1, ToolLoopAssumption, BoundedSeqHas DEF Answers
<1> QED
  BY <1>1 DEF Says, Assistant, Observed, LoopMessages

LEMMA OwedIs ==
  ASSUME NEW calls \in Answers, NEW md
  PROVE  Owed(md, calls) \in 0..MaxToolCalls
<1>1. Len(calls) \in 0..MaxToolCalls /\ (calls = <<>> <=> Len(calls) = 0)
  BY AnswerHas
<1>2. CASE md = "agent" \/ calls = <<>>
  BY <1>1, <1>2 DEF Owed
<1>3. CASE ~ (md = "agent" \/ calls = <<>>)
  <2>1. Owed(md, calls) = 1 /\ Len(calls) # 0
    BY <1>1, <1>3 DEF Owed
  <2> QED
    BY <1>1, <2>1, ToolLoopAssumption
<1> QED
  BY <1>2, <1>3

LEMMA MessageHas ==
  ASSUME NEW ms \in Seq(LoopMessages), NEW i \in DOMAIN ms
  PROVE  ms[i] \in LoopMessages /\ ms[i].calls \in Answers
<1>1. ms[i] \in LoopMessages
  OBVIOUS
<1>2. \A m \in LoopMessages : m.calls \in Answers
  BY DEF LoopMessages
<1> QED
  BY <1>1, <1>2

LEMMA AppendedIs ==
  ASSUME NEW S, NEW ms \in Seq(S), NEW x \in S
  PROVE  /\ ms \o <<x>> \in Seq(S) /\ Len(ms) \in Nat /\ Len(ms \o <<x>>) = Len(ms) + 1
         /\ DOMAIN ms = 1..Len(ms) /\ DOMAIN (ms \o <<x>>) = 1..(Len(ms) + 1)
         /\ \A q \in 1..Len(ms) : (ms \o <<x>>)[q] = ms[q]
         /\ (ms \o <<x>>)[Len(ms) + 1] = x
OBVIOUS

\* What was complete stays it under a message that is no answer.
LEMMA CompleteKept ==
  ASSUME NEW ms \in Seq(LoopMessages), NEW x \in LoopMessages, NEW i \in DOMAIN ms, NEW n \in Nat,
         AnsweredIn(ms, i, n), x.role # "tool" \/ i + n < Len(ms)
  PROVE  AnsweredIn(ms \o <<x>>, i, n)
<1> DEFINE t == ms \o <<x>>
<1>1. /\ Len(ms) \in Nat /\ Len(t) = Len(ms) + 1
      /\ DOMAIN ms = 1..Len(ms) /\ DOMAIN t = 1..(Len(ms) + 1)
      /\ \A q \in 1..Len(ms) : t[q] = ms[q]
      /\ t[Len(ms) + 1] = x
  BY AppendedIs
<1> HIDE DEF t
<1>2. i \in Nat /\ i + n <= Len(ms) /\ i + n <= Len(t)
  BY <1>1 DEF AnsweredIn, Followed
<1>3. ASSUME NEW q \in DOMAIN t, i < q, q <= i + n PROVE t[q].role = "tool" /\ t[q].for = q - i
  <2>1. q \in 1..Len(ms)
    BY <1>1, <1>2, <1>3
  <2> QED
    BY <1>1, <1>3, <2>1 DEF AnsweredIn, Followed
<1>4. ASSUME NEW q \in DOMAIN t, q = i + n + 1 PROVE t[q].role # "tool"
  <2>1. CASE q <= Len(ms)
    <3>1. q \in 1..Len(ms)
      BY <1>1, <2>1
    <3> QED
      BY <1>1, <1>4, <3>1 DEF AnsweredIn
  <2>2. CASE ~ (q <= Len(ms))
    <3>1. q = Len(ms) + 1 /\ ~ (i + n < Len(ms))
      BY <1>1, <1>2, <1>4, <2>2
    <3> QED
      BY <1>1, <3>1
  <2> QED
    BY <2>1, <2>2
<1>5. AnsweredIn(t, i, n)
  BY <1>2, <1>3, <1>4 DEF AnsweredIn, Followed
<1> QED
  BY <1>5 DEF t

LEMMA AssistantAdded ==
  ASSUME NEW ms \in Seq(LoopMessages), NEW md, AnsweredTo(ms, md, Len(ms) + 1),
         NEW calls \in Answers, Owed(md, calls) > 0
  PROVE  LET t == ms \o <<Assistant(calls)>> IN
         Len(ms) + 1 \in DOMAIN t /\ Open(t, md, 1..Owed(md, calls), Len(ms) + 1)
<1> DEFINE x == Assistant(calls)
           t == ms \o <<x>>
<1>1. x \in LoopMessages /\ x.role = "assistant" /\ x.calls = calls
  BY SaysTyped DEF Assistant, Says
<1> HIDE DEF x
<1>2. /\ Len(ms) \in Nat /\ Len(t) = Len(ms) + 1
      /\ DOMAIN ms = 1..Len(ms) /\ DOMAIN t = 1..(Len(ms) + 1)
      /\ \A q \in 1..Len(ms) : t[q] = ms[q]
      /\ t[Len(ms) + 1] = x
  BY <1>1, AppendedIs
<1>3. ASSUME NEW i \in DOMAIN ms, ms[i].role = "assistant"
      PROVE  AnsweredIn(t, i, Owed(md, ms[i].calls))
  <2>1. i < Len(ms) + 1 /\ ms[i].calls \in Answers
    BY <1>2, MessageHas
  <2>2. AnsweredIn(ms, i, Owed(md, ms[i].calls)) /\ Owed(md, ms[i].calls) \in Nat
    BY <1>3, <2>1, OwedIs DEF AnsweredTo
  <2> QED
    BY <1>1, <2>2, CompleteKept
<1> HIDE DEF t
<1>4. AnsweredTo(t, md, Len(ms) + 1)
  <2> SUFFICES ASSUME NEW i \in DOMAIN t, i < Len(ms) + 1, t[i].role = "assistant"
               PROVE  AnsweredIn(t, i, Owed(md, t[i].calls))
    BY DEF AnsweredTo
  <2>1. i \in 1..Len(ms) /\ i \in DOMAIN ms
    BY <1>2
  <2>2. t[i] = ms[i]
    BY <1>2, <2>1
  <2> QED
    BY <1>3, <2>1, <2>2
<1>5. Len(t) - (Len(ms) + 1) = 0
  BY <1>2
<1>6. Followed(t, Len(ms) + 1, 0) /\ \A q \in DOMAIN t : ~ (Len(ms) + 1 < q)
  BY <1>2 DEF Followed
<1>7. 0 + 1 = 1 /\ 0 < Owed(md, calls)
  BY OwedIs
<1>8. Open(t, md, 1..Owed(md, calls), Len(ms) + 1)
  BY <1>1, <1>2, <1>4, <1>5, <1>6, <1>7 DEF Open
<1>9. Len(ms) + 1 \in DOMAIN t
  BY <1>2
<1> QED
  BY <1>8, <1>9 DEF t, x

\* The first of the calls that are left, and the others.
LEMMA FirstLeft ==
  ASSUME NEW k \in Nat, NEW n \in Nat, k <= n
  PROVE  /\ FirstOf(k..n) = k /\ k \in k..n
         /\ (k..n) \ {k} = (k + 1)..n
         /\ (k + 1)..n = {} <=> k = n
<1>1. k \in k..n /\ \A j \in k..n : k <= j
  OBVIOUS
<1>2. \A x \in k..n : (\A j \in k..n : x <= j) => x = k
  BY <1>1
<1>3. FirstOf(k..n) = k
  BY <1>1, <1>2 DEF FirstOf
<1>4. (k..n) \ {k} = (k + 1)..n
  OBVIOUS
<1>5. (k + 1)..n = {} <=> k = n
  <2>1. CASE k = n
    BY <2>1
  <2>2. CASE k # n
    <3>1. n \in (k + 1)..n
      BY <2>2
    <3> QED
      BY <2>2, <3>1
  <2> QED
    BY <2>1, <2>2
<1> QED
  BY <1>1, <1>3, <1>4, <1>5

LEMMA ToolAdded ==
  ASSUME NEW ms \in Seq(LoopMessages), NEW md, NEW left, NEW i \in DOMAIN ms, Open(ms, md, left, i),
         NEW k, k = FirstOf(left), NEW obs \in {"result", "error", "unknown"}
  PROVE  LET t == ms \o <<Observed(k, obs)>> IN
         /\ k \in left /\ k \in 0..MaxToolCalls
         /\ left \ {k} # {} => i \in DOMAIN t /\ Open(t, md, left \ {k}, i)
         /\ left \ {k} = {} => AnsweredTo(t, md, Len(t) + 1)
<1> DEFINE x == Observed(k, obs)
           t == ms \o <<x>>
           n == Owed(md, ms[i].calls)
<1>0. ms[i].calls \in Answers /\ DOMAIN ms = 1..Len(ms) /\ Len(ms) \in Nat
  BY MessageHas
<1>1. n \in 0..MaxToolCalls /\ n \in Nat
  BY <1>0, OwedIs, ToolLoopAssumption
<1>2. /\ ms[i].role = "assistant" /\ AnsweredTo(ms, md, i)
      /\ \A q \in DOMAIN ms : i < q => ms[q].role = "tool"
      /\ Followed(ms, i, Len(ms) - i)
      /\ Len(ms) - i < n
      /\ left = (Len(ms) - i + 1)..n
  BY DEF Open
<1> HIDE DEF n
<1>3. i \in Nat /\ i <= Len(ms) /\ Len(ms) - i + 1 \in Nat /\ Len(ms) - i + 1 <= n
  BY <1>0, <1>1, <1>2
<1>4. /\ k = Len(ms) - i + 1 /\ k \in left
      /\ left \ {k} = (k + 1)..n
      /\ left \ {k} = {} <=> k = n
  BY <1>1, <1>2, <1>3, FirstLeft
<1>5. k \in 0..MaxToolCalls /\ k \in Nat
  <2>1. k \in Nat /\ k <= n
    BY <1>3, <1>4
  <2> QED
    BY <1>1, <2>1, ToolLoopAssumption
<1>6. x \in LoopMessages /\ x.role = "tool" /\ x.for = k
  BY <1>5, SaysTyped DEF Observed, Says
<1> HIDE DEF x
<1>7. /\ Len(t) = Len(ms) + 1 /\ DOMAIN t = 1..(Len(ms) + 1)
      /\ \A q \in 1..Len(ms) : t[q] = ms[q]
      /\ t[Len(ms) + 1] = x
  BY <1>6, AppendedIs
<1>8. ASSUME NEW j \in DOMAIN ms, j < i, ms[j].role = "assistant"
      PROVE  AnsweredIn(t, j, Owed(md, ms[j].calls))
  <2> DEFINE o == Owed(md, ms[j].calls)
  <2>1. ms[j].calls \in Answers
    BY MessageHas
  <2>2. AnsweredIn(ms, j, o) /\ o \in Nat
    BY <1>2, <1>8, <2>1, OwedIs DEF AnsweredTo
  <2> HIDE DEF o
  <2>3. ~ (i <= j + o)
    BY <1>2, <1>8, <2>2 DEF AnsweredIn, Followed
  <2>4. j + o < Len(ms)
    BY <1>0, <1>3, <2>2, <2>3
  <2>5. AnsweredIn(t, j, o)
    BY <1>6, <2>2, <2>4, CompleteKept
  <2> QED
    BY <2>5 DEF o
<1> HIDE DEF t
<1>9. AnsweredTo(t, md, i)
  <2> SUFFICES ASSUME NEW j \in DOMAIN t, j < i, t[j].role = "assistant"
               PROVE  AnsweredIn(t, j, Owed(md, t[j].calls))
    BY DEF AnsweredTo
  <2>1. j \in 1..Len(ms)
    BY <1>0, <1>3, <1>7
  <2> QED
    BY <1>0, <1>7, <1>8, <2>1
<1>10. t[i] = ms[i] /\ i \in DOMAIN t /\ Len(t) - i = k
  BY <1>0, <1>3, <1>4, <1>7
<1>11. ASSUME NEW q \in DOMAIN t, i < q PROVE t[q].role = "tool" /\ t[q].for = q - i
  <2>1. CASE q \in 1..Len(ms)
    <3>1. i + (Len(ms) - i) = Len(ms) /\ q <= i + (Len(ms) - i)
      BY <1>0, <1>3, <2>1
    <3> QED
      BY <1>0, <1>2, <1>7, <1>11, <2>1, <3>1 DEF Followed
  <2>2. CASE q = Len(ms) + 1
    <3>1. q - i = k
      BY <1>0, <1>3, <1>4, <2>2
    <3> QED
      BY <1>6, <1>7, <2>2, <3>1
  <2>3. q \in 1..Len(ms) \/ q = Len(ms) + 1
    BY <1>0, <1>7
  <2> QED
    BY <2>1, <2>2, <2>3
<1>12. Followed(t, i, k)
  <2>1. i + k <= Len(t)
    BY <1>0, <1>3, <1>4, <1>7
  <2> QED
    BY <1>11, <2>1 DEF Followed
<1>13. ASSUME k # n PROVE Open(t, md, left \ {k}, i)
  <2>1. k < n
    BY <1>1, <1>3, <1>4, <1>13
  <2> QED
    BY <1>2, <1>4, <1>9, <1>10, <1>11, <1>12, <2>1 DEF Open, n
<1>14. ASSUME k = n PROVE AnsweredTo(t, md, Len(t) + 1)
  <2>1. AnsweredIn(t, i, n)
    <3>1. \A q \in DOMAIN t : q # i + n + 1
      BY <1>0, <1>3, <1>4, <1>7, <1>14
    <3> QED
      BY <1>12, <1>14, <3>1 DEF AnsweredIn
  <2> SUFFICES ASSUME NEW j \in DOMAIN t, t[j].role = "assistant"
               PROVE  AnsweredIn(t, j, Owed(md, t[j].calls))
    BY DEF AnsweredTo
  <2>2. CASE j < i
    BY <1>9, <2>2 DEF AnsweredTo
  <2>3. CASE j = i
    BY <1>10, <2>1, <2>3 DEF n
  <2>4. CASE i < j
    BY <1>11, <2>4
  <2>5. j \in Nat
    BY <1>7
  <2>6. j < i \/ j = i \/ i < j
    BY <1>3, <2>5
  <2> QED
    BY <2>2, <2>3, <2>4, <2>6
<1>15. /\ k \in left /\ k \in 0..MaxToolCalls
       /\ left \ {k} # {} => i \in DOMAIN t /\ Open(t, md, left \ {k}, i)
       /\ left \ {k} = {} => AnsweredTo(t, md, Len(t) + 1)
  BY <1>4, <1>5, <1>10, <1>13, <1>14
<1> QED
  BY <1>15 DEF t, x

\* A history that only talks owes nothing.
LEMMA PlainAnswered ==
  ASSUME NEW ms \in Seq(Plain), NEW md, NEW top
  PROVE  /\ AnsweredTo(ms, md, top) /\ ms \in Seq(LoopMessages)
         /\ \A given : Told(ms, given)
<1>1. \A i \in DOMAIN ms : ms[i] \in Plain
  OBVIOUS
<1>2. \A m \in Plain : m.calls = <<>> /\ m.role # "tool" /\ m \in LoopMessages
  BY SaysTyped DEF Plain, Says
<1>3. ASSUME NEW i \in DOMAIN ms PROVE AnsweredIn(ms, i, Owed(md, ms[i].calls))
  <2>1. Owed(md, ms[i].calls) = 0
    BY <1>1, <1>2 DEF Owed
  <2>2. i + 0 <= Len(ms) /\ \A q \in DOMAIN ms : ~ (i < q /\ q <= i + 0)
    OBVIOUS
  <2>3. Followed(ms, i, 0)
    BY <2>2 DEF Followed
  <2> QED
    BY <1>1, <1>2, <2>1, <2>3 DEF AnsweredIn
<1>4. ms \in Seq(LoopMessages)
  <2>1. DOMAIN ms = 1..Len(ms) /\ Len(ms) \in Nat /\ ms \in [1..Len(ms) -> Plain]
    OBVIOUS
  <2>2. ms \in [1..Len(ms) -> LoopMessages]
    BY <1>2, <2>1
  <2> QED
    BY <2>1, <2>2
<1> QED
  BY <1>1, <1>2, <1>3, <1>4 DEF AnsweredTo, Told

-----------------------------------------------------------------------------
(* What the tools gave, and the place of it                                *)

\* A registry that has grown gives what it gave, and more.
LEMMA GivesMore ==
  ASSUME NEW ms \in Seq(LoopMessages), NEW old, NEW new, Told(ms, old),
         \A t \in ToolNames : old[t] \subseteq new[t]
  PROVE  Told(ms, new)
<1>1. ASSUME NEW i \in DOMAIN ms, ms[i].role = "assistant", NEW k \in DOMAIN ms[i].calls,
             i + k \in DOMAIN ms,
             \A q \in DOMAIN ms : i < q /\ q <= i + k => ms[q].role = "tool"
      PROVE  ms[i + k].obs \in new[ms[i].calls[k]]
  <2>1. ms[i].calls \in Seq(ToolNames)
    BY MessageHas, AnswerHas
  <2>2. ms[i].calls[k] \in ToolNames
    BY <2>1
  <2>3. ms[i + k].obs \in old[ms[i].calls[k]]
    BY <1>1 DEF Told
  <2> QED
    BY <2>2, <2>3
<1> QED
  BY <1>1 DEF Told

\* A message is added, and if it is a tool's it is in the place of a call's answer.
LEMMA ToldToo ==
  ASSUME NEW ms \in Seq(LoopMessages), NEW x \in LoopMessages, NEW given, Told(ms, given),
         \A i \in DOMAIN ms : \A k \in DOMAIN ms[i].calls :
           x.role = "tool" /\ ms[i].role = "assistant" /\ i + k = Len(ms) + 1
             /\ (\A q \in DOMAIN ms : i < q => ms[q].role = "tool")
           => x.obs \in given[ms[i].calls[k]]
  PROVE  Told(ms \o <<x>>, given)
<1> DEFINE t == ms \o <<x>>
<1>1. /\ Len(ms) \in Nat
      /\ DOMAIN ms = 1..Len(ms) /\ DOMAIN t = 1..(Len(ms) + 1)
      /\ \A q \in 1..Len(ms) : t[q] = ms[q]
      /\ t[Len(ms) + 1] = x /\ t \in Seq(LoopMessages)
  BY AppendedIs
<1> HIDE DEF t
<1>2. ASSUME NEW i \in DOMAIN t, t[i].role = "assistant", NEW k \in DOMAIN t[i].calls,
             i + k \in DOMAIN t,
             \A q \in DOMAIN t : i < q /\ q <= i + k => t[q].role = "tool"
      PROVE  t[i + k].obs \in given[t[i].calls[k]]
  <2>1. k \in Nat /\ k >= 1
    <3>1. t[i].calls \in Seq(ToolNames)
      BY <1>1, MessageHas, AnswerHas
    <3> QED
      BY <3>1
  <2>2. i \in 1..Len(ms) /\ i \in DOMAIN ms /\ t[i] = ms[i]
    BY <1>1, <1>2, <2>1
  <2>3. CASE i + k <= Len(ms)
    <3>1. i + k \in DOMAIN ms /\ t[i + k] = ms[i + k]
      BY <1>1, <2>1, <2>2, <2>3
    <3>2. \A q \in DOMAIN ms : i < q /\ q <= i + k => ms[q].role = "tool"
      BY <1>1, <1>2
    <3> QED
      BY <1>2, <2>2, <3>1, <3>2 DEF Told
  <2>4. CASE i + k = Len(ms) + 1
    <3>1. x.role = "tool"
      BY <1>1, <1>2, <2>1, <2>2, <2>4
    <3>2. \A q \in DOMAIN ms : i < q => ms[q].role = "tool"
      BY <1>1, <1>2, <2>4
    <3> QED
      BY <1>1, <1>2, <2>2, <2>4, <3>1, <3>2
  <2> QED
    BY <1>1, <1>2, <2>1, <2>2, <2>3, <2>4
<1> QED
  BY <1>2 DEF Told, t

\* The last answer of the provider is the one that is still open.
LEMMA OpenIsLast ==
  ASSUME NEW l \in Loops, msgs[l] \in Seq(LoopMessages), NEW i \in DOMAIN msgs[l],
         msgs[l][i].role = "assistant",
         \A q \in DOMAIN msgs[l] : i < q => msgs[l][q].role = "tool"
  PROVE  LastCalls(l) = i
<1> DEFINE I == {j \in 1..Len(msgs[l]) : msgs[l][j].role = "assistant"}
<1>1. LastCalls(l) = IF I # {} THEN Max(I) ELSE 0
  BY DEF LastCalls, SelectLastInSeq
<1>2. i \in I /\ I \subseteq Nat /\ \A j \in I : i >= j
  BY AppendedIs
<1> HIDE DEF I
<1>3. \A x \in I : (\A y \in I : x >= y) => x = i
  BY <1>2
<1>4. Max(I) = i
  BY <1>2, <1>3 DEF Max
<1> QED
  BY <1>1, <1>2, <1>4

\* What a tool gives to the first of the calls that are left.
LEMMA ToolTells ==
  ASSUME NEW l \in Loops, msgs[l] \in Seq(LoopMessages), NEW i \in DOMAIN msgs[l],
         Open(msgs[l], mode[l], pending[l], i), NEW k, k = FirstOf(pending[l]),
         NEW obs \in Observations(l, msgs[l][LastCalls(l)].calls[k]),
         Told(msgs[l], Given(l)), Observed(k, obs) \in LoopMessages
  PROVE  Told(msgs[l] \o <<Observed(k, obs)>>, Given(l))
<1> DEFINE ms == msgs[l]
           n == Owed(mode[l], ms[i].calls)
<1>1. /\ ms[i].role = "assistant" /\ \A q \in DOMAIN ms : i < q => ms[q].role = "tool"
      /\ Len(ms) - i < n
      /\ pending[l] = (Len(ms) - i + 1)..n
  BY DEF Open
<1>2. ms[i].calls \in Answers /\ DOMAIN ms = 1..Len(ms) /\ Len(ms) \in Nat
  BY MessageHas
<1>3. n \in Nat
  BY <1>2, OwedIs, ToolLoopAssumption
<1> HIDE DEF n
<1>4. k = Len(ms) - i + 1
  <2>1. Len(ms) - i + 1 \in Nat /\ Len(ms) - i + 1 <= n
    BY <1>1, <1>2, <1>3
  <2> QED
    BY <1>1, <1>3, <2>1, FirstLeft
<1>5. LastCalls(l) = i
  BY <1>1, OpenIsLast
<1>6. ASSUME NEW j \in DOMAIN ms, NEW p \in DOMAIN ms[j].calls,
             ms[j].role = "assistant", j + p = Len(ms) + 1,
             \A q \in DOMAIN ms : j < q => ms[q].role = "tool"
      PROVE  obs \in Given(l)[ms[j].calls[p]]
  <2>1. j = i
    <3>1. j \in Nat /\ i \in Nat
      BY <1>2
    <3>2. ~ (i < j)
      BY <1>1, <1>6
    <3>3. ~ (j < i)
      BY <1>1, <1>6
    <3> QED
      BY <3>1, <3>2, <3>3
  <2>2. ms[j].calls \in Seq(ToolNames)
    BY <1>2, <2>1, AnswerHas
  <2>3. p \in Nat /\ ms[j].calls[p] \in ToolNames
    BY <2>2
  <2>4. p = k
    BY <1>2, <1>4, <1>6, <2>1, <2>3
  <2>5. obs \in Observations(l, ms[j].calls[p])
    BY <1>5, <2>1, <2>4
  <2> QED
    BY <2>3, <2>5 DEF Given
<1>7. Observed(k, obs).obs = obs
  BY DEF Observed, Says
<1>8. \A j \in DOMAIN ms : \A p \in DOMAIN ms[j].calls :
        Observed(k, obs).role = "tool" /\ ms[j].role = "assistant" /\ j + p = Len(ms) + 1
          /\ (\A q \in DOMAIN ms : j < q => ms[q].role = "tool")
        => Observed(k, obs).obs \in Given(l)[ms[j].calls[p]]
  BY <1>6, <1>7
<1> QED
  BY <1>8, ToldToo

LEMMA LoopInvInit == LoopInit => LoopInv
<1> SUFFICES ASSUME LoopInit PROVE LoopInv
  OBVIOUS
<1>1. LoopDomains
  BY ToolLoopAssumption DEF LoopInit, LoopDomains
<1>2. ASSUME NEW l \in Loops
      PROVE  Holding(loopAt[l], mode[l], msgs[l], pending[l]) /\ Told(msgs[l], Given(l))
  <2>1. loopAt[l] = "none" /\ msgs[l] = <<>>
    BY DEF LoopInit
  <2> QED
    BY <2>1 DEF Holding, Told
<1> QED
  BY <1>1, <1>2 DEF LoopInv

\* A step of one loop leaves the others what they were.
LEMMA LoopOfOne ==
  ASSUME LoopInv, NEW l \in Loops, LoopDomains',
         \A o \in Loops \ {l} : /\ loopAt'[o] = loopAt[o] /\ mode'[o] = mode[o]
                                /\ msgs'[o] = msgs[o] /\ pending'[o] = pending[o],
         tools' = tools, \A o \in Loops \ {l} : own'[o] = own[o],
         Holding(loopAt'[l], mode'[l], msgs'[l], pending'[l]),
         Told(msgs'[l], Given(l)')
  PROVE  LoopInv'
<1>1. ASSUME NEW o \in Loops
      PROVE  Holding(loopAt'[o], mode'[o], msgs'[o], pending'[o]) /\ Told(msgs'[o], Given(o)')
  <2>1. CASE o = l
    BY <2>1
  <2>2. CASE o # l
    <3>1. /\ loopAt'[o] = loopAt[o] /\ mode'[o] = mode[o]
          /\ msgs'[o] = msgs[o] /\ pending'[o] = pending[o]
          /\ own'[o] = own[o]
      BY <2>2
    <3>2. Holding(loopAt[o], mode[o], msgs[o], pending[o]) /\ Told(msgs[o], Given(o))
      BY DEF LoopInv
    <3>3. Given(o)' = Given(o)
      BY <3>1 DEF Given, Observations
    <3> QED
      BY <3>1, <3>2, <3>3
  <2> QED
    BY <2>1, <2>2
<1> QED
  BY <1>1 DEF LoopInv

LEMMA RegisterToolKeeps ==
  ASSUME LoopInv, NEW t \in ToolNames, RegisterTool(t)
  PROVE  LoopInv'
<1>1. LoopDomains'
  BY DEF LoopInv, LoopDomains, RegisterTool
<1>2. /\ loopAt' = loopAt /\ mode' = mode /\ msgs' = msgs /\ pending' = pending
      /\ own' = own /\ tools' = tools \cup {t}
  BY DEF RegisterTool
<1>3. ASSUME NEW l \in Loops PROVE Told(msgs'[l], Given(l)')
  <2>1. \A s \in ToolNames : Given(l)[s] \subseteq Given(l)'[s]
    BY <1>2 DEF Given, Observations
  <2>2. msgs[l] \in Seq(LoopMessages) /\ Told(msgs[l], Given(l))
    BY DEF LoopInv, LoopDomains
  <2> HIDE DEF Given
  <2> QED
    BY <1>2, <2>1, <2>2, GivesMore
<1> QED
  BY <1>1, <1>2, <1>3 DEF LoopInv

LEMMA SpawnKeeps ==
  ASSUME LoopInv, NEW l \in Loops, NEW ids \in SUBSET ToolNames, NEW n \in StepLimits, Spawn(l, ids, n)
  PROVE  LoopInv'
<1>1. Limit(n) \in Nat
  BY ToolLoopAssumption DEF Limit
<1>2. LoopDomains'
  BY <1>1 DEF LoopInv, LoopDomains, Spawn, LoopGoto
<1>3. loopAt'[l] = "idle"
  BY DEF LoopInv, LoopDomains, Spawn, LoopGoto
<1>4. \A o \in Loops \ {l} : /\ loopAt'[o] = loopAt[o] /\ mode'[o] = mode[o]
                             /\ msgs'[o] = msgs[o] /\ pending'[o] = pending[o]
  BY DEF LoopInv, LoopDomains, Spawn, LoopGoto
<1>5. Holding(loopAt'[l], mode'[l], msgs'[l], pending'[l])
  BY <1>3 DEF Holding
<1>6. tools' = tools /\ \A o \in Loops \ {l} : own'[o] = own[o]
  BY DEF LoopInv, LoopDomains, Spawn
<1>7. Told(msgs'[l], Given(l)')
  <2>1. msgs'[l] = <<>>
    BY DEF LoopInv, Holding, Spawn
  <2> QED
    BY <2>1 DEF Told
<1> QED
  BY <1>2, <1>4, <1>5, <1>6, <1>7, LoopOfOne

LEMMA RunKeeps ==
  ASSUME LoopInv, NEW l \in Loops, Run(l)
  PROVE  LoopInv'
<1> DEFINE s == <<Says("system"), Says("user")>>
<1>1. s \in Seq(Plain)
  BY DEF Plain
<1>2. /\ s \in Seq(LoopMessages) /\ AnsweredTo(s, mode[l], Len(s) + 1)
      /\ \A given : Told(s, given)
  BY <1>1, PlainAnswered
<1>3. msgs' = [msgs EXCEPT ![l] = s]
  BY DEF Run
<1> HIDE DEF s
<1>4. agentRuns[l] + 1 \in 0..MaxAgentRuns
  BY ToolLoopAssumption DEF LoopInv, LoopDomains, Run
<1>5. LoopDomains'
  BY <1>2, <1>3, <1>4 DEF LoopInv, LoopDomains, Run, LoopGoto
<1>6. loopAt'[l] = "chat" /\ mode'[l] = mode[l] /\ msgs'[l] = s
  BY <1>3 DEF LoopInv, LoopDomains, Run, LoopGoto
<1>7. \A o \in Loops \ {l} : /\ loopAt'[o] = loopAt[o] /\ mode'[o] = mode[o]
                             /\ msgs'[o] = msgs[o] /\ pending'[o] = pending[o]
  BY <1>3 DEF LoopInv, LoopDomains, Run, LoopGoto
<1>8. Holding(loopAt'[l], mode'[l], msgs'[l], pending'[l])
  BY <1>2, <1>6 DEF Holding
<1>9. tools' = tools /\ own' = own
  BY DEF Run
<1>10. Told(msgs'[l], Given(l)')
  BY <1>2, <1>6
<1> QED
  BY <1>5, <1>7, <1>8, <1>9, <1>10, LoopOfOne

LEMMA ReasonKeeps ==
  ASSUME LoopInv, NEW l \in Loops, NEW m \in {"react", "cot", "tot"}, NEW h \in Histories,
         NEW n \in StepLimits, Reason(l, m, h, n)
  PROVE  LoopInv'
<1>1. Limit(n) \in Nat
  BY ToolLoopAssumption DEF Limit
<1>2. /\ loopAt[l] = "none" /\ msgs[l] = <<>>
      /\ tools' = tools /\ own' = own
  BY DEF LoopInv, Holding, Reason
<1>3. CASE m = "tot"
  <2>1. LoopDomains'
    BY <1>1, <1>3 DEF LoopInv, LoopDomains, Reason, LoopGoto, ReturnsWith
  <2>2. loopAt'[l] = "done"
    BY <1>3 DEF LoopInv, LoopDomains, Reason, LoopGoto, ReturnsWith
  <2>3. \A o \in Loops \ {l} : /\ loopAt'[o] = loopAt[o] /\ mode'[o] = mode[o]
                               /\ msgs'[o] = msgs[o] /\ pending'[o] = pending[o]
    BY <1>3 DEF LoopInv, LoopDomains, Reason, LoopGoto, ReturnsWith
  <2>4. Holding(loopAt'[l], mode'[l], msgs'[l], pending'[l])
    BY <2>2 DEF Holding
  <2>5. Told(msgs'[l], Given(l)')
    <3>1. msgs'[l] = <<>>
      BY <1>2, <1>3 DEF Reason
    <3> QED
      BY <3>1 DEF Told
  <2> QED
    BY <1>2, <2>1, <2>3, <2>4, <2>5, LoopOfOne
<1>4. CASE m # "tot"
  <2> DEFINE s == <<Says("system")>> \o h \o <<Says("user")>>
             t == <<>> \o s
  <2>1. s \in Seq(Plain)
    <3>1. h \in Seq(Plain) /\ <<Says("system")>> \in Seq(Plain) /\ <<Says("user")>> \in Seq(Plain)
      BY ToolLoopAssumption DEF Plain
    <3>2. <<Says("system")>> \o h \in Seq(Plain)
      BY <3>1
    <3> QED
      BY <3>1, <3>2
  <2>2. msgs' = [msgs EXCEPT ![l] = msgs[l] \o s]
    BY <1>4 DEF Reason, Adds
  <2> HIDE DEF s
  <2>3. t \in Seq(Plain)
    BY <2>1
  <2>4. /\ t \in Seq(LoopMessages) /\ \A md : AnsweredTo(t, md, Len(t) + 1)
        /\ \A given : Told(t, given)
    BY <2>3, PlainAnswered
  <2>5. msgs' = [msgs EXCEPT ![l] = t]
    BY <1>2, <2>2
  <2> HIDE DEF t
  <2>6. LoopDomains'
    BY <1>1, <1>4, <2>4, <2>5 DEF LoopInv, LoopDomains, Reason, LoopGoto
  <2>7. loopAt'[l] = "chat" /\ msgs'[l] = t
    BY <1>4, <2>5 DEF LoopInv, LoopDomains, Reason, LoopGoto
  <2>8. \A o \in Loops \ {l} : /\ loopAt'[o] = loopAt[o] /\ mode'[o] = mode[o]
                               /\ msgs'[o] = msgs[o] /\ pending'[o] = pending[o]
    BY <1>4, <2>5 DEF LoopInv, LoopDomains, Reason, LoopGoto
  <2>9. Holding(loopAt'[l], mode'[l], msgs'[l], pending'[l])
    BY <2>4, <2>7 DEF Holding
  <2>10. Told(msgs'[l], Given(l)')
    BY <2>4, <2>7
  <2> QED
    BY <1>2, <2>6, <2>8, <2>9, <2>10, LoopOfOne
<1> QED
  BY <1>3, <1>4

LEMMA ChatFailsKeeps ==
  ASSUME LoopInv, NEW l \in Loops, ChatFails(l)
  PROVE  LoopInv'
<1>1. LoopDomains'
  BY DEF LoopInv, LoopDomains, ChatFails, LoopGoto, ReturnsWith
<1>2. loopAt'[l] = "done"
  BY DEF LoopInv, LoopDomains, ChatFails, LoopGoto, ReturnsWith
<1>3. \A o \in Loops \ {l} : /\ loopAt'[o] = loopAt[o] /\ mode'[o] = mode[o]
                             /\ msgs'[o] = msgs[o] /\ pending'[o] = pending[o]
  BY DEF LoopInv, LoopDomains, ChatFails, LoopGoto, ReturnsWith
<1>4. Holding(loopAt'[l], mode'[l], msgs'[l], pending'[l])
  BY <1>2 DEF Holding
<1>5. UNCHANGED <<tools, own, msgs, mode>>
  BY DEF ChatFails
<1>6. Told(msgs'[l], Given(l)')
  <2>1. Given(l)' = Given(l)
    BY <1>5 DEF Given, Observations
  <2> QED
    BY <1>5, <2>1 DEF LoopInv
<1> QED
  BY <1>1, <1>3, <1>4, <1>5, <1>6, LoopOfOne

\* The calls that are run are those that are owed an answer.
LEMMA ObeyedAreOwed ==
  ASSUME NEW l \in Loops, NEW finish, NEW calls \in Answers
  PROVE  /\ Obeyed(l, finish, calls) \in SUBSET (1..MaxToolCalls)
         /\ Obeyed(l, finish, calls) # {} =>
              /\ Obeyed(l, finish, calls) = 1..Owed(mode[l], calls)
              /\ Owed(mode[l], calls) > 0
<1> DEFINE o == Obeyed(l, finish, calls)
<1>1. /\ calls \in Seq(ToolNames) /\ Len(calls) \in 0..MaxToolCalls /\ DOMAIN calls = 1..Len(calls)
      /\ calls = <<>> <=> Len(calls) = 0
  BY AnswerHas
<1>2. 1..Len(calls) \subseteq 1..MaxToolCalls
  BY <1>1, ToolLoopAssumption
<1>3. CASE mode[l] = "agent"
  <2>1. o = {} \/ o = DOMAIN calls
    BY <1>3 DEF Obeyed
  <2>2. Owed(mode[l], calls) = Len(calls)
    BY <1>3 DEF Owed
  <2>3. 1..Len(calls) # {} => Len(calls) > 0
    BY <1>1
  <2> QED
    BY <1>1, <1>2, <2>1, <2>2, <2>3
<1>4. CASE mode[l] = "react"
  <2>1. o = {} \/ o = DOMAIN calls \cap {1}
    BY <1>4 DEF Obeyed
  <2>2. CASE o = {}
    BY <2>2
  <2>3. CASE o # {}
    <3>1. 1 \in DOMAIN calls /\ o = {1}
      BY <2>1, <2>3
    <3>2. calls # <<>>
      BY <1>1, <3>1
    <3>3. Owed(mode[l], calls) = 1
      BY <1>4, <3>2 DEF Owed
    <3>4. 1..1 = {1} /\ 1 > 0
      OBVIOUS
    <3> QED
      BY <1>1, <1>2, <3>1, <3>3, <3>4
  <2> QED
    BY <2>2, <2>3
<1>5. CASE mode[l] \notin {"agent", "react"}
  <2>1. o = {}
    BY <1>5 DEF Obeyed
  <2> QED
    BY <2>1
<1> QED
  BY <1>3, <1>4, <1>5

LEMMA AnswerKeeps ==
  ASSUME LoopInv, NEW l \in Loops, NEW finish \in {"stop", "tool_calls", "length"},
         NEW calls \in Answers, Answer(l, finish, calls)
  PROVE  LoopInv'
<1> DEFINE o == Obeyed(l, finish, calls)
           x == Assistant(calls)
           t == msgs[l] \o <<x>>
<1>1. /\ o \in SUBSET (1..MaxToolCalls)
      /\ o # {} => o = 1..Owed(mode[l], calls) /\ Owed(mode[l], calls) > 0
  BY ObeyedAreOwed
<1>2. /\ loopAt[l] = "chat" /\ msgs' = [msgs EXCEPT ![l] = t]
      /\ counted' = [counted EXCEPT ![l] = IF mode[l] = "agent" THEN @ + 1 ELSE @]
      /\ pending' = [pending EXCEPT ![l] = o]
      /\ IF o = {} THEN ReturnsWith(l, "answer") ELSE LoopGoto(l, "tools") /\ UNCHANGED result
      /\ UNCHANGED <<tools, mode, own, limit, step, agentRuns>>
  BY DEF Answer, Adds
<1>3. msgs[l] \in Seq(LoopMessages) /\ x \in LoopMessages
  BY SaysTyped DEF LoopInv, LoopDomains
<1>4. AnsweredTo(msgs[l], mode[l], Len(msgs[l]) + 1)
  BY <1>2 DEF LoopInv, Holding
<1>5. o # {} => \E i \in DOMAIN t : Open(t, mode[l], o, i)
  BY <1>1, <1>3, <1>4, AssistantAdded
<1>6. t \in Seq(LoopMessages)
  <2> HIDE DEF x
  <2> QED
    BY <1>3
<1> HIDE DEF o, t
<1>7. (IF mode[l] = "agent" THEN counted[l] + 1 ELSE counted[l]) \in Nat
  BY DEF LoopInv, LoopDomains
<1>8. LoopDomains'
  BY <1>1, <1>2, <1>6, <1>7 DEF LoopInv, LoopDomains, LoopGoto, ReturnsWith
<1>9. /\ loopAt'[l] = IF o = {} THEN "done" ELSE "tools"
      /\ mode'[l] = mode[l] /\ msgs'[l] = t /\ pending'[l] = o
  BY <1>2 DEF LoopInv, LoopDomains, LoopGoto, ReturnsWith
<1>10. \A p \in Loops \ {l} : /\ loopAt'[p] = loopAt[p] /\ mode'[p] = mode[p]
                              /\ msgs'[p] = msgs[p] /\ pending'[p] = pending[p]
  BY <1>2 DEF LoopInv, LoopDomains, LoopGoto, ReturnsWith
<1>11. Holding(loopAt'[l], mode'[l], msgs'[l], pending'[l])
  BY <1>5, <1>9 DEF Holding
<1>12. UNCHANGED <<tools, own, mode>>
  BY DEF Answer
<1>13. Told(msgs'[l], Given(l)')
  <2>1. Given(l)' = Given(l)
    BY <1>12 DEF Given, Observations
  <2>2. Told(msgs[l], Given(l)) /\ msgs[l] \in Seq(LoopMessages)
    BY DEF LoopInv, LoopDomains
  <2>3. Assistant(calls) \in LoopMessages /\ Assistant(calls).role # "tool"
    BY SaysTyped DEF Assistant, Says
  <2>4. Told(msgs[l] \o <<Assistant(calls)>>, Given(l))
    BY <2>2, <2>3, ToldToo
  <2> QED
    BY <1>9, <2>1, <2>4 DEF t
<1> QED
  BY <1>8, <1>10, <1>11, <1>12, <1>13, LoopOfOne

LEMMA UseToolKeeps ==
  ASSUME LoopInv, NEW l \in Loops, UseTool(l)
  PROVE  LoopInv'
<1> DEFINE k == FirstOf(pending[l])
           left == pending[l] \ {k}
<1>1. loopAt[l] = "tools" /\ AfterTool(l, left) /\ UNCHANGED <<tools, mode, own, limit, agentRuns, counted>>
  BY DEF UseTool
<1>2. PICK obs \in Observations(l, msgs[l][LastCalls(l)].calls[k]) : Adds(l, <<Observed(k, obs)>>)
  BY Zenon DEF UseTool
<1>3. obs \in {"result", "error", "unknown"}
  BY DEF Observations
<1> DEFINE t == msgs[l] \o <<Observed(k, obs)>>
<1>4. msgs' = [msgs EXCEPT ![l] = t] /\ msgs[l] \in Seq(LoopMessages)
  BY <1>2 DEF Adds, LoopInv, LoopDomains
<1>5. PICK i \in DOMAIN msgs[l] : Open(msgs[l], mode[l], pending[l], i)
  BY <1>1 DEF LoopInv, Holding
<1>6. /\ k \in pending[l] /\ k \in 0..MaxToolCalls
      /\ left # {} => i \in DOMAIN t /\ Open(t, mode[l], left, i)
      /\ left = {} => AnsweredTo(t, mode[l], Len(t) + 1)
  BY <1>3, <1>4, <1>5, ToolAdded
<1>7. t \in Seq(LoopMessages)
  <2>1. Observed(k, obs) \in LoopMessages
    BY <1>3, <1>6, SaysTyped
  <2> HIDE DEF k
  <2> QED
    BY <1>4, <2>1
<1>8. left \in SUBSET (1..MaxToolCalls)
  BY DEF LoopInv, LoopDomains
<1> HIDE DEF k, t, left
<1>9. /\ pending' = [pending EXCEPT ![l] = left]
      /\ left # {} => UNCHANGED <<loopAt, result, step>>
      /\ left = {} => /\ step' = [step EXCEPT ![l] = @ + 1]
                      /\ \/ LoopGoto(l, "chat") /\ UNCHANGED result
                         \/ ReturnsWith(l, "exceeded")
  BY <1>1 DEF AfterTool
<1>10. step[l] + 1 \in Nat
  BY DEF LoopInv, LoopDomains
<1>11. LoopDomains'
  <2>1. /\ loopAt' \in [Loops -> {"none", "idle", "chat", "tools", "done"}]
        /\ result' \in [Loops -> {"none", "answer", "failed", "exceeded", "unsupported"}]
    BY <1>9 DEF LoopInv, LoopDomains, LoopGoto, ReturnsWith
  <2>2. step' \in [Loops -> Nat]
    BY <1>9, <1>10 DEF LoopInv, LoopDomains
  <2>3. msgs' \in [Loops -> Seq(LoopMessages)] /\ pending' \in [Loops -> SUBSET (1..MaxToolCalls)]
    BY <1>4, <1>7, <1>8, <1>9 DEF LoopInv, LoopDomains
  <2> QED
    BY <1>1, <2>1, <2>2, <2>3 DEF LoopInv, LoopDomains
<1>12. /\ left # {} => loopAt'[l] = "tools"
       /\ left = {} => loopAt'[l] \in {"chat", "done"}
       /\ mode'[l] = mode[l] /\ msgs'[l] = t /\ pending'[l] = left
  BY <1>1, <1>4, <1>9 DEF LoopInv, LoopDomains, LoopGoto, ReturnsWith
<1>13. \A o \in Loops \ {l} : /\ loopAt'[o] = loopAt[o] /\ mode'[o] = mode[o]
                              /\ msgs'[o] = msgs[o] /\ pending'[o] = pending[o]
  BY <1>1, <1>4, <1>9 DEF LoopInv, LoopDomains, LoopGoto, ReturnsWith
<1>14. Holding(loopAt'[l], mode'[l], msgs'[l], pending'[l])
  BY <1>6, <1>12 DEF Holding
<1>15. Told(msgs'[l], Given(l)')
  <2>1. Given(l)' = Given(l)
    BY <1>1 DEF Given, Observations
  <2>2. Told(msgs[l], Given(l)) /\ msgs[l] \in Seq(LoopMessages)
    BY DEF LoopInv, LoopDomains
  <2>3. Observed(k, obs) \in LoopMessages
    BY <1>3, <1>6, SaysTyped
  <2>4. Told(t, Given(l))
    BY <1>2, <1>5, <2>2, <2>3, ToolTells DEF k, t
  <2> QED
    BY <1>12, <2>1, <2>4
<1> QED
  BY <1>1, <1>11, <1>13, <1>14, <1>15, LoopOfOne

LEMMA LoopInvStep == LoopInv /\ [LoopNext]_loopVars => LoopInv'
<1> SUFFICES ASSUME LoopInv, [LoopNext]_loopVars PROVE LoopInv'
  OBVIOUS
<1>1. CASE UNCHANGED loopVars
  BY <1>1 DEF loopVars, LoopInv, LoopDomains, Given, Observations
<1>2. ASSUME NEW t \in ToolNames, RegisterTool(t) PROVE LoopInv'
  BY <1>2, RegisterToolKeeps
<1>3. ASSUME NEW l \in Loops, NEW ids \in SUBSET ToolNames, NEW n \in StepLimits, Spawn(l, ids, n)
      PROVE  LoopInv'
  BY <1>3, SpawnKeeps
<1>4. ASSUME NEW l \in Loops, NEW m \in {"react", "cot", "tot"}, NEW h \in Histories,
             NEW n \in StepLimits, Reason(l, m, h, n)
      PROVE  LoopInv'
  BY <1>4, ReasonKeeps
<1>5. ASSUME NEW l \in Loops, Run(l) PROVE LoopInv'
  BY <1>5, RunKeeps
<1>6. ASSUME NEW l \in Loops, ChatFails(l) PROVE LoopInv'
  BY <1>6, ChatFailsKeeps
<1>7. ASSUME NEW l \in Loops, Answered(l) PROVE LoopInv'
  BY <1>7, AnswerKeeps DEF Answered
<1>8. ASSUME NEW l \in Loops, UseTool(l) PROVE LoopInv'
  BY <1>8, UseToolKeeps
<1> QED
  BY <1>1, <1>2, <1>3, <1>4, <1>5, <1>6, <1>7, <1>8 DEF LoopNext, LoopStep

-----------------------------------------------------------------------------
(* What the invariant says of the answers in a history                     *)

LEMMA LeastIs ==
  ASSUME NEW I \in SUBSET Nat, NEW m \in I, \A y \in I : m <= y
  PROVE  Min(I) = m
<1>1. \A x \in I : (\A y \in I : x <= y) => x = m
  OBVIOUS
<1> QED
  BY <1>1 DEF Min

LEMMA RestHas ==
  ASSUME NEW S, NEW ms \in Seq(S), NEW i \in DOMAIN ms
  PROVE  /\ Len(ms) \in Nat /\ i \in Nat /\ i <= Len(ms)
         /\ Len(SubSeq(ms, i + 1, Len(ms))) = Len(ms) - i
         /\ \A j \in 1..(Len(ms) - i) :
              SubSeq(ms, i + 1, Len(ms))[j] = ms[i + j] /\ i + j \in DOMAIN ms
OBVIOUS

LEMMA AnswersAre ==
  ASSUME NEW l \in Loops, msgs[l] \in Seq(LoopMessages), NEW i \in DOMAIN msgs[l], NEW n \in Nat,
         AnsweredIn(msgs[l], i, n)
  PROVE  AnswersAfter(l, i) = [k \in 1..n |-> k]
<1> DEFINE ms == msgs[l]
           rest == SubSeq(ms, i + 1, Len(ms))
           I == {j \in 1..Len(rest) : rest[j].role # "tool"}
           other == IF I # {} THEN Min(I) ELSE 0
           top == IF other = 0 THEN Len(rest) ELSE other - 1
<1>1. AnswersAfter(l, i) = [j \in 1..top |-> rest[j].for]
  BY DEF AnswersAfter, SelectInSeq
<1>2. /\ Len(ms) \in Nat /\ i \in Nat /\ i <= Len(ms)
      /\ Len(rest) = Len(ms) - i
      /\ \A j \in 1..(Len(ms) - i) : rest[j] = ms[i + j] /\ i + j \in DOMAIN ms
  BY RestHas
<1> HIDE DEF rest
<1>3. i + n <= Len(ms) /\ n <= Len(ms) - i
  BY <1>2 DEF AnsweredIn, Followed
<1>4. ASSUME NEW j \in 1..n PROVE rest[j].role = "tool" /\ rest[j].for = j
  <2>1. j \in 1..(Len(ms) - i) /\ i < i + j /\ i + j <= i + n /\ (i + j) - i = j
    BY <1>2, <1>3
  <2>2. rest[j] = ms[i + j] /\ i + j \in DOMAIN ms
    BY <1>2, <2>1
  <2> QED
    BY <2>1, <2>2 DEF AnsweredIn, Followed
<1>5. top = n
  <2>1. CASE n = Len(ms) - i
    <3>1. I = {}
      BY <1>2, <1>4, <2>1
    <3> QED
      BY <1>2, <2>1, <3>1
  <2>2. CASE n # Len(ms) - i
    <3>0. Len(ms) \in Nat /\ i \in Nat /\ n <= Len(ms) - i
      BY <1>2, <1>3
    <3> HIDE DEF ms
    <3>1. n + 1 \in 1..(Len(ms) - i) /\ i + (n + 1) = i + n + 1
      BY ONLY <3>0, <2>2, n \in Nat
    <3> USE DEF ms
    <3>2. rest[n + 1].role # "tool"
      BY <1>2, <3>1 DEF AnsweredIn
    <3>3. n + 1 \in I /\ I \in SUBSET Nat
      BY <1>2, <3>1, <3>2
    <3>4. \A y \in I : n + 1 <= y
      BY <1>2, <1>4
    <3> HIDE DEF I
    <3>5. Min(I) = n + 1
      BY <3>3, <3>4, LeastIs
    <3>6. other = n + 1
      BY <3>3, <3>5
    <3> QED
      BY <3>6
  <2> QED
    BY <2>1, <2>2
<1> HIDE DEF top
<1> QED
  BY <1>1, <1>4, <1>5

LEMMA OwedAre ==
  ASSUME NEW calls \in Answers, NEW md
  PROVE  1..Owed(md, calls) = {n \in DOMAIN calls : md = "agent" \/ n = 1}
<1>1. Len(calls) \in Nat /\ DOMAIN calls = 1..Len(calls) /\ (calls = <<>> <=> Len(calls) = 0)
  BY AnswerHas, ToolLoopAssumption
<1>2. CASE md = "agent"
  BY <1>1, <1>2 DEF Owed
<1>3. CASE calls = <<>>
  <2>1. Owed(md, calls) = 0 /\ DOMAIN calls = {} /\ 1..0 = {}
    BY <1>1, <1>3 DEF Owed
  <2> QED
    BY <2>1
<1>4. CASE md # "agent" /\ calls # <<>>
  <2>1. Owed(md, calls) = 1 /\ 1 \in DOMAIN calls /\ 1..1 = {1}
    BY <1>1, <1>4 DEF Owed
  <2> QED
    BY <1>4, <2>1
<1> QED
  BY <1>2, <1>3, <1>4

LEMMA LoopInvShows == LoopInv => LoopTypeOK /\ HistoryAnswered
<1> SUFFICES ASSUME LoopInv PROVE LoopTypeOK /\ HistoryAnswered
  OBVIOUS
<1>1. LoopTypeOK
  <2>1. ASSUME NEW l \in Loops, NEW i \in DOMAIN msgs[l] PROVE msgs[l][i] \in LoopMessages
    <3>1. msgs[l] \in Seq(LoopMessages)
      BY DEF LoopInv, LoopDomains
    <3> QED
      BY <3>1, MessageHas
  <2> QED
    BY <2>1 DEF LoopTypeOK, LoopInv, LoopDomains, LoopMessages
<1>2. ASSUME NEW l \in Loops, loopAt[l] = "chat",
             NEW i \in {j \in DOMAIN msgs[l] : msgs[l][j].role = "assistant"}
      PROVE  LET calls == msgs[l][i].calls IN
             /\ AnswersAfter(l, i) = [k \in Obliged(l, calls) |-> k]
             /\ \A k \in Obliged(l, calls) :
                  /\ Request(l)[i + k].role = "tool"
                  /\ Request(l)[i + k].content \in Observations(l, calls[k])
  <2> DEFINE ms == msgs[l]
             calls == ms[i].calls
             n == Owed(mode[l], calls)
  <2>1. ms \in Seq(LoopMessages) /\ AnsweredTo(ms, mode[l], Len(ms) + 1)
    BY <1>2 DEF LoopInv, LoopDomains, Holding
  <2>2. i \in DOMAIN ms /\ i < Len(ms) + 1 /\ ms[i].role = "assistant"
    BY <2>1
  <2>3. calls \in Answers /\ calls \in Seq(ToolNames) /\ DOMAIN calls = 1..Len(calls)
    BY <2>1, <2>2, MessageHas, AnswerHas
  <2>4. n \in Nat /\ 1..n = Obliged(l, calls)
    BY <2>3, OwedIs, OwedAre, ToolLoopAssumption DEF Obliged
  <2>5. AnsweredIn(ms, i, n)
    BY <2>1, <2>2 DEF AnsweredTo
  <2> HIDE DEF n
  <2>6. AnswersAfter(l, i) = [k \in 1..n |-> k]
    BY <2>1, <2>2, <2>4, <2>5, AnswersAre
  <2>7. Told(ms, Given(l))
    BY DEF LoopInv
  <2>8. ASSUME NEW k \in Obliged(l, calls)
        PROVE  /\ Request(l)[i + k].role = "tool"
               /\ Request(l)[i + k].content \in Observations(l, calls[k])
    <3>1. k \in 1..n /\ k \in DOMAIN calls /\ calls[k] \in ToolNames
      BY <2>3, <2>4 DEF Obliged
    <3>2. i + k \in DOMAIN ms /\ i < i + k /\ i + k <= i + n
      BY <2>1, <2>2, <2>4, <2>5, <3>1 DEF AnsweredIn, Followed
    <3>3. \A q \in DOMAIN ms : i < q /\ q <= i + k => ms[q].role = "tool"
      BY <2>1, <2>2, <2>4, <2>5, <3>1 DEF AnsweredIn, Followed
    <3>4. ms[i + k].role = "tool"
      BY <3>2, <3>3, <2>1, <2>2, <3>1
    <3>5. ms[i + k].obs \in Given(l)[calls[k]]
      BY <2>2, <2>7, <3>1, <3>2, <3>3 DEF Told
    <3>6. ms[i + k].obs \in Observations(l, calls[k])
      BY <3>1, <3>5 DEF Given
    <3> QED
      BY <3>2, <3>4, <3>6 DEF Request, convertMessages
  <2> QED
    BY <2>4, <2>6, <2>8
<1> QED
  BY <1>1, <1>2 DEF HistoryAnswered
-----------------------------------------------------------------------------
(* Planner                                                                 *)

\* The task that runs is one of the plan.
PlanInv == PlanTypeOK /\ (planAt = "running" => current \in DOMAIN plan)

LEMMA PlanInvInit == PlanInit => PlanInv
<1> SUFFICES ASSUME PlanInit PROVE PlanInv
  OBVIOUS
<1>1. plan = <<>> /\ Len(plan) \in 0..MaxTasks /\ plan \in Seq(PlanTasks)
  BY PlannerAssumption DEF PlanInit
<1>2. plan \in BoundedSeq(PlanTasks, MaxTasks)
  BY <1>1, PlannerAssumption, BoundedSeqHas
<1> QED
  BY <1>2, PlannerAssumption DEF PlanInit, PlanInv, PlanTypeOK

\* A change of one task's status.
LEMMA StatusKeeps ==
  ASSUME PlanTypeOK, NEW i \in DOMAIN plan, NEW st \in {"pending", "running", "completed", "failed"}
  PROVE  /\ [plan EXCEPT ![i].status = st] \in BoundedSeq(PlanTasks, MaxTasks)
         /\ DOMAIN [plan EXCEPT ![i].status = st] = DOMAIN plan
         /\ i \in 0..MaxTasks
<1>1. PICK n \in 0..MaxTasks : plan \in [1..n -> PlanTasks]
  BY PlannerAssumption DEF PlanTypeOK, BoundedSeq, SeqOf
<1>2. [plan[i] EXCEPT !.status = st] \in PlanTasks
  BY <1>1 DEF PlanTasks
<1>3. [plan EXCEPT ![i].status = st] \in [1..n -> PlanTasks]
  BY <1>1, <1>2
<1> QED
  BY <1>1, <1>3, PlannerAssumption DEF BoundedSeq, SeqOf

LEMMA PlanInvStep == PlanInv /\ [PlanNext]_planVars => PlanInv'
<1> SUFFICES ASSUME PlanInv, [PlanNext]_planVars PROVE PlanInv'
  OBVIOUS
<1>0. PlanTypeOK
  BY DEF PlanInv
<1>1. ASSUME NEW answer \in BoundedSeq({t \in PlanTasks : t.status = "pending"}, MaxTasks), Decompose(answer)
      PROVE  PlanInv'
  <2>1. answer \in BoundedSeq(PlanTasks, MaxTasks)
    BY PlannerAssumption DEF BoundedSeq, SeqOf
  <2> QED
    BY <1>0, <1>1, <2>1 DEF Decompose, PlanInv, PlanTypeOK
<1>2. CASE DecomposeFails
  BY <1>2 DEF DecomposeFails, PlanInv, PlanTypeOK
<1>3. CASE NextTask
  <2>1. PICK i \in DOMAIN plan : current' = i /\ plan' = [plan EXCEPT ![i].status = "running"]
    BY <1>3 DEF NextTask
  <2>2. planAt' = "running"
    BY <1>3 DEF NextTask
  <2> QED
    BY <1>0, <2>1, <2>2, StatusKeeps DEF PlanInv, PlanTypeOK
<1>4. CASE NoTask
  BY <1>4 DEF NoTask, PlanInv, PlanTypeOK
<1>5. ASSUME NEW st \in {"completed", "failed"}, TaskEnds(st) PROVE PlanInv'
  BY <1>0, <1>5, StatusKeeps DEF TaskEnds, PlanInv, PlanTypeOK
<1>6. CASE UNCHANGED planVars
  BY <1>6 DEF planVars, PlanInv, PlanTypeOK
<1> QED
  BY <1>1, <1>2, <1>3, <1>4, <1>5, <1>6 DEF PlanNext, PlanStep

-----------------------------------------------------------------------------
(* ConversationMemory                                                      *)

MemTyped ==
  /\ MemTypeOK /\ context \in [Readers -> Seq(Messages)]
  /\ IsFiniteSet(Inserted)

\* A message is stamped when it is begun, and its row is later than that, by
\* the clock of its replica.
Stamped(m) ==
  /\ added[m] # "none" => stamp[m] <= Now(m)
  /\ added[m] \in {"inserted", "returned"} => stamp[m] < Now(m)

\* What had returned when a message began has an older stamp, of the same replica.
EarlierOlder(m) ==
  /\ added[m] = "none" => earlier[m] = {}
  /\ \A k \in earlier[m] :
       added[k] = "returned" /\ (ReplicaOf[k] = ReplicaOf[m] => stamp[k] < stamp[m])

ContextRight(r) ==
  LET text == context[r] IN
  /\ \A i \in DOMAIN text : added[text[i]] \in {"inserted", "returned"}
  /\ \A i, j \in DOMAIN text :
       text[i] \in earlier[text[j]] /\ ReplicaOf[text[i]] = ReplicaOf[text[j]] => i < j
  /\ \A m \in known[r] :
       \/ \E i \in DOMAIN text : text[i] = m
       \/ Len(text) = Window /\ \A i \in DOMAIN text : stamp[text[i]] >= stamp[m]

MemInv ==
  /\ MemTyped
  /\ \A m \in Messages : Stamped(m) /\ EarlierOlder(m)
  /\ \A r \in Readers : known[r] \subseteq Returned
  /\ \A r \in Readers : readAt[r] = "done" => ContextRight(r)

LEMMA MemInvInit == MemInit => MemInv
<1> SUFFICES ASSUME MemInit PROVE MemInv
  OBVIOUS
<1>1. Inserted = {} /\ IsFiniteSet(Inserted)
  BY FS_EmptySet DEF MemInit, Inserted
<1>2. MemTypeOK
  <2>1. time \in [Replicas -> 0..(MaxStamp + 1)] /\ stamp \in [Messages -> 0..MaxStamp]
    BY MemoryAssumption DEF MemInit
  <2>2. \A r \in Readers : context[r] \in Seq(Messages) /\ Len(context[r]) <= Window
    BY MemoryAssumption DEF MemInit
  <2> QED
    BY <2>1, <2>2 DEF MemInit, MemTypeOK
<1>3. context \in [Readers -> Seq(Messages)]
  BY DEF MemInit
<1>4. MemTyped
  BY <1>1, <1>2, <1>3 DEF MemTyped
<1> QED
  BY <1>4 DEF MemInit, MemInv, Stamped, EarlierOlder

\* The rows in an order of their stamps are all of them.
LEMMA OrderedHas ==
  ASSUME MemInv, NEW s \in Ordered(Inserted)
  PROVE  /\ s \in Seq(Messages) /\ Len(s) \in Nat /\ DOMAIN s = 1..Len(s)
         /\ \A i \in DOMAIN s : s[i] \in Inserted
         /\ \A i, j \in DOMAIN s : i < j => stamp[s[i]] <= stamp[s[j]]
         /\ \A m \in Inserted : \E i \in DOMAIN s : s[i] = m
<1> DEFINE n == Cardinality(Inserted)
<1>1. IsFiniteSet(Inserted) /\ n \in Nat
  BY FS_CardinalityType DEF MemInv, MemTyped
<1>2. /\ s \in [1..n -> Inserted]
      /\ \A i, j \in 1..n : i < j => s[i] # s[j] /\ stamp[s[i]] <= stamp[s[j]]
  BY DEF Ordered
<1>3. Cardinality(1..n) = n
  BY <1>1, FS_Interval
<1>4. ASSUME NEW i \in 1..n, NEW j \in 1..n, s[i] = s[j] PROVE i = j
  BY <1>1, <1>2, <1>4
<1>5. s \in Injection(1..n, Inserted)
  BY <1>2, <1>4, Zenon DEF Injection, IsInjective
<1>6. s \in Surjection(1..n, Inserted)
  BY <1>1, <1>3, <1>5, FS_Injection
<1>7. \A m \in Inserted : \E i \in 1..n : s[i] = m
  BY <1>6 DEF Surjection
<1>8. Inserted \subseteq Messages
  BY DEF Inserted
<1>9. s \in Seq(Messages) /\ Len(s) = n /\ DOMAIN s = 1..n
  BY <1>1, <1>2, <1>8
<1> QED
  BY <1>1, <1>2, <1>7, <1>9

LEMMA SubSeqAt ==
  ASSUME NEW S, NEW s \in Seq(S), NEW n \in Nat \ {0}, Len(s) > n
  PROVE  /\ SubSeq(s, Len(s) - n + 1, Len(s)) \in Seq(S)
         /\ Len(SubSeq(s, Len(s) - n + 1, Len(s))) = n
         /\ \A i \in 1..n : SubSeq(s, Len(s) - n + 1, Len(s))[i] = s[(Len(s) - n) + i]
<1> DEFINE m == Len(s) - n + 1
<1>1. m \in 1..Len(s) /\ Len(s) \in Nat
  OBVIOUS
<1>2. SubSeq(s, m, Len(s)) = [i \in 1..(Len(s) - m + 1) |-> s[m + i - 1]]
  BY <1>1
<1>3. Len(s) - m + 1 = n /\ \A i \in 1..n : m + i - 1 = (Len(s) - n) + i /\ m + i - 1 \in 1..Len(s)
  BY <1>1
<1> HIDE DEF m
<1>4. SubSeq(s, m, Len(s)) = [i \in 1..n |-> s[m + i - 1]]
  BY <1>2, <1>3
<1>5. [i \in 1..n |-> s[m + i - 1]] \in Seq(S)
  BY <1>3
<1> DEFINE t == SubSeq(s, m, Len(s))
<1> HIDE DEF t
<1>6. t \in Seq(S) /\ Len(t) = n
  BY <1>4, <1>5 DEF t
<1>7. ASSUME NEW i \in 1..n PROVE t[i] = s[(Len(s) - n) + i]
  <2>1. t[i] = s[m + i - 1]
    BY <1>4 DEF t
  <2>2. m + i - 1 = (Len(s) - n) + i
    BY <1>3
  <2> QED
    BY <2>1, <2>2
<1> QED
  BY <1>6, <1>7 DEF t, m

\* The last n members of a sequence, or all if it has fewer.
LastOf(s, n) == IF Len(s) > n THEN SubSeq(s, Len(s) - n + 1, Len(s)) ELSE s

IsEnd(t, s, n, off) ==
  /\ Len(t) = Len(s) - off /\ Len(t) <= n /\ off <= Len(s)
  /\ off # 0 => Len(t) = n
  /\ \A i \in 1..Len(t) : t[i] = s[off + i]

LEMMA LastOfSeq ==
  ASSUME NEW S, NEW s \in Seq(S), NEW n \in Nat \ {0}
  PROVE  LastOf(s, n) \in Seq(S) /\ \E off \in Nat : IsEnd(LastOf(s, n), s, n, off)
<1> DEFINE t == LastOf(s, n)
           off == IF Len(s) > n THEN Len(s) - n ELSE 0
<1>1. Len(s) \in Nat /\ off \in Nat /\ off <= Len(s)
  OBVIOUS
<1>2. /\ t \in Seq(S) /\ Len(t) = Len(s) - off /\ Len(t) <= n
      /\ off # 0 => Len(t) = n
      /\ \A i \in 1..Len(t) : t[i] = s[off + i]
  <2>1. CASE Len(s) > n
    <3>1. t = SubSeq(s, Len(s) - n + 1, Len(s)) /\ off = Len(s) - n
      BY <2>1 DEF LastOf
    <3>2. Len(s) - (Len(s) - n) = n
      OBVIOUS
    <3> HIDE DEF t, off
    <3> QED
      BY <2>1, <3>1, <3>2, SubSeqAt
  <2>2. CASE ~ (Len(s) > n)
    <3>1. t = s /\ off = 0 /\ Len(s) <= n
      BY <2>2 DEF LastOf
    <3>2. \A i \in 1..Len(s) : 0 + i = i
      OBVIOUS
    <3> HIDE DEF t, off
    <3> QED
      BY <3>1, <3>2
  <2> QED
    BY <2>1, <2>2
<1> HIDE DEF t, off
<1>3. t \in Seq(S) /\ IsEnd(t, s, n, off)
  BY <1>1, <1>2 DEF IsEnd
<1> QED
  BY <1>1, <1>3 DEF t

LEMMA ReadMessagesKeeps ==
  ASSUME MemInv, NEW r \in Readers, ReadMessages(r)
  PROVE  MemInv'
<1>1. PICK s \in Ordered(Inserted) :
        context' = [context EXCEPT ![r] =
          IF Len(s) > Window THEN SubSeq(s, Len(s) - Window + 1, Len(s)) ELSE s]
  BY DEF ReadMessages
<1>2. /\ readAt' = [readAt EXCEPT ![r] = "done"]
      /\ UNCHANGED <<time, saved, added, stamp, earlier, known>>
  BY DEF ReadMessages, ReadGoto
<1>3. MemTypeOK /\ context \in [Readers -> Seq(Messages)] /\ IsFiniteSet(Inserted)
  BY DEF MemInv, MemTyped
<1> DEFINE t == LastOf(s, Window)
<1>4. /\ s \in Seq(Messages) /\ Len(s) \in Nat /\ DOMAIN s = 1..Len(s)
      /\ \A i \in DOMAIN s : s[i] \in Inserted
      /\ \A i, j \in DOMAIN s : i < j => stamp[s[i]] <= stamp[s[j]]
      /\ \A m \in Inserted : \E i \in DOMAIN s : s[i] = m
  BY OrderedHas
<1>5a. s \in Seq(Messages) /\ Window \in Nat \ {0}
  BY <1>4, MemoryAssumption
<1>5b. t \in Seq(Messages) /\ \E off \in Nat : IsEnd(t, s, Window, off)
  BY ONLY <1>5a, LastOfSeq
<1>5c. PICK off \in Nat : IsEnd(t, s, Window, off)
  BY <1>5b
<1>5. /\ t \in Seq(Messages) /\ Len(t) = Len(s) - off /\ Len(t) <= Window /\ off <= Len(s)
      /\ off # 0 => Len(t) = Window
      /\ \A i \in 1..Len(t) : t[i] = s[off + i]
  BY <1>5b, <1>5c DEF IsEnd
<1>6. context' = [context EXCEPT ![r] = t]
  BY <1>1 DEF LastOf
<1> HIDE DEF t
<1>7. DOMAIN t = 1..Len(t) /\ Len(t) \in Nat
  BY <1>5
<1>8. ASSUME NEW i \in DOMAIN t PROVE off + i \in DOMAIN s /\ t[i] = s[off + i] /\ t[i] \in Inserted
  <2>1. i \in 1..Len(t)
    BY <1>7
  <2>2. off + i \in 1..Len(s)
    BY <1>4, <1>5, <1>7, <2>1
  <2>3. t[i] = s[off + i]
    BY <1>5, <2>1
  <2> QED
    BY <1>4, <2>2, <2>3
<1>9. ASSUME NEW i \in DOMAIN t, NEW j \in DOMAIN t, t[i] \in earlier[t[j]],
             ReplicaOf[t[i]] = ReplicaOf[t[j]]
      PROVE  i < j
  <2>1. t[i] \in Messages /\ t[j] \in Messages /\ stamp[t[i]] < stamp[t[j]]
    BY <1>8, <1>9 DEF MemInv, EarlierOlder, Inserted
  <2>2. i \in Nat /\ j \in Nat /\ stamp[t[i]] \in Nat /\ stamp[t[j]] \in Nat
    BY <1>3, <1>7, <2>1 DEF MemTypeOK
  <2>3. CASE j < i
    <3>1. off + j < off + i
      BY <2>2, <2>3, <1>5
    <3>2. stamp[s[off + j]] <= stamp[s[off + i]]
      BY <1>4, <1>8, <3>1
    <3> QED
      BY <1>8, <2>1, <2>2, <3>2
  <2>4. CASE i = j
    BY <2>1, <2>2, <2>4
  <2> QED
    BY <2>2, <2>3, <2>4
<1>10. ASSUME NEW m \in known[r]
       PROVE  \/ \E i \in DOMAIN t : t[i] = m
              \/ Len(t) = Window /\ \A i \in DOMAIN t : stamp[t[i]] >= stamp[m]
  <2>1. m \in Inserted
    BY DEF MemInv, Returned, Inserted
  <2>2. PICK k \in DOMAIN s : s[k] = m
    BY <1>4, <2>1
  <2>3. k \in 1..Len(s)
    BY <1>4
  <2>4. CASE k <= off
    <3>1. off # 0 /\ Len(t) = Window
      BY <1>5, <2>3, <2>4
    <3>2. ASSUME NEW i \in DOMAIN t PROVE stamp[t[i]] >= stamp[m]
      <4>1. k < off + i
        BY <1>5, <1>7, <2>3, <2>4
      <4>2. stamp[s[k]] <= stamp[s[off + i]]
        BY <1>4, <1>8, <4>1
      <4>3. stamp[t[i]] \in Nat /\ stamp[m] \in Nat
        BY <1>3, <1>8, <2>1 DEF MemTypeOK, Inserted
      <4> QED
        BY <1>8, <2>2, <4>2, <4>3
    <3> QED
      BY <3>1, <3>2
  <2>5. CASE ~ (k <= off)
    <3>1. PICK i \in 1..Len(t) : k = off + i
      <4>1. k - off \in 1..Len(t) /\ k = off + (k - off)
        BY <1>4, <1>5, <2>3, <2>5
      <4> QED
        BY <4>1
    <3>2. t[i] = m
      BY <1>5, <2>2, <3>1
    <3> QED
      BY <1>7, <3>1, <3>2
  <2> QED
    BY <2>4, <2>5
<1>11. ContextRight(r)'
  <2>1. context'[r] = t /\ \A i \in DOMAIN t : added[t[i]] \in {"inserted", "returned"}
    BY <1>3, <1>6, <1>8 DEF Inserted
  <2> QED
    BY <1>2, <1>9, <1>10, <2>1 DEF ContextRight
<1>12. ASSUME NEW p \in Readers, p # r, readAt'[p] = "done" PROVE ContextRight(p)'
  <2>1. context'[p] = context[p] /\ readAt'[p] = readAt[p]
    BY <1>2, <1>3, <1>6, <1>12 DEF MemTypeOK
  <2> QED
    BY <1>2, <1>12, <2>1 DEF MemInv, ContextRight
<1>13. MemTyped'
  <2>1. Inserted' = Inserted
    BY <1>2 DEF Inserted
  <2>2. context' \in [Readers -> Seq(Messages)]
    BY <1>3, <1>5, <1>6
  <2>3. \A p \in Readers : Len(context'[p]) <= Window
    BY <1>3, <1>5, <1>6 DEF MemTypeOK
  <2> QED
    BY <1>2, <1>3, <2>1, <2>2, <2>3 DEF MemTyped, MemTypeOK
<1> QED
  BY <1>2, <1>11, <1>12, <1>13 DEF MemInv, Stamped, Now, EarlierOlder, Returned

LEMMA MemInvStep == MemInv /\ [MemNext]_memVars => MemInv'
<1> SUFFICES ASSUME MemInv, [MemNext]_memVars PROVE MemInv'
  OBVIOUS
<1>0. MemTypeOK /\ context \in [Readers -> Seq(Messages)] /\ IsFiniteSet(Inserted)
  BY DEF MemInv, MemTyped
<1>1. ASSUME NEW n \in Replicas, MemTick(n) PROVE MemInv'
  <2>1. time[n] \in Nat /\ time[n] + 1 \in 0..(MaxStamp + 1)
    BY <1>0, <1>1, MemoryAssumption DEF MemTick, MemTypeOK
  <2>2. MemTyped'
    BY <1>0, <1>1, <2>1 DEF MemTick, MemTyped, MemTypeOK, Inserted
  <2>3. ASSUME NEW m \in Messages PROVE Stamped(m)'
    <3>1. ReplicaOf[m] \in Replicas /\ Now(m) \in Nat /\ stamp[m] \in Nat
      BY <1>0, MemoryAssumption DEF Now, MemTypeOK
    <3>2. Now(m)' \in {Now(m), Now(m) + 1}
      BY <1>0, <1>1, <3>1 DEF MemTick, Now, MemTypeOK
    <3>3. Stamped(m) /\ added'[m] = added[m] /\ stamp'[m] = stamp[m]
      BY <1>1 DEF MemTick, MemInv
    <3> QED
      BY <3>1, <3>2, <3>3 DEF Stamped
  <2> QED
    BY <1>1, <2>2, <2>3 DEF MemTick, MemInv, EarlierOlder, ContextRight, Returned
<1>2. CASE SaveSession
  BY <1>2 DEF SaveSession, MemInv, MemTyped, MemTypeOK, Inserted, Stamped, Now, EarlierOlder, ContextRight, Returned
<1>3. ASSUME NEW m \in Messages, AddMessage(m) PROVE MemInv'
  <2>0. ReplicaOf[m] \in Replicas /\ Now(m) \in 0..(MaxStamp + 1)
    BY <1>0, MemoryAssumption DEF Now, MemTypeOK
  <2>1. /\ added[m] = "none" /\ Now(m) \in 0..MaxStamp
        /\ stamp' = [stamp EXCEPT ![m] = Now(m)]
        /\ earlier' = [earlier EXCEPT ![m] = Returned]
        /\ added' = [added EXCEPT ![m] = "insert"]
        /\ UNCHANGED <<time, saved, readAt, known, context>>
    BY <1>3, <2>0, MemoryAssumption DEF AddMessage
  <2>2. Returned' = Returned /\ Inserted' = Inserted /\ Returned \subseteq Messages
    BY <1>0, <2>1 DEF Returned, Inserted, MemTypeOK
  <2>3. MemTyped'
    BY <1>0, <2>1, <2>2 DEF MemTyped, MemTypeOK
  <2>4. \A k \in Messages : k # m => stamp'[k] = stamp[k] /\ earlier'[k] = earlier[k] /\ added'[k] = added[k]
    BY <1>0, <2>1 DEF MemTypeOK
  <2>5. stamp'[m] = Now(m) /\ earlier'[m] = Returned /\ added'[m] = "insert"
    BY <1>0, <2>1 DEF MemTypeOK
  <2>6. Stamped(m)' /\ EarlierOlder(m)'
    <3>1. \A k \in Returned :
            /\ k # m /\ k \in Messages /\ added[k] = "returned"
            /\ ReplicaOf[k] = ReplicaOf[m] => stamp[k] < Now(m)
      BY <2>1 DEF MemInv, Stamped, Returned, Now
    <3>2. time' = time /\ time[ReplicaOf[m]] \in Nat /\ stamp'[m] = time[ReplicaOf[m]]
      BY <2>0, <2>1, <2>5, MemoryAssumption DEF Now
    <3>3. Stamped(m)'
      BY <2>5, <3>2 DEF Stamped, Now
    <3> QED
      BY <2>4, <2>5, <3>1, <3>3 DEF EarlierOlder
  <2>7. ASSUME NEW k \in Messages, k # m PROVE Stamped(k)' /\ EarlierOlder(k)'
    <3>1. Stamped(k) /\ EarlierOlder(k) /\ earlier[k] \subseteq Messages
      BY <1>0 DEF MemInv, MemTypeOK
    <3>2. Stamped(k)'
      BY <2>1, <2>4, <2>7, <3>1 DEF Stamped, Now
    <3> QED
      BY <2>1, <2>4, <2>7, <3>1, <3>2 DEF EarlierOlder
  <2>8. ASSUME NEW r \in Readers, readAt'[r] = "done" PROVE ContextRight(r)'
    <3>1. ContextRight(r) /\ context'[r] = context[r] /\ known'[r] = known[r]
      BY <2>1, <2>8 DEF MemInv
    <3>2. \A i \in DOMAIN context[r] : context[r][i] \in Messages /\ context[r][i] # m
      BY <1>0, <2>1, <3>1 DEF ContextRight
    <3>3. \A k \in known[r] : k \in Messages /\ k # m
      BY <2>1 DEF MemInv, Returned
    <3> QED
      BY <2>4, <3>1, <3>2, <3>3 DEF ContextRight
  <2> QED
    BY <2>1, <2>2, <2>3, <2>6, <2>7, <2>8 DEF MemInv
<1>4. ASSUME NEW m \in Messages, NEW l \in {"inserted", "returned", "failed"}, added[m] \in {"insert", "inserted"},
             added[m] = "insert" => Now(m) > stamp[m],
             added[m] = "inserted" => l = "returned",
             added' = [added EXCEPT ![m] = l],
             UNCHANGED <<time, saved, stamp, earlier, readAt, known, context>>
      PROVE  MemInv'
  <2>1. Returned \subseteq Returned' /\ Inserted' \in {Inserted, Inserted \cup {m}}
    BY <1>0, <1>4 DEF Returned, Inserted, MemTypeOK
  <2>2. IsFiniteSet(Inserted')
    BY <1>0, <2>1, FS_AddElement
  <2>3. MemTyped'
    BY <1>0, <1>4, <2>2 DEF MemTyped, MemTypeOK
  <2>4. \A k \in Messages : k # m => added'[k] = added[k]
    BY <1>0, <1>4 DEF MemTypeOK
  <2>5. added'[m] = l
    BY <1>0, <1>4 DEF MemTypeOK
  <2>6. ASSUME NEW k \in Messages PROVE Stamped(k)'
    <3>1. Stamped(k) /\ stamp[k] \in Nat /\ time[ReplicaOf[k]] \in Nat
      BY <1>0, MemoryAssumption DEF MemInv, MemTypeOK
    <3> QED
      BY <1>4, <2>4, <2>5, <3>1 DEF Stamped, Now
  <2>7. ASSUME NEW k \in Messages PROVE EarlierOlder(k)'
    <3>1. EarlierOlder(k) /\ earlier[k] \subseteq Messages
      BY <1>0 DEF MemInv, MemTypeOK
    <3>2. \A j \in earlier[k] : j # m
      BY <1>4, <3>1 DEF EarlierOlder
    <3> QED
      BY <1>4, <2>4, <2>5, <3>1, <3>2 DEF EarlierOlder
  <2>8. ASSUME NEW r \in Readers, readAt'[r] = "done" PROVE ContextRight(r)'
    <3>1. ContextRight(r) /\ context[r] \in Seq(Messages)
      BY <1>0, <1>4, <2>8 DEF MemInv
    <3>2. \A i \in DOMAIN context[r] : added'[context[r][i]] \in {"inserted", "returned"}
      BY <1>4, <2>4, <2>5, <3>1 DEF ContextRight
    <3> QED
      BY <1>4, <3>1, <3>2 DEF ContextRight
  <2> QED
    BY <1>4, <2>1, <2>3, <2>6, <2>7, <2>8 DEF MemInv
<1>5. ASSUME NEW m \in Messages, AppendMessage(m) \/ AppendReturns(m) \/ AppendFails(m) PROVE MemInv'
  <2>1. CASE AppendMessage(m)
    BY <1>4, <2>1 DEF AppendMessage
  <2>2. CASE AppendReturns(m)
    BY <1>4, <2>2 DEF AppendReturns
  <2>3. CASE AppendFails(m)
    BY <1>4, <2>3 DEF AppendFails
  <2> QED
    BY <1>5, <2>1, <2>2, <2>3
<1>6. ASSUME NEW r \in Readers, BuildContext(r) PROVE MemInv'
  <2>1. /\ readAt' = [readAt EXCEPT ![r] = "session"]
        /\ known' = [known EXCEPT ![r] = Returned]
        /\ UNCHANGED <<time, saved, added, stamp, earlier, context>>
    BY <1>6 DEF BuildContext, ReadGoto
  <2>2. Returned' = Returned /\ Inserted' = Inserted /\ Returned \subseteq Messages
    BY <2>1 DEF Returned, Inserted
  <2>3. MemTyped'
    BY <1>0, <2>1, <2>2 DEF MemTyped, MemTypeOK
  <2>4. \A p \in Readers : known'[p] \subseteq Returned
    BY <1>0, <2>1 DEF MemInv, MemTypeOK
  <2>5. ASSUME NEW p \in Readers, readAt'[p] = "done" PROVE ContextRight(p)'
    <3>1. p # r /\ readAt[p] = "done" /\ known'[p] = known[p]
      BY <1>0, <2>1, <2>5 DEF MemTypeOK
    <3> QED
      BY <2>1, <3>1 DEF MemInv, ContextRight
  <2> QED
    BY <2>1, <2>2, <2>3, <2>4, <2>5 DEF MemInv, Stamped, Now, EarlierOlder
<1>7. ASSUME NEW r \in Readers, ReadSession(r) \/ ReadFails(r) PROVE MemInv'
  <2>1. PICK label \in {"messages", "failed"} : readAt' = [readAt EXCEPT ![r] = label]
    BY <1>7 DEF ReadSession, ReadFails, ReadGoto
  <2>2. UNCHANGED <<time, saved, added, stamp, earlier, known, context>>
    BY <1>7 DEF ReadSession, ReadFails
  <2>3. MemTyped'
    BY <1>0, <2>1, <2>2 DEF MemTyped, MemTypeOK, Inserted
  <2>4. ASSUME NEW p \in Readers, readAt'[p] = "done" PROVE ContextRight(p)'
    <3>1. p # r /\ readAt[p] = "done"
      BY <1>0, <2>1, <2>4 DEF MemTypeOK
    <3> QED
      BY <2>2, <3>1 DEF MemInv, ContextRight
  <2> QED
    BY <2>2, <2>3, <2>4 DEF MemInv, Stamped, Now, EarlierOlder, Returned
<1>8. ASSUME NEW r \in Readers, ReadMessages(r) PROVE MemInv'
  BY <1>8, ReadMessagesKeeps
<1>9. CASE UNCHANGED memVars
  BY <1>9 DEF memVars, MemInv, MemTyped, MemTypeOK, Inserted, Stamped, Now, EarlierOlder, ContextRight, Returned
<1> QED
  BY <1>1, <1>2, <1>3, <1>5, <1>6, <1>7, <1>8, <1>9 DEF MemNext

LEMMA MemInvShows == MemInv => ContextFaithful /\ MemTypeOK
BY DEF MemInv, MemTyped, ContextRight, ContextFaithful

-----------------------------------------------------------------------------
(* The parts together                                                      *)

BrainInv == FlowInv /\ RagInv /\ RagTyped /\ LoopInv /\ PlanInv /\ MemInv

\* A step of bzy-brain is a step of each part, or leaves it what it was.
LEMMA BrainParts ==
  [BrainNext]_brainVars =>
    /\ [FlowNext]_flowVars /\ [RagNext]_ragVars /\ [LoopNext]_loopVars
    /\ [PlanNext]_planVars /\ [MemNext]_memVars
BY Zenon DEF BrainNext, brainVars, Untouched

LEMMA BrainInvAlways == BrainSpec => []BrainInv
<1>1. BrainInit => BrainInv
  BY FlowInvInit, RagInvInit, RagTypedInit, LoopInvInit, PlanInvInit, MemInvInit
     DEF BrainInit, BrainInv
<1>2. BrainInv /\ [BrainNext]_brainVars => BrainInv'
  BY BrainParts, FlowInvStep, RagInvStep, RagTypedStep, LoopInvStep, PlanInvStep, MemInvStep
     DEF BrainInv
<1> QED
  BY <1>1, <1>2, PTL DEF BrainSpec

\* Every part's state is what its declarations say (workflow.go, rag.go,
\* agent.go, reasoning.go, planner.go, memory.go).
THEOREM BrainTypeCorrect == BrainSpec => []BrainTypeOK
<1>1. BrainInv => BrainTypeOK
  BY FlowInvShows, LoopInvShows, MemInvShows DEF BrainInv, RagTyped, PlanInv, BrainTypeOK
<1> QED
  BY <1>1, BrainInvAlways, PTL

\* A workflow run that ended ended the way its graph and the failures of its
\* nodes say, for every graph of any size, cyclic ones included, and leaves no
\* node behind as running (workflow.go executeDAG).
THEOREM RunsFollowGraphCorrect == BrainSpec => []RunsFollowGraph
<1>1. BrainInv => RunsFollowGraph
  BY FlowInvShows DEF BrainInv, RunsFollowGraph
<1> QED
  BY <1>1, BrainInvAlways, PTL

\* Whenever an agent or react asks the provider, the calls it ran of each
\* answer in the history are followed in the request by their own answers, in
\* order, and each by what that call's tool can have given: the only thing that
\* tells the provider what a tool's message answers (agent.go Run,
\* reasoning.go react, openai.go convertMessages).
THEOREM HistoryAnsweredCorrect == BrainSpec => []HistoryAnswered
<1>1. BrainInv => HistoryAnswered
  BY LoopInvShows DEF BrainInv
<1> QED
  BY <1>1, BrainInvAlways, PTL

\* What a reader is given of a conversation is the last of the messages that
\* were added, those of one replica in the order they were added, for any
\* number of replicas whose clocks have nothing to do with each other
\* (memory.go BuildContext, AddMessage).
THEOREM ContextFaithfulCorrect == BrainSpec => []ContextFaithful
<1>1. BrainInv => ContextFaithful
  BY MemInvShows DEF BrainInv
<1> QED
  BY <1>1, BrainInvAlways, PTL

=============================================================================
