------------------------------ MODULE ToolLoop ------------------------------
(***************************************************************************)
(* The loops of bzy-brain in which a model calls tools: an agent's Run     *)
(* (internal/agents/agent.go) and the modes of Reason                      *)
(* (internal/reasoning/reasoning.go), over the tool registry               *)
(* (internal/tools/tool.go) and whatever the provider answers.             *)
(*                                                                         *)
(* An agent keeps its history, may be run again after a run, looks tools   *)
(* up among those it was spawned with and runs every call of an answer.    *)
(* Reason is one call with a history of its own; react looks tools up in   *)
(* the registry and runs the first call of an answer only.                 *)
(*                                                                         *)
(* Messages keep what the loops tell apart: the role, an assistant's calls *)
(* (names of tools) and, for a tool's message, the call it answers.  What  *)
(* the provider is asked with keeps less: see convertMessages.             *)
(***************************************************************************)
EXTENDS Naturals, Sequences, SequencesExt, FiniteSets

CONSTANTS
  Loops,        \* agents, and calls of Reason
  ToolNames,
  Builtin,      \* registered by NewRegistry
  Histories,    \* prior conversations a call of Reason is given
  MaxToolCalls, \* bound: calls in one answer
  DefaultSteps, \* 10, for a limit of 0
  StepLimits,   \* MaxSteps of definitions and requests
  MaxAgentRuns  \* bound: runs of one agent

VARIABLES
  tools,      \* the registry
  loopAt,     \* where each loop is
  mode,       \* agent, or the mode of Reason
  own,        \* the tools an agent was spawned with
  limit,      \* maxSteps
  msgs,       \* the history
  step,       \* the loop variable
  pending,    \* calls of the last answer that are still to run
  result,     \* how the loop returned
  agentRuns,  \* calls of Run
  counted     \* state.StepCount

loopVars == <<tools, loopAt, mode, own, limit, msgs, step, pending, result, agentRuns, counted>>

Says(role) == [role |-> role, calls |-> <<>>, for |-> 0, obs |-> "none"]

\* A prior conversation is what BuildContext assembles for a call: what its
\* speakers said, with no calls of tools (memory.go Message has none).
Plain == {Says("system"), Says("user"), Says("assistant")}

ASSUME ToolLoopAssumption ==
  /\ Builtin \subseteq ToolNames
  /\ \A h \in Histories : h \in Seq(Plain)
  /\ MaxToolCalls \in Nat /\ MaxAgentRuns \in Nat
  /\ DefaultSteps \in Nat \ {0} /\ StepLimits \subseteq Nat

Assistant(calls) == [Says("assistant") EXCEPT !.calls = calls]
Observed(k, obs) == [Says("tool") EXCEPT !.for = k, !.obs = obs]

Answers == BoundedSeq(ToolNames, MaxToolCalls)

LoopTypeOK ==
  /\ tools \in SUBSET ToolNames
  /\ loopAt \in [Loops -> {"none", "idle", "chat", "tools", "done"}]
  /\ mode \in [Loops -> {"none", "agent", "react", "cot", "tot"}]
  /\ own \in [Loops -> SUBSET ToolNames]
  /\ limit \in [Loops -> Nat] /\ step \in [Loops -> Nat] /\ counted \in [Loops -> Nat]
  /\ \A l \in Loops : \A i \in DOMAIN msgs[l] :
       msgs[l][i] \in [role : {"system", "user", "assistant", "tool"}, calls : Answers,
                       for : 0..MaxToolCalls, obs : {"none", "result", "error", "unknown"}]
  /\ pending \in [Loops -> SUBSET (1..MaxToolCalls)]
  /\ result \in [Loops -> {"none", "answer", "failed", "exceeded", "unsupported"}]
  /\ agentRuns \in [Loops -> 0..MaxAgentRuns]

LoopInit ==
  /\ tools = Builtin
  /\ loopAt = [l \in Loops |-> "none"] /\ mode = [l \in Loops |-> "none"]
  /\ own = [l \in Loops |-> {}] /\ limit = [l \in Loops |-> 0]
  /\ msgs = [l \in Loops |-> <<>>] /\ step = [l \in Loops |-> 0]
  /\ pending = [l \in Loops |-> {}] /\ result = [l \in Loops |-> "none"]
  /\ agentRuns = [l \in Loops |-> 0] /\ counted = [l \in Loops |-> 0]

LoopGoto(l, label) == loopAt' = [loopAt EXCEPT ![l] = label]
ReturnsWith(l, r) == LoopGoto(l, "done") /\ result' = [result EXCEPT ![l] = r]
Adds(l, s) == msgs' = [msgs EXCEPT ![l] = @ \o s]

\* maxSteps, with the default for 0.
Limit(n) == IF n = 0 THEN DefaultSteps ELSE n

-----------------------------------------------------------------------------
(* The beginning of a loop                                                 *)

RegisterTool(t) ==
  /\ tools' = tools \cup {t}
  /\ UNCHANGED <<loopAt, mode, own, limit, msgs, step, pending, result, agentRuns, counted>>

\* The tools of the definition that are registered now, for the agent's life.
Spawn(l, ids, n) ==
  /\ loopAt[l] = "none"
  /\ mode' = [mode EXCEPT ![l] = "agent"]
  /\ own' = [own EXCEPT ![l] = ids \cap tools]
  /\ limit' = [limit EXCEPT ![l] = Limit(n)]
  /\ LoopGoto(l, "idle")
  /\ UNCHANGED <<tools, msgs, step, pending, result, agentRuns, counted>>

\* Variant for mutation: the messages of the run before are kept.
RunOn(l) ==
  /\ loopAt[l] \in {"idle", "done"} /\ mode[l] = "agent"
  /\ agentRuns[l] < MaxAgentRuns
  /\ agentRuns' = [agentRuns EXCEPT ![l] = @ + 1]
  /\ Adds(l, IF msgs[l] = <<>> THEN <<Says("system"), Says("user")>> ELSE <<Says("user")>>)
  /\ step' = [step EXCEPT ![l] = 0] /\ result' = [result EXCEPT ![l] = "none"]
  /\ LoopGoto(l, "chat")
  /\ UNCHANGED <<tools, mode, own, limit, pending, counted>>

\* Messages are made anew; StepCount goes on.
Run(l) ==
  /\ loopAt[l] \in {"idle", "done"} /\ mode[l] = "agent"
  /\ agentRuns[l] < MaxAgentRuns
  /\ agentRuns' = [agentRuns EXCEPT ![l] = @ + 1]
  /\ msgs' = [msgs EXCEPT ![l] = <<Says("system"), Says("user")>>]
  /\ step' = [step EXCEPT ![l] = 0] /\ result' = [result EXCEPT ![l] = "none"]
  /\ LoopGoto(l, "chat")
  /\ UNCHANGED <<tools, mode, own, limit, pending, counted>>

\* Tree-of-Thought is declared, and answered with an error.
Reason(l, m, h, n) ==
  /\ loopAt[l] = "none"
  /\ mode' = [mode EXCEPT ![l] = m]
  /\ limit' = [limit EXCEPT ![l] = Limit(n)]
  /\ IF m = "tot"
       THEN ReturnsWith(l, "unsupported") /\ UNCHANGED msgs
       ELSE /\ Adds(l, <<Says("system")>> \o h \o <<Says("user")>>)
            /\ LoopGoto(l, "chat") /\ UNCHANGED result
  /\ UNCHANGED <<tools, own, step, pending, agentRuns, counted>>

-----------------------------------------------------------------------------
(* An answer of the provider                                               *)

\* The messages of a request: each with its role and content, without its calls
\* and without the id of the call it answers.
convertMessages(s) == [i \in DOMAIN s |-> [role |-> s[i].role, content |-> s[i].obs]]

\* What the provider has been asked with while a loop waits for its answer.
Request(l) == convertMessages(msgs[l])

ChatFails(l) ==
  /\ loopAt[l] = "chat"
  /\ ReturnsWith(l, "failed")
  /\ UNCHANGED <<tools, mode, own, limit, msgs, step, pending, agentRuns, counted>>

\* The calls that will be run.
Obeyed(l, finish, calls) ==
  CASE mode[l] = "agent" -> IF finish = "stop" THEN {} ELSE DOMAIN calls
    [] mode[l] = "react" -> IF finish = "tool_calls" THEN DOMAIN calls \cap {1} ELSE {}
    [] OTHER             -> {}

\* The provider's answer to Request(l): it has seen no call and no id, and may
\* answer anything.  With nothing to run it is the loop's answer.  react keeps an answer in the
\* history only if it has calls; nothing reads the history after the last one.
Answer(l, finish, calls) ==
  LET obeyed == Obeyed(l, finish, calls) IN
  /\ loopAt[l] = "chat"
  /\ Adds(l, <<Assistant(calls)>>)
  /\ counted' = [counted EXCEPT ![l] = IF mode[l] = "agent" THEN @ + 1 ELSE @]
  /\ pending' = [pending EXCEPT ![l] = obeyed]
  /\ IF obeyed = {} THEN ReturnsWith(l, "answer")
                    ELSE LoopGoto(l, "tools") /\ UNCHANGED result
  /\ UNCHANGED <<tools, mode, own, limit, step, agentRuns>>

-----------------------------------------------------------------------------
(* The tools                                                               *)

LastCalls(l) == SelectLastInSeq(msgs[l], LAMBDA m : m.role = "assistant")
FirstOf(S) == CHOOSE k \in S : \A j \in S : k <= j

\* What the loop writes into the history for a call.  The executor's "not
\* found" is an error like any other.
Observations(l, t) ==
  IF mode[l] = "agent"
    THEN IF t \in own[l] THEN {"result", "error"} ELSE {"unknown"}
    ELSE IF t \in tools THEN {"result", "error"} ELSE {"error"}

\* After the last of the calls the next step, if there is one.
AfterTool(l, left) ==
  /\ pending' = [pending EXCEPT ![l] = left]
  /\ IF left # {} THEN UNCHANGED <<loopAt, result, step>>
     ELSE /\ step' = [step EXCEPT ![l] = @ + 1]
          /\ IF step'[l] < limit[l] THEN LoopGoto(l, "chat") /\ UNCHANGED result
                                    ELSE ReturnsWith(l, "exceeded")

\* Variant for mutation: after an error the remaining calls are not run.
UseToolOrSkip(l) ==
  LET k == FirstOf(pending[l]) IN
  /\ loopAt[l] = "tools"
  /\ \E obs \in Observations(l, msgs[l][LastCalls(l)].calls[k]) :
       /\ Adds(l, <<Observed(k, obs)>>)
       /\ AfterTool(l, IF obs = "result" THEN pending[l] \ {k} ELSE {})
  /\ UNCHANGED <<tools, mode, own, limit, agentRuns, counted>>

\* Variant for mutation: the loop has no limit.
UseToolOnAndOn(l) ==
  LET k == FirstOf(pending[l]) IN
  /\ loopAt[l] = "tools"
  /\ \E obs \in Observations(l, msgs[l][LastCalls(l)].calls[k]) :
       msgs' = [msgs EXCEPT ![l] = <<Says("system"), Says("user")>>]
  /\ pending' = [pending EXCEPT ![l] = {}] /\ LoopGoto(l, "chat")
  /\ UNCHANGED <<tools, mode, own, limit, step, result, agentRuns, counted>>

\* executeTool and Executor.Execute: an error is an observation.
UseTool(l) ==
  LET k == FirstOf(pending[l]) IN
  /\ loopAt[l] = "tools"
  /\ \E obs \in Observations(l, msgs[l][LastCalls(l)].calls[k]) : Adds(l, <<Observed(k, obs)>>)
  /\ AfterTool(l, pending[l] \ {k})
  /\ UNCHANGED <<tools, mode, own, limit, agentRuns, counted>>

-----------------------------------------------------------------------------
Answered(l) ==
  \E finish \in {"stop", "tool_calls", "length"}, calls \in Answers : Answer(l, finish, calls)

LoopStep(l) == ChatFails(l) \/ Answered(l) \/ UseTool(l)

LoopNext ==
  \/ \E t \in ToolNames : RegisterTool(t)
  \/ \E l \in Loops :
       \/ \E ids \in SUBSET ToolNames, n \in StepLimits : Spawn(l, ids, n)
       \/ \E m \in {"react", "cot", "tot"}, h \in Histories, n \in StepLimits : Reason(l, m, h, n)
       \/ Run(l)
       \/ LoopStep(l)

\* The provider and the tools return.
LoopFairness == \A l \in Loops : WF_loopVars(LoopStep(l))

-----------------------------------------------------------------------------
(* Properties                                                              *)

\* The calls of the i-th message that the messages after it answer, in order.
AnswersAfter(l, i) ==
  LET rest  == SubSeq(msgs[l], i + 1, Len(msgs[l]))
      other == SelectInSeq(rest, LAMBDA m : m.role # "tool") IN
  [j \in 1..(IF other = 0 THEN Len(rest) ELSE other - 1) |-> rest[j].for]

\* The calls of a message that its loop runs before it asks again.
Obliged(l, calls) == {k \in DOMAIN calls : mode[l] = "agent" \/ k = 1}

\* Whenever an agent asks the provider, each call of its history is followed
\* by its own answer, in the order of the calls, whatever errors, unknown
\* tools, limits and earlier runs there were; in react, the first call is
\* (agent.go:221, reasoning.go:125).  The request does not say what a tool's
\* message answers (openai.go:146): its place does, and there the provider
\* finds what that tool gave.
HistoryAnswered ==
  \A l \in Loops : loopAt[l] = "chat" =>
    \A i \in {j \in DOMAIN msgs[l] : msgs[l][j].role = "assistant"} :
      LET calls == msgs[l][i].calls IN
      /\ AnswersAfter(l, i) = [k \in Obliged(l, calls) |-> k]
      /\ \A k \in Obliged(l, calls) :
           /\ Request(l)[i + k].role = "tool"
           /\ Request(l)[i + k].content \in Observations(l, calls[k])

\* A loop that has begun returns, within its limit of steps.
LoopEnds ==
  \A l \in Loops : loopAt[l] = "chat" ~> loopAt[l] = "done" /\ step[l] <= limit[l]
=============================================================================
