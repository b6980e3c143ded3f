----------------------------- MODULE SdkClient ------------------------------
(***************************************************************************)
(* A client of the Go SDK (pkg/client): goroutines that log in, refresh,   *)
(* and call the API through one Client, whose three token fields they      *)
(* share.  The lock covers the reading and the writing of the fields but   *)
(* not the request in between, so goroutines overwrite each other's        *)
(* tokens; requests are repeated with a growing wait.                      *)
(*                                                                         *)
(* A request reaches the server, and its answer the client, within         *)
(* MaxDelay, the HTTP client's timeout.  Goroutines here call EnsureFresh  *)
(* before a call of the API, the way EnsureFresh is meant to be used.  The *)
(* client has no API key.                                                  *)
(***************************************************************************)
EXTENDS AuthServer, Sequences, FiniteSets

CONSTANTS
  Procs,        \* goroutines
  Margin,       \* of EnsureFresh (1 min)
  MaxDelay,     \* the HTTP client's timeout (30 s)
  MaxRetries,   \* cfg.MaxRetries
  RetryWait,    \* cfg.RetryWait
  MaxWait,      \* the longest wait (30 s)
  MaxTime,      \* bound: the time after which only waits pass
  MaxCalls      \* bound: operations the goroutines begin, together

ASSUME MarginAssumption ==
  /\ Margin \in Nat /\ MaxDelay \in Nat /\ MaxRetries \in Nat
  /\ RetryWait \in Nat /\ MaxWait \in Nat /\ MaxTime \in Nat /\ MaxCalls \in Nat
  /\ AccessExpiry > Margin + MaxDelay

VARIABLES
  store,   \* accessToken, refreshToken and tokenExpiry
  pc,      \* where each goroutine is
  task,    \* what it is doing, as below
  calls    \* operations begun

sdkVars == <<now, store, pc, task, calls>>

Ops == {"none", "login", "refresh", "call"}

\* A goroutine's own state: the operation, the token its request carries (in
\* the header or in the body), when the attempt was sent, the answer, the loop
\* variable of do, the end of its wait, when EnsureFresh returned nil, how
\* often the call took effect and how many 5xx answers it was given.
Idle == [op |-> "none", token |-> NoToken, at |-> 0, reply |-> Answer(400, NoPair),
         attempt |-> 0, wake |-> 0, ensured |-> 0, effects |-> 0, refused |-> 0]

Tasks ==
  [op : Ops, token : Tokens \cup {NoToken}, at : Nat,
   reply : [code : {200, 400, 401, 429, 500}, pair : Pairs],
   attempt : 0..MaxRetries, wake : Int, ensured : Nat, effects : Nat, refused : Nat]

\* A pair with tokens: the access token says the pair's expiry.
IsIssued(pair) ==
  /\ pair.access # NoToken /\ pair.refresh # NoToken
  /\ pair.access.exp = NumericDate(pair.expiry)

SdkTypeOK ==
  /\ now \in Nat
  /\ store \in Pairs /\ (store = NoPair \/ IsIssued(store))
  /\ pc \in [Procs -> {"idle", "send", "sent", "answered", "waiting"}]
  /\ task \in [Procs -> Tasks]
  /\ \A p \in Procs : task[p].reply.pair = NoPair \/ IsIssued(task[p].reply.pair)
  /\ calls \in 0..MaxCalls

SdkInit ==
  /\ now = 0
  /\ store = NoPair
  /\ pc = [p \in Procs |-> "idle"]
  /\ task = [p \in Procs |-> Idle]
  /\ calls = 0

Goto(p, label) == pc' = [pc EXCEPT ![p] = label]

\* The operation is over, with or without an error.
Return(p) == Goto(p, "idle") /\ task' = [task EXCEPT ![p] = Idle]

Begin ==
  /\ calls < MaxCalls
  /\ calls' = calls + 1

-----------------------------------------------------------------------------
(* AuthClient                                                              *)

Login(p) ==
  /\ pc[p] = "idle" /\ Begin
  /\ task' = [task EXCEPT ![p].op = "login"]
  /\ Goto(p, "send")
  /\ UNCHANGED <<now, store>>

\* time.Until(expiry) > time.Minute
Fresh == store.expiry - now > Margin

\* Variant for mutation: a token is fresh as long as it is valid.
EnsureFreshNoMargin(p) ==
  /\ pc[p] = "idle" /\ Begin
  /\ store.expiry > now
  /\ task' = [task EXCEPT ![p].op = "call", ![p].ensured = now]
  /\ Goto(p, "send")
  /\ UNCHANGED <<now, store>>

\* EnsureFresh finds the token fresh and returns nil: on to the call.
EnsureFresh(p) ==
  /\ pc[p] = "idle" /\ Begin
  /\ Fresh
  /\ task' = [task EXCEPT ![p].op = "call", ![p].ensured = now]
  /\ Goto(p, "send")
  /\ UNCHANGED <<now, store>>

\* Refresh, by EnsureFresh when the token is not fresh or by a goroutine of its
\* own accord.  It reads the refresh token and sends it in the body, the same in
\* every attempt; without one it returns an error and nothing changes.  The pair
\* it gets is fresh, so the call that follows finds it so (EnsureFresh).
Refresh(p) ==
  /\ pc[p] = "idle" /\ Begin
  /\ store.refresh # NoToken
  /\ task' = [task EXCEPT ![p].op = "refresh", ![p].token = store.refresh]
  /\ Goto(p, "send")
  /\ UNCHANGED <<now, store>>

-----------------------------------------------------------------------------
(* do, requestOnce and the server                                          *)

\* setAuth reads the access token for every attempt.
Send(p) ==
  /\ pc[p] = "send"
  /\ task' = [task EXCEPT ![p].at = now,
                          ![p].token = IF task[p].op = "refresh" THEN @ ELSE store.access]
  /\ Goto(p, "sent")
  /\ UNCHANGED <<now, store, calls>>

Answers(t) ==
  CASE t.op = "login"   -> HandleLogin
    [] t.op = "refresh" -> {HandleRefresh(t.token), Answer(500, NoPair)}
    [] t.op = "call"    -> IF Validate(t.token)
                             THEN {RequireAuth(t.token), RateLimited, Answer(500, NoPair)}
                             ELSE {RequireAuth(t.token)}

\* How often a request answered so took effect: one answered with 500 may
\* have.  Only the calls of the API are counted, not the tokens issued.
Effects(op, code) ==
  CASE op = "call" /\ code = 200 -> {1}
    [] op = "call" /\ code = 500 -> {0, 1}
    [] OTHER                      -> {0}

Answered(t, a, e) ==
  [t EXCEPT !.reply = a,
            !.effects = t.effects + e,
            !.refused = t.refused + IF t.op = "call" /\ a.code = 500 THEN 1 ELSE 0]

Serve(p) ==
  /\ pc[p] = "sent"
  /\ \E a \in Answers(task[p]) : \E e \in Effects(task[p].op, a.code) :
       task' = [task EXCEPT ![p] = Answered(@, a, e)]
  /\ Goto(p, "answered")
  /\ UNCHANGED <<now, store, calls>>

\* No answer, or none in time: the error is no APIError and is not retried.
NetworkFails(p) ==
  /\ pc[p] \in {"sent", "answered"}
  /\ Return(p)
  /\ UNCHANGED <<now, store, calls>>

\* SetToken, whatever was stored meanwhile.
SetToken(p) ==
  /\ pc[p] = "answered" /\ task[p].reply.code = 200 /\ task[p].op # "call"
  /\ store' = task[p].reply.pair
  /\ Return(p)
  /\ UNCHANGED <<now, calls>>

CallDone(p) ==
  /\ pc[p] = "answered" /\ task[p].reply.code = 200 /\ task[p].op = "call"
  /\ Return(p)
  /\ UNCHANGED <<now, store, calls>>

\* 429 and 5xx, whatever the method.
Retryable(code) == code = 429 \/ code >= 500

\* Not retryable, or the last attempt: do returns the error.
GivesUp(p) ==
  /\ pc[p] = "answered" /\ task[p].reply.code # 200
  /\ Retryable(task[p].reply.code) => task[p].attempt = MaxRetries
  /\ Return(p)
  /\ UNCHANGED <<now, store, calls>>

Least(x, y) == IF x < y THEN x ELSE y

\* The wait doubles up to its limit; the jitter adds up to a quarter.
Backoff(k) ==
  LET exp == Least(2^k * RetryWait, MaxWait)
  IN  exp .. exp + exp \div 4

\* The wait: the attempt is forgotten, but for the body of the request.
Asleep(t, w) ==
  [t EXCEPT !.wake = now + w, !.at = 0, !.reply = Idle.reply,
            !.token = IF t.op = "refresh" THEN t.token ELSE NoToken]

Sleep(p, w) == task' = [task EXCEPT ![p] = Asleep(@, w)] /\ Goto(p, "waiting")

\* Variant for mutation: a request is sent again whenever its answer is lost.
RetryAll(p) ==
  /\ pc[p] = "answered" /\ task[p].attempt < MaxRetries
  /\ \E w \in Backoff(task[p].attempt) : Sleep(p, w)
  /\ UNCHANGED <<now, store, calls>>

\* Variant for mutation: on to the next attempt, unless it was the last, without
\* counting it or waiting.
RetryAtOnce(p) ==
  /\ pc[p] = "answered" /\ Retryable(task[p].reply.code)
  /\ task[p].attempt < MaxRetries
  /\ Goto(p, "send")
  /\ UNCHANGED <<now, store, task, calls>>

Retry(p) ==
  /\ pc[p] = "answered" /\ Retryable(task[p].reply.code)
  /\ task[p].attempt < MaxRetries
  /\ \E w \in Backoff(task[p].attempt) : Sleep(p, w)
  /\ UNCHANGED <<now, store, calls>>

Wakes(p) ==
  /\ pc[p] = "waiting" /\ now >= task[p].wake
  /\ task' = [task EXCEPT ![p].attempt = @ + 1, ![p].wake = 0]
  /\ Goto(p, "send")
  /\ UNCHANGED <<now, store, calls>>

\* The caller's context ends during the wait.
Cancelled(p) ==
  /\ pc[p] = "waiting"
  /\ Return(p)
  /\ UNCHANGED <<now, store, calls>>

\* A request is under way for at most MaxDelay.
SdkTick ==
  /\ now < MaxTime \/ \E p \in Procs : pc[p] = "waiting" /\ now < task[p].wake
  /\ \A p \in Procs :
       pc[p] \in {"sent", "answered"} => now < task[p].at + MaxDelay
  /\ now' = now + 1
  /\ UNCHANGED <<store, pc, task, calls>>

-----------------------------------------------------------------------------
Do(p) ==
  \/ Send(p) \/ Serve(p) \/ SetToken(p) \/ CallDone(p) \/ GivesUp(p)
  \/ Retry(p) \/ Wakes(p)

SdkNext ==
  \/ \E p \in Procs : \/ Login(p) \/ EnsureFresh(p) \/ Refresh(p)
                      \/ Do(p) \/ NetworkFails(p) \/ Cancelled(p)
  \/ SdkTick

SdkSpec == SdkInit /\ [][SdkNext]_sdkVars

\* The client's goroutines run, the server answers and time passes.
SdkFairness ==
  /\ WF_sdkVars(SdkTick)
  /\ \A p \in Procs : WF_sdkVars(Do(p))

SdkFairSpec == SdkSpec /\ SdkFairness

-----------------------------------------------------------------------------
(* Properties                                                              *)

\* EnsureFresh does what its margin is for, but for the second that a token's
\* expiry is rounded by: an attempt that reaches the server while the margin
\* lasts is not answered with 401, whatever the other goroutines stored in
\* between, late answers included.
EnsuredAccepted ==
  \A p \in Procs :
    task[p].op = "call" /\ pc[p] = "answered" /\ task[p].reply.code = 401 =>
      now > task[p].ensured + Margin - Second

\* A call that returns nil took effect, and one takes effect more than once
\* only by as many 5xx answers as it was given.
EffectsExplained ==
  \A p \in Procs :
    task[p].op = "call" =>
      IF pc[p] = "answered" /\ task[p].reply.code = 200
        THEN task[p].effects \in 1 .. task[p].refused + 1
        ELSE task[p].effects <= task[p].refused

\* Every request returns: it is answered, fails or is retried to the end.
RequestReturns == \A p \in Procs : pc[p] = "send" ~> pc[p] = "idle"
=============================================================================
