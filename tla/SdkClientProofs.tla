-------------------------- MODULE SdkClientProofs ---------------------------
(***************************************************************************)
(* Proofs about SdkClient, for any number of goroutines, any delays and    *)
(* any number of requests.  Inv adds to the properties what EnsuredAccepted *)
(* rests on: an answer is never older than MaxDelay (Prompt), so a pair    *)
(* that is about to be stored still outlives the margin (LongLived), so    *)
(* whatever is stored after EnsureFresh returned outlives its margin too   *)
(* (Covered), and so does the token a request carries (Carries).           *)
(***************************************************************************)
EXTENDS SdkClient, TLAPS

Busy == \A p \in Procs : pc[p] = "idle" <=> task[p].op = "none"

Counted == \A p \in Procs : pc[p] = "waiting" => task[p].attempt < MaxRetries

Prompt ==
  \A p \in Procs :
    pc[p] \in {"sent", "answered"} => task[p].at <= now /\ now <= task[p].at + MaxDelay

LongLived ==
  \A p \in Procs :
    pc[p] = "answered" /\ task[p].op # "call" /\ task[p].reply.code = 200 =>
      /\ IsIssued(task[p].reply.pair)
      /\ task[p].reply.pair.expiry >= task[p].at + AccessExpiry

Covered ==
  \A p \in Procs :
    task[p].op = "call" =>
      /\ task[p].ensured <= now
      /\ IsIssued(store)
      /\ store.expiry > task[p].ensured + Margin

Carries ==
  \A p \in Procs :
    task[p].op = "call" /\ pc[p] = "sent" =>
      /\ task[p].token # NoToken
      /\ task[p].token.exp > task[p].ensured + Margin - Second

Inv ==
  SdkTypeOK /\ Busy /\ Counted /\ Prompt /\ LongLived /\ Covered /\ Carries /\ EnsuredAccepted

-----------------------------------------------------------------------------
(* What the server issues                                                  *)

LEMMA NumericDateRounds ==
  ASSUME NEW t \in Nat
  PROVE  /\ NumericDate(t) \in Nat
         /\ NumericDate(t) <= t
         /\ NumericDate(t) > t - Second
<1>1. Second \in Nat /\ Second > 0
  BY ExpiryAssumption
<1>2. t % Second \in 0 .. Second - 1
  BY <1>1
<1>3. t % Second <= t
  BY <1>1
<1> QED
  BY <1>1, <1>2, <1>3 DEF NumericDate

LEMMA IssueOK ==
  ASSUME now \in Nat
  PROVE  Issue \in Pairs /\ IsIssued(Issue) /\ Issue.expiry = now + AccessExpiry
<1>1. now + AccessExpiry \in Nat /\ now + RefreshExpiry \in Nat
  BY ExpiryAssumption
<1>2. NumericDate(now + AccessExpiry) \in Nat /\ NumericDate(now + RefreshExpiry) \in Nat
  BY <1>1, NumericDateRounds
<1>3. [exp |-> NumericDate(now + AccessExpiry)] \in [exp : Nat]
      /\ [exp |-> NumericDate(now + RefreshExpiry)] \in [exp : Nat]
  BY <1>2
<1> QED
  BY <1>1, <1>3, ExpiryAssumption DEF Issue, Pairs, Tokens, IsIssued

\* A pair with tokens is good for the pair's expiry, but for less than a second.
LEMMA IssuedExpiry ==
  ASSUME NEW pair \in Pairs, IsIssued(pair)
  PROVE  /\ pair.access \in Tokens /\ pair.expiry \in Nat
         /\ pair.access.exp \in Nat /\ pair.access.exp > pair.expiry - Second
<1>1. pair.access \in Tokens /\ pair.expiry \in Nat
  BY DEF Pairs, IsIssued
<1> QED
  BY <1>1, NumericDateRounds DEF IsIssued, Tokens

Replies == [code : {200, 400, 401, 429, 500}, pair : Pairs]

\* A login or a refresh that is accepted is given a pair of this moment; a call
\* is turned away only if its token is missing or over.
LEMMA AnswersOK ==
  ASSUME now \in Nat, NEW t \in Tasks, t.op # "none", NEW a \in Answers(t)
  PROVE  /\ a \in Replies
         /\ a.pair = NoPair \/ IsIssued(a.pair)
         /\ t.op # "call" /\ a.code = 200 => a.pair = Issue
         /\ t.op = "call" /\ a.code = 401 => ~ Validate(t.token)
<1>1. t.op \in {"login", "refresh", "call"}
  BY DEF Tasks, Ops
<1>2. Issue \in Pairs /\ IsIssued(Issue) /\ NoPair \in Pairs
  BY IssueOK DEF NoPair, Pairs
<1>3. CASE t.op = "login"
  BY <1>2, <1>3 DEF Answers, HandleLogin, Answer, Replies
<1>4. CASE t.op = "refresh"
  <2>1. a = HandleRefresh(t.token) \/ a = Answer(500, NoPair)
    BY <1>4 DEF Answers
  <2> QED
    BY <1>2, <1>4, <2>1 DEF HandleRefresh, Answer, Replies
<1>5. CASE t.op = "call"
  BY <1>2, <1>5 DEF Answers, RequireAuth, RateLimited, Answer, Replies
<1> QED
  BY <1>1, <1>3, <1>4, <1>5

-----------------------------------------------------------------------------
(* The invariant                                                           *)

LEMMA InitInv == SdkInit => Inv
<1> SUFFICES ASSUME SdkInit PROVE Inv
  OBVIOUS
<1>1. Idle \in Tasks /\ NoPair \in Pairs
  BY MarginAssumption DEF Idle, Tasks, Ops, NoPair, Pairs, Answer
<1>2. SdkTypeOK
  BY <1>1, MarginAssumption DEF SdkInit, SdkTypeOK, Idle, Answer
<1>3. Busy /\ Counted /\ Prompt /\ LongLived /\ Covered /\ Carries /\ EnsuredAccepted
  BY DEF SdkInit, Busy, Counted, Prompt, LongLived, Covered, Carries, EnsuredAccepted, Idle
<1> QED
  BY <1>2, <1>3 DEF Inv

-----------------------------------------------------------------------------
(* Steps that leave the time and the store alone                           *)

Labels == {"idle", "send", "sent", "answered", "waiting"}

\* What Inv says of a goroutine that is at l with task t.
Good(t, l) ==
  /\ t \in Tasks /\ l \in Labels
  /\ t.reply.pair = NoPair \/ IsIssued(t.reply.pair)
  /\ l = "idle" <=> t.op = "none"
  /\ l = "waiting" => t.attempt < MaxRetries
  /\ l \in {"sent", "answered"} => t.at <= now /\ now <= t.at + MaxDelay
  /\ l = "answered" /\ t.op # "call" /\ t.reply.code = 200 =>
       IsIssued(t.reply.pair) /\ t.reply.pair.expiry >= t.at + AccessExpiry
  /\ t.op = "call" =>
       t.ensured <= now /\ IsIssued(store) /\ store.expiry > t.ensured + Margin
  /\ t.op = "call" /\ l = "sent" =>
       t.token # NoToken /\ t.token.exp > t.ensured + Margin - Second
  /\ t.op = "call" /\ l = "answered" /\ t.reply.code = 401 =>
       now > t.ensured + Margin - Second

LEMMA InvGood == ASSUME Inv, NEW p \in Procs PROVE Good(task[p], pc[p])
BY DEF Inv, SdkTypeOK, Busy, Counted, Prompt, LongLived, Covered, Carries, EnsuredAccepted,
       Good, Labels

\* A task is still one after one of its fields is given another value.
LEMMA With ==
  ASSUME NEW t \in Tasks
  PROVE  /\ \A o \in Ops : [t EXCEPT !.op = o] \in Tasks
         /\ \A k \in Tokens \cup {NoToken} : [t EXCEPT !.token = k] \in Tasks
         /\ \A n \in Nat : /\ [t EXCEPT !.at = n] \in Tasks
                           /\ [t EXCEPT !.ensured = n] \in Tasks
                           /\ [t EXCEPT !.effects = n] \in Tasks
                           /\ [t EXCEPT !.refused = n] \in Tasks
         /\ \A a \in Replies : [t EXCEPT !.reply = a] \in Tasks
         /\ \A i \in 0..MaxRetries : [t EXCEPT !.attempt = i] \in Tasks
         /\ \A w \in Int : [t EXCEPT !.wake = w] \in Tasks
BY DEF Tasks, Replies

LEMMA OwnStep ==
  ASSUME Inv, NEW p \in Procs, NEW t, NEW l, Good(t, l),
         task' = [task EXCEPT ![p] = t], pc' = [pc EXCEPT ![p] = l],
         calls' \in 0..MaxCalls, UNCHANGED <<now, store>>
  PROVE  Inv'
<1>1. \A q \in Procs : Good(task'[q], pc'[q])
  BY InvGood DEF Inv, SdkTypeOK
<1>2. IsIssued(store)' = IsIssued(store)
  BY DEF IsIssued
<1>3. SdkTypeOK'
  BY <1>1 DEF Inv, SdkTypeOK, Good, Labels, IsIssued
<1>4. Busy' /\ Counted' /\ Prompt' /\ Carries' /\ EnsuredAccepted'
  BY <1>1 DEF Good, Busy, Counted, Prompt, Carries, EnsuredAccepted
<1>5. LongLived' /\ Covered'
  BY <1>1, <1>2 DEF Good, LongLived, Covered, IsIssued
<1> QED
  BY <1>3, <1>4, <1>5 DEF Inv
-----------------------------------------------------------------------------
(* One lemma per operation of a goroutine                                  *)

IdleOK == Idle \in Tasks /\ Good(Idle, "idle")

LEMMA IdleGood == Inv => IdleOK
BY MarginAssumption
   DEF IdleOK, Inv, SdkTypeOK, Good, Labels, Idle, Tasks, Ops, NoPair, Pairs, Answer

LEMMA ReturnInv ==
  ASSUME Inv, NEW p \in Procs, Return(p), UNCHANGED <<now, store, calls>>
  PROVE  Inv'
BY IdleGood, OwnStep DEF IdleOK, Return, Goto, Inv, SdkTypeOK

LEMMA BeginOK == ASSUME Inv, Begin PROVE calls' \in 0..MaxCalls
BY MarginAssumption DEF Inv, SdkTypeOK, Begin

LEMMA LoginInv == ASSUME Inv, NEW p \in Procs, Login(p) PROVE Inv'
<1> DEFINE t == [task[p] EXCEPT !.op = "login"]
<1>1. Good(t, "send")
  BY InvGood DEF Login, Good, Tasks, Ops, Labels
<1>2. task' = [task EXCEPT ![p] = t] /\ pc' = [pc EXCEPT ![p] = "send"]
  BY DEF Login, Goto
<1> HIDE DEF t
<1> QED
  BY <1>1, <1>2, BeginOK, OwnStep DEF Login

\* The one place where the margin is compared: from here on the goroutine is
\* Covered.
LEMMA EnsureFreshInv == ASSUME Inv, NEW p \in Procs, EnsureFresh(p) PROVE Inv'
<1> DEFINE t == [task[p] EXCEPT !.op = "call", !.ensured = now]
<1>1. store.expiry > now + Margin /\ IsIssued(store)
  <2>1. now \in Nat /\ store \in Pairs /\ Margin \in Nat
    BY MarginAssumption DEF Inv, SdkTypeOK
  <2>2. store.expiry \in Nat /\ store.expiry - now > Margin
    BY <2>1 DEF Pairs, EnsureFresh, Fresh
  <2>3. store # NoPair
    BY <2>1, <2>2 DEF NoPair
  <2> QED
    BY <2>1, <2>2, <2>3 DEF Inv, SdkTypeOK
<1>2. Good(t, "send")
  <2>1. task[p] \in Tasks /\ now \in Nat
    BY InvGood DEF Good, Inv, SdkTypeOK
  <2>2. t \in Tasks
    BY <2>1, With DEF Ops
  <2>4. t.op = "call" /\ t.ensured = now /\ t.reply = task[p].reply
    BY <2>1 DEF Tasks
  <2>3. Good(task[p], "idle")
    BY InvGood DEF EnsureFresh
  <2> HIDE DEF t
  <2> QED
    BY <1>1, <2>1, <2>2, <2>3, <2>4 DEF Good, Labels
<1>3. task' = [task EXCEPT ![p] = t] /\ pc' = [pc EXCEPT ![p] = "send"]
  BY DEF EnsureFresh, Goto
<1> HIDE DEF t
<1> QED
  BY <1>2, <1>3, BeginOK, OwnStep DEF EnsureFresh

LEMMA RefreshInv == ASSUME Inv, NEW p \in Procs, Refresh(p) PROVE Inv'
<1> DEFINE t == [task[p] EXCEPT !.op = "refresh", !.token = store.refresh]
<1>1. store.refresh \in Tokens \cup {NoToken}
  BY DEF Inv, SdkTypeOK, Pairs
<1>2. Good(t, "send")
  <2>1. task[p] \in Tasks
    BY InvGood DEF Good
  <2>2. t \in Tasks
    BY <1>1, <2>1, With DEF Ops
  <2>4. t.op = "refresh" /\ t.reply = task[p].reply
    BY <2>1 DEF Tasks
  <2>3. Good(task[p], "idle")
    BY InvGood DEF Refresh
  <2> HIDE DEF t
  <2> QED
    BY <2>2, <2>3, <2>4 DEF Good, Labels
<1>3. task' = [task EXCEPT ![p] = t] /\ pc' = [pc EXCEPT ![p] = "send"]
  BY DEF Refresh, Goto
<1> HIDE DEF t
<1> QED
  BY <1>2, <1>3, BeginOK, OwnStep DEF Refresh

\* The token sent is the stored one, which outlives the margin.
LEMMA SendInv == ASSUME Inv, NEW p \in Procs, Send(p) PROVE Inv'
<1> DEFINE carried == IF task[p].op = "refresh" THEN task[p].token ELSE store.access
           t == [task[p] EXCEPT !.at = now, !.token = carried]
<1>1. carried \in Tokens \cup {NoToken} /\ now \in Nat /\ store \in Pairs /\ Second \in Nat
  BY InvGood, ExpiryAssumption DEF Inv, SdkTypeOK, Pairs, Good, Tasks
<1>2. task[p].op = "call" =>
        carried # NoToken /\ carried.exp > task[p].ensured + Margin - Second
  <2> SUFFICES ASSUME task[p].op = "call"
               PROVE  carried # NoToken /\ carried.exp > task[p].ensured + Margin - Second
    OBVIOUS
  <2>1. IsIssued(store) /\ store.expiry > task[p].ensured + Margin
        /\ task[p].ensured \in Nat /\ Margin \in Nat
    BY InvGood, MarginAssumption DEF Good, Tasks
  <2>2. store.access.exp \in Nat /\ store.access.exp > store.expiry - Second
        /\ store.expiry \in Nat /\ store.access # NoToken
    BY <1>1, <2>1, IssuedExpiry DEF IsIssued
  <2> QED
    BY <1>1, <2>1, <2>2
<1>3. Good(t, "sent")
  <2>0. task[p] \in Tasks
    BY InvGood DEF Good
  <2>1. t \in Tasks
    <3> HIDE DEF carried
    <3> QED
      BY <1>1, <2>0, With
  <2>3. t.op = task[p].op /\ t.token = carried /\ t.at = now
        /\ t.ensured = task[p].ensured /\ t.reply = task[p].reply
    <3> HIDE DEF carried
    <3> QED
      BY <2>0 DEF Tasks
  <2>2. Good(task[p], "send")
    BY InvGood DEF Send
  <2> HIDE DEF t, carried
  <2> QED
    BY <1>1, <1>2, <2>1, <2>2, <2>3, MarginAssumption DEF Good, Labels
<1>4. task' = [task EXCEPT ![p] = t] /\ pc' = [pc EXCEPT ![p] = "sent"]
  BY DEF Send, Goto
<1> HIDE DEF t
<1> QED
  BY <1>3, <1>4, OwnStep DEF Send, Inv, SdkTypeOK
\* An answer: for a login or a refresh a pair of this moment, for a call a 401
\* only if its token is over.
LEMMA ServeInv == ASSUME Inv, NEW p \in Procs, Serve(p) PROVE Inv'
<1>1. PICK a \in Answers(task[p]) :
        \E e \in Effects(task[p].op, a.code) :
          task' = [task EXCEPT ![p] = Answered(@, a, e)]
  BY DEF Serve
<1>6. PICK e \in Effects(task[p].op, a.code) :
        task' = [task EXCEPT ![p] = Answered(task[p], a, e)]
  BY <1>1
<1> DEFINE refused == task[p].refused + IF task[p].op = "call" /\ a.code = 500 THEN 1 ELSE 0
           effects == task[p].effects + e
           t == Answered(task[p], a, e)
<1>2. Good(task[p], "sent") /\ task[p] \in Tasks /\ task[p].op # "none" /\ now \in Nat
  BY InvGood DEF Serve, Good, Inv, SdkTypeOK
<1>3. /\ a \in Replies
      /\ a.pair = NoPair \/ IsIssued(a.pair)
      /\ task[p].op # "call" /\ a.code = 200 => a.pair = Issue
      /\ task[p].op = "call" /\ a.code = 401 => ~ Validate(task[p].token)
  BY <1>2, AnswersOK
<1>4. refused \in Nat /\ effects \in Nat
  <2>1. e \in {0, 1}
    BY DEF Effects
  <2>2. task[p].refused \in Nat /\ task[p].effects \in Nat
    BY <1>2 DEF Tasks
  <2> QED
    BY <2>1, <2>2
<1>5. Good(t, "answered")
  <2>0. t \in Tasks
    <3>1. t = [task[p] EXCEPT !.reply = a, !.effects = effects, !.refused = refused]
      BY DEF Answered
    <3> HIDE DEF refused, effects, t
    <3> QED
      BY <1>2, <1>3, <1>4, <3>1, With
  <2>1. /\ t.op = task[p].op /\ t.token = task[p].token /\ t.at = task[p].at
        /\ t.ensured = task[p].ensured /\ t.reply = a
    BY <1>2 DEF Tasks, Answered
  <2>2. t.op # "call" /\ a.code = 200 =>
          IsIssued(a.pair) /\ a.pair.expiry >= t.at + AccessExpiry
    <3>1. t.at \in Nat /\ t.at <= now /\ AccessExpiry \in Nat
      BY <1>2, <2>1, ExpiryAssumption DEF Good, Tasks
    <3> QED
      BY <1>2, <1>3, <2>1, <3>1, IssueOK
  <2>3. t.op = "call" /\ a.code = 401 => now > t.ensured + Margin - Second
    <3> SUFFICES ASSUME t.op = "call", a.code = 401
                 PROVE  now > t.ensured + Margin - Second
      OBVIOUS
    <3>1. t.token \in Tokens /\ t.token # NoToken
          /\ t.token.exp > t.ensured + Margin - Second
      BY <1>2, <2>1 DEF Good, Tasks
    <3>2. now >= t.token.exp
      BY <1>2, <1>3, <2>1, <3>1 DEF Validate, Tokens
    <3> QED
      BY <1>2, <2>1, <3>1, <3>2, MarginAssumption, ExpiryAssumption DEF Tokens, Tasks
  <2> HIDE DEF t
  <2> QED
    BY <1>2, <1>3, <2>0, <2>1, <2>2, <2>3 DEF Good, Labels
<1>7. task' = [task EXCEPT ![p] = t] /\ pc' = [pc EXCEPT ![p] = "answered"]
  BY <1>6 DEF Serve, Goto
<1> HIDE DEF t
<1> QED
  BY <1>5, <1>7, OwnStep DEF Serve, Inv, SdkTypeOK
\* A pair that is stored is at most MaxDelay old, so it covers every call that
\* EnsureFresh let pass, whatever pair that was for.
LEMMA SetTokenInv == ASSUME Inv, NEW p \in Procs, SetToken(p) PROVE Inv'
<1> DEFINE pair == task[p].reply.pair
<1>1. Good(task[p], "answered") /\ task[p] \in Tasks /\ now \in Nat
  BY InvGood DEF SetToken, Good, Inv, SdkTypeOK
<1>2. IsIssued(pair) /\ pair \in Pairs /\ pair.expiry \in Nat
  BY <1>1 DEF SetToken, Good, Tasks, Pairs
<1>3. pair.expiry > now + Margin
  <2>1. task[p].at \in Nat /\ now <= task[p].at + MaxDelay
        /\ pair.expiry >= task[p].at + AccessExpiry
    BY <1>1 DEF SetToken, Good, Tasks
  <2> QED
    BY <1>1, <1>2, <2>1, MarginAssumption, ExpiryAssumption
<1>4. /\ store' = pair /\ UNCHANGED <<now, calls>>
      /\ task' = [task EXCEPT ![p] = Idle] /\ pc' = [pc EXCEPT ![p] = "idle"]
  BY DEF SetToken, Return, Goto
<1>5. \A q \in Procs : q # p => Good(task[q], pc[q]) /\ task'[q] = task[q] /\ pc'[q] = pc[q]
  BY <1>4, InvGood DEF Inv, SdkTypeOK
<1>6. Idle \in Tasks /\ Good(Idle, "idle") /\ task'[p] = Idle /\ pc'[p] = "idle"
  BY <1>4, IdleGood DEF IdleOK, Inv, SdkTypeOK
<1>7. Idle.op = "none" /\ Idle.reply.pair = NoPair
  BY DEF Idle, Answer
<1> HIDE DEF pair
<1>8. SdkTypeOK'
  BY <1>2, <1>4, <1>5, <1>6, <1>7 DEF Inv, SdkTypeOK, Good, Labels, IsIssued
<1>9. Busy' /\ Counted' /\ Prompt' /\ Carries' /\ EnsuredAccepted'
  BY <1>4, <1>5, <1>6, <1>7 DEF Good, Busy, Counted, Prompt, Carries, EnsuredAccepted
<1>10. LongLived'
  BY <1>4, <1>5, <1>6, <1>7 DEF Good, LongLived, IsIssued
<1>11. Covered'
  <2> SUFFICES ASSUME NEW q \in Procs, task'[q].op = "call"
               PROVE  /\ task'[q].ensured <= now'
                      /\ IsIssued(store')
                      /\ store'.expiry > task'[q].ensured + Margin
    BY DEF Covered, IsIssued
  <2>1. q # p
    BY <1>6, <1>7
  <2>2. task[q].ensured <= now /\ task[q].ensured \in Nat /\ task'[q] = task[q]
    BY <1>5, <2>1 DEF Good, Tasks
  <2> QED
    BY <1>1, <1>2, <1>3, <1>4, <2>2, MarginAssumption
<1> QED
  BY <1>8, <1>9, <1>10, <1>11 DEF Inv
LEMMA RetryInv == ASSUME Inv, NEW p \in Procs, Retry(p) PROVE Inv'
<1>1. PICK w \in Backoff(task[p].attempt) : Sleep(p, w)
  BY DEF Retry
<1> DEFINE kept == IF task[p].op = "refresh" THEN task[p].token ELSE NoToken
           t == Asleep(task[p], w)
<1>2. Good(task[p], "answered") /\ task[p] \in Tasks /\ now \in Nat
  BY InvGood DEF Retry, Good, Inv, SdkTypeOK
<1>3. w \in Int /\ kept \in Tokens \cup {NoToken}
  BY <1>2 DEF Backoff, Tasks
<1>4. Idle.reply \in Replies /\ Idle.reply.pair = NoPair
  BY DEF Idle, Answer, Replies, NoPair, Pairs
<1>5. Good(t, "waiting")
  <2>1. t \in Tasks
    <3>1. t = [task[p] EXCEPT !.wake = now + w, !.at = 0, !.reply = Idle.reply, !.token = kept]
      BY DEF Asleep
    <3>2. now + w \in Int
      BY <1>2, <1>3
    <3> HIDE DEF kept, t
    <3> QED
      BY <1>2, <1>3, <1>4, <3>1, <3>2, With
  <2>2. t.op = task[p].op /\ t.ensured = task[p].ensured /\ t.reply = Idle.reply
        /\ t.attempt = task[p].attempt
    BY <1>2 DEF Tasks, Asleep
  <2> HIDE DEF t
  <2> QED
    BY <1>2, <1>4, <2>1, <2>2 DEF Good, Labels, Retry
<1>6. task' = [task EXCEPT ![p] = t] /\ pc' = [pc EXCEPT ![p] = "waiting"]
  BY <1>1 DEF Sleep, Goto
<1> HIDE DEF t
<1> QED
  BY <1>5, <1>6, OwnStep DEF Retry, Inv, SdkTypeOK

LEMMA WakesInv == ASSUME Inv, NEW p \in Procs, Wakes(p) PROVE Inv'
<1> DEFINE t == [task[p] EXCEPT !.attempt = task[p].attempt + 1, !.wake = 0]
<1>1. Good(task[p], "waiting") /\ task[p] \in Tasks
  BY InvGood DEF Wakes, Good
<1>2. task[p].attempt + 1 \in 0..MaxRetries
  BY <1>1, MarginAssumption DEF Good, Tasks
<1>3. t \in Tasks
  <2> DEFINE s == [task[p] EXCEPT !.attempt = task[p].attempt + 1]
  <2>1. s \in Tasks
    BY <1>1, <1>2, With
  <2>2. ASSUME NEW r \in Tasks PROVE [r EXCEPT !.wake = 0] \in Tasks
    BY With
  <2>3. t = [s EXCEPT !.wake = 0]
    OBVIOUS
  <2> HIDE DEF s, t
  <2> QED
    BY <2>1, <2>2, <2>3
<1>4. t.op = task[p].op /\ t.ensured = task[p].ensured /\ t.reply = task[p].reply
  BY <1>1 DEF Tasks
<1>5. task' = [task EXCEPT ![p] = t] /\ pc' = [pc EXCEPT ![p] = "send"]
  BY DEF Wakes, Goto
<1> HIDE DEF t
<1>6. Good(t, "send")
  BY <1>1, <1>3, <1>4 DEF Good, Labels
<1> QED
  BY <1>5, <1>6, OwnStep DEF Wakes, Inv, SdkTypeOK
\* Time passes no request by for more than MaxDelay.
LEMMA TickInv == ASSUME Inv, SdkTick PROVE Inv'
<1>1. now \in Nat /\ now' = now + 1 /\ UNCHANGED <<store, pc, task, calls>>
  BY DEF SdkTick, Inv, SdkTypeOK
<1>2. \A p \in Procs :
        /\ task[p].at \in Nat /\ task[p].ensured \in Nat
        /\ pc[p] \in {"sent", "answered"} => now < task[p].at + MaxDelay
  BY DEF SdkTick, Inv, SdkTypeOK, Tasks
<1>3. SdkTypeOK' /\ Busy' /\ Counted'
  BY <1>1 DEF Inv, SdkTypeOK, Busy, Counted, IsIssued
<1>4. Prompt'
  BY <1>1, <1>2, MarginAssumption DEF Inv, Prompt
<1>5. LongLived' /\ Carries'
  BY <1>1 DEF Inv, LongLived, Carries, IsIssued
<1>6. Covered'
  BY <1>1, <1>2 DEF Inv, Covered, IsIssued
<1>7. EnsuredAccepted'
  BY <1>1, <1>2, MarginAssumption, ExpiryAssumption DEF Inv, EnsuredAccepted
<1> QED
  BY <1>3, <1>4, <1>5, <1>6, <1>7 DEF Inv

LEMMA NextInv == Inv /\ [SdkNext]_sdkVars => Inv'
<1> SUFFICES ASSUME Inv, [SdkNext]_sdkVars PROVE Inv'
  OBVIOUS
<1>1. ASSUME NEW p \in Procs, NetworkFails(p) \/ CallDone(p) \/ GivesUp(p) \/ Cancelled(p)
      PROVE  Inv'
  BY <1>1, ReturnInv DEF NetworkFails, CallDone, GivesUp, Cancelled
<1>2. ASSUME NEW p \in Procs, Login(p) \/ EnsureFresh(p) \/ Refresh(p)
      PROVE  Inv'
  BY <1>2, LoginInv, EnsureFreshInv, RefreshInv
<1>3. ASSUME NEW p \in Procs, Send(p) \/ Serve(p) \/ SetToken(p) \/ Retry(p) \/ Wakes(p)
      PROVE  Inv'
  BY <1>3, SendInv, ServeInv, SetTokenInv, RetryInv, WakesInv
<1>4. CASE SdkTick
  BY <1>4, TickInv
<1>5. CASE UNCHANGED sdkVars
  BY <1>5 DEF sdkVars, Inv, SdkTypeOK, Busy, Counted, Prompt, LongLived, Covered,
              Carries, EnsuredAccepted, IsIssued
<1> QED
  BY <1>1, <1>2, <1>3, <1>4, <1>5 DEF SdkNext, Do

-----------------------------------------------------------------------------
(* The theorems                                                            *)

\* The fields of the client and the state of its goroutines are what they are
\* declared to be; a stored access token says the stored expiry.
THEOREM SdkTypeCorrect == SdkSpec => []SdkTypeOK
<1>1. SdkSpec => []Inv
  BY InitInv, NextInv, PTL DEF SdkSpec
<1>2. Inv => SdkTypeOK
  BY DEF Inv
<1> QED
  BY <1>1, <1>2, PTL

\* After EnsureFresh a call is not turned away within the margin, for any
\* number of goroutines that overwrite each other's tokens and any delay the
\* assumption allows.
THEOREM EnsuredCallsAccepted == SdkSpec => []EnsuredAccepted
<1>1. SdkSpec => []Inv
  BY InitInv, NextInv, PTL DEF SdkSpec
<1>2. Inv => EnsuredAccepted
  BY DEF Inv
<1> QED
  BY <1>1, <1>2, PTL

-----------------------------------------------------------------------------
(* What calls bring about                                                  *)

\* EffectsExplained for every operation: what a goroutine has begun, another
\* than a call included, has no effects that its refusals do not explain.
ExplainedAt(t, l) ==
  IF l = "answered" /\ t.op = "call" /\ t.reply.code = 200
    THEN t.effects \in 1 .. t.refused + 1
    ELSE t.effects <= t.refused

Explained == \A p \in Procs : ExplainedAt(task[p], pc[p])

\* A goroutine that keeps its counts, and is given no answer, stays explained.
LEMMA KeepsExplained ==
  ASSUME Inv, Explained, NEW p \in Procs, NEW t, NEW l,
         task' = [task EXCEPT ![p] = t], pc' = [pc EXCEPT ![p] = l],
         \/ ExplainedAt(t, l)
         \/ /\ pc[p] # "answered" \/ task[p].reply.code # 200
            /\ l # "answered" /\ t.effects = task[p].effects /\ t.refused = task[p].refused
  PROVE  Explained'
BY DEF Inv, SdkTypeOK, Explained, ExplainedAt

LEMMA ServeExplained ==
  ASSUME Inv, Explained, NEW p \in Procs, Serve(p)
  PROVE  Explained'
<1>1. PICK a \in Answers(task[p]) : \E e \in Effects(task[p].op, a.code) :
        task' = [task EXCEPT ![p] = Answered(task[p], a, e)]
  BY DEF Serve
<1>2. PICK e \in Effects(task[p].op, a.code) :
        task' = [task EXCEPT ![p] = Answered(task[p], a, e)]
  BY <1>1
<1>3. /\ task[p] \in Tasks /\ task[p].effects \in Nat /\ task[p].refused \in Nat
      /\ task[p].op # "none" /\ now \in Nat
      /\ pc[p] = "sent" /\ pc' = [pc EXCEPT ![p] = "answered"]
  BY InvGood DEF Serve, Goto, Good, Tasks, Inv, SdkTypeOK
<1>4. task[p].effects <= task[p].refused
  BY <1>3 DEF Explained, ExplainedAt
<1> DEFINE t == Answered(task[p], a, e)
<1>5. /\ t.reply = a /\ t.op = task[p].op /\ t.effects = task[p].effects + e
      /\ t.refused = task[p].refused + (IF task[p].op = "call" /\ a.code = 500 THEN 1 ELSE 0)
  BY <1>3 DEF Answered, Tasks
<1>6. a.code \in {200, 400, 401, 429, 500}
  BY <1>3, AnswersOK DEF Replies
<1>7. ExplainedAt(t, "answered")
  <2>1. CASE task[p].op # "call"
    <3>1. e = 0
      BY <2>1 DEF Effects
    <3>2. t.effects <= t.refused /\ t.op # "call"
      BY <1>3, <1>4, <1>5, <2>1, <3>1
    <3> HIDE DEF t
    <3> QED
      BY <3>2 DEF ExplainedAt
  <2>2. CASE task[p].op = "call" /\ a.code = 200
    <3>1. e = 1
      BY <2>2 DEF Effects
    <3>2. t.effects \in 1..t.refused + 1
      BY <1>3, <1>4, <1>5, <2>2, <3>1
    <3>3. t.op = "call" /\ t.reply.code = 200
      BY <1>5, <2>2
    <3> HIDE DEF t
    <3> QED
      BY <3>2, <3>3 DEF ExplainedAt
  <2>3. CASE task[p].op = "call" /\ a.code # 200
    <3>1. e \in {0, 1} /\ (a.code # 500 => e = 0)
      BY <2>3 DEF Effects
    <3>2. t.effects <= t.refused /\ t.reply.code # 200
      BY <1>3, <1>4, <1>5, <2>3, <3>1
    <3> HIDE DEF t
    <3> QED
      BY <3>2 DEF ExplainedAt
  <2> QED
    BY <2>1, <2>2, <2>3
<1> HIDE DEF t
<1> QED
  BY <1>2, <1>3, <1>7, KeepsExplained DEF t

LEMMA LoginExplained ==
  ASSUME Inv, Explained, NEW p \in Procs, Login(p)
  PROVE  Explained'
<1> DEFINE t == [task[p] EXCEPT !.op = "login"]
<1>1. task' = [task EXCEPT ![p] = t] /\ pc' = [pc EXCEPT ![p] = "send"]
  BY DEF Login, Goto
<1>2. t.effects = task[p].effects /\ t.refused = task[p].refused
  BY InvGood DEF Good, Tasks
<1>3. pc[p] # "answered"
  BY DEF Login
<1> HIDE DEF t
<1> QED
  BY <1>1, <1>2, <1>3, KeepsExplained

LEMMA EnsureFreshExplained ==
  ASSUME Inv, Explained, NEW p \in Procs, EnsureFresh(p)
  PROVE  Explained'
<1> DEFINE t == [task[p] EXCEPT !.op = "call", !.ensured = now]
<1>1. task' = [task EXCEPT ![p] = t] /\ pc' = [pc EXCEPT ![p] = "send"]
  BY DEF EnsureFresh, Goto
<1>2. t.effects = task[p].effects /\ t.refused = task[p].refused
  BY InvGood DEF Good, Tasks
<1>3. pc[p] # "answered"
  BY DEF EnsureFresh
<1> HIDE DEF t
<1> QED
  BY <1>1, <1>2, <1>3, KeepsExplained

LEMMA RefreshExplained ==
  ASSUME Inv, Explained, NEW p \in Procs, Refresh(p)
  PROVE  Explained'
<1> DEFINE t == [task[p] EXCEPT !.op = "refresh", !.token = store.refresh]
<1>1. task' = [task EXCEPT ![p] = t] /\ pc' = [pc EXCEPT ![p] = "send"]
  BY DEF Refresh, Goto
<1>2. t.effects = task[p].effects /\ t.refused = task[p].refused
  BY InvGood DEF Good, Tasks
<1>3. pc[p] # "answered"
  BY DEF Refresh
<1> HIDE DEF t
<1> QED
  BY <1>1, <1>2, <1>3, KeepsExplained

LEMMA SendExplained ==
  ASSUME Inv, Explained, NEW p \in Procs, Send(p)
  PROVE  Explained'
<1> DEFINE t == [task[p] EXCEPT !.at = now,
                     !.token = IF task[p].op = "refresh" THEN @ ELSE store.access]
<1>1. task' = [task EXCEPT ![p] = t] /\ pc' = [pc EXCEPT ![p] = "sent"]
  BY DEF Send, Goto
<1>2. t.effects = task[p].effects /\ t.refused = task[p].refused
  BY InvGood DEF Good, Tasks
<1>3. pc[p] # "answered"
  BY DEF Send
<1> HIDE DEF t
<1> QED
  BY <1>1, <1>2, <1>3, KeepsExplained

LEMMA WakesExplained ==
  ASSUME Inv, Explained, NEW p \in Procs, Wakes(p)
  PROVE  Explained'
<1> DEFINE t == [task[p] EXCEPT !.attempt = @ + 1, !.wake = 0]
<1>1. task' = [task EXCEPT ![p] = t] /\ pc' = [pc EXCEPT ![p] = "send"]
  BY DEF Wakes, Goto
<1>2. t.effects = task[p].effects /\ t.refused = task[p].refused
  BY InvGood DEF Good, Tasks
<1>3. pc[p] # "answered"
  BY DEF Wakes
<1> HIDE DEF t
<1> QED
  BY <1>1, <1>2, <1>3, KeepsExplained

LEMMA RetryExplained ==
  ASSUME Inv, Explained, NEW p \in Procs, Retry(p)
  PROVE  Explained'
<1>1. PICK w \in Backoff(task[p].attempt) : Sleep(p, w)
  BY DEF Retry
<1> DEFINE t == Asleep(task[p], w)
<1>2. t.effects = task[p].effects /\ t.refused = task[p].refused
  BY InvGood DEF Asleep, Good, Tasks
<1>3. task' = [task EXCEPT ![p] = t] /\ pc' = [pc EXCEPT ![p] = "waiting"]
  BY <1>1 DEF Sleep, Goto
<1>4. task[p].reply.code # 200
  BY DEF Retry, Retryable
<1> HIDE DEF t
<1> QED
  BY <1>2, <1>3, <1>4, KeepsExplained

LEMMA ExplainedStep == Inv /\ Explained /\ [SdkNext]_sdkVars => Explained'
<1> SUFFICES ASSUME Inv, Explained, [SdkNext]_sdkVars PROVE Explained'
  OBVIOUS
<1>1. ASSUME NEW p \in Procs, Return(p) PROVE Explained'
  <2>1. ExplainedAt(Idle, "idle")
    BY DEF ExplainedAt, Idle
  <2> QED
    BY <1>1, <2>1, KeepsExplained DEF Return, Goto
<1>2. ASSUME SdkTick \/ UNCHANGED sdkVars PROVE Explained'
  BY <1>2 DEF SdkTick, sdkVars, Explained
<1> QED
  BY <1>1, <1>2, LoginExplained, EnsureFreshExplained, RefreshExplained, SendExplained,
     ServeExplained, RetryExplained, WakesExplained
     DEF SdkNext, Do, NetworkFails, Cancelled, SetToken, CallDone, GivesUp

\* A call that returns nil took effect, and one takes effect more than once
\* only by as many 5xx answers as it was given (client.go: do, requestOnce).
THEOREM EffectsExplainedCorrect == SdkSpec => []EffectsExplained
<1>1. SdkInit => Inv /\ Explained
  BY InitInv DEF SdkInit, Explained, ExplainedAt, Idle
<1>2. Inv /\ Explained /\ [SdkNext]_sdkVars => (Inv /\ Explained)'
  BY NextInv, ExplainedStep
<1>3. Explained => EffectsExplained
  BY DEF Explained, ExplainedAt, EffectsExplained
<1> QED
  BY <1>1, <1>2, <1>3, PTL DEF SdkSpec
=============================================================================
