# Formal models of bzy-personal

TLA+ models of the concurrent and stateful parts of bzy-personal, model-checked
with TLC and, where the prover reaches, proved with TLAPS. Everything is translated from the
source; paths below are relative to the repository's root.

- [1. The system](#1-the-system)
- [2. What is hard, and what makes each part correct](#2-what-is-hard-and-what-makes-each-part-correct)
- [3. Modules](#3-modules)
- [4. Runs](#4-runs)
- [5. Bounds](#5-bounds)
- [6. Fairness](#6-fairness)
- [7. Proofs](#7-proofs)
- [8. What the models say about the code](#8-what-the-models-say-about-the-code)
- [9. What is not modelled, and the plan](#9-what-is-not-modelled-and-the-plan)

To check: `tlc -config WorkerPool_delivery.cfg WorkerPool.tla` and so on for the
runs of section 4; `tlapm WorkerPoolProofs.tla` and so on for the proofs.

## 1. The system

bzy-personal is a personal AI platform: three Go services over PostgreSQL and
Redis, a shared Go library and client SDK, and a React UI.

| part | where | state it keeps | operations |
|---|---|---|---|
| Task queue | `apps/bzy-runner/internal/queue` | a Redis stream and its consumer group (last-delivered entry, pending list) | Enqueue, Dequeue, Ack, Nack, Peek, Depth |
| Worker pool | `apps/bzy-runner/internal/worker` | WaitGroup, quit channel, one goroutine per worker and its task | Start, runWorker, processTask, Shutdown |
| Executor | `apps/bzy-runner/internal/executor` | none between calls | Run (local process, `docker run`) |
| Scheduler | `apps/bzy-runner/internal/scheduler` | cron entries, map of jobs | AddJob, RemoveJob, ListJobs, runJob, Start, Stop |
| Locks | `apps/bzy-runner/internal/locks` | one Redis key per lock: token and TTL | Acquire, TryAcquire, Release, Extend |
| Heartbeat and registry | `apps/bzy-runner/internal/{heartbeat,cluster}` | one Redis key per node id with a TTL | Run, Stop, ListNodes, HealthyNodes, TotalCapacity |
| Log stream | `apps/bzy-runner/internal/logstream` | a capped Redis stream and a channel per task | Write, Tail, History |
| Processes | `apps/*/cmd`, `httpserver.Server`, `server.GRPCServer` | fx life cycle, requests in flight | Run, OnStart and OnStop hooks, Stop |
| Workflow engine | `apps/bzy-brain/internal/workflows` | runs map | Execute, executeDAG, GetRun, Cancel |
| Agents, reasoning, planning | `apps/bzy-brain/internal/{agents,reasoning,planning}` | message history, plan | Run, Reason, Decompose, NextTask |
| RAG, embedding, memory, vector store | `apps/bzy-brain/internal/{rag,embedding,memory,vectorstore}` | chunks, cache, messages | Ingest, Retrieve, DeleteDocument, Embed, BuildContext |
| Providers, tools | `apps/bzy-brain/internal/{providers,tools}` | registries | Register, Default, SetDefault |
| WebSocket hub | `apps/bzy-interface/internal/ws` | connections, connections by user, three channels | Handler, readPump, writePump, run, SendToUser |
| SSE hub | `apps/bzy-interface/internal/streaming` | channel per client id | Subscribe, Unsubscribe, Publish, ServeSSE |
| Auth, sessions, rate limit | `apps/bzy-interface/internal/{auth,session,middleware,httpserver}` | tokens, Redis sessions, one token bucket | Issue, Validate, login, refresh |
| Client SDK | `pkg/client` | tokens, SSE reader, WebSocket | do, retry, EnsureFresh, Next, Iter, Send, dispatch, Wait |
| Shared packages | `pkg/{health,events,plugin,errors,config,logging,telemetry}` | health checks, plugin registry | Run, Register |
| UI | `apps/bzy-ui/src` | token store, chat store, WebSocket client | request, doRefresh, login, logout; connect, disconnect; send, stop |

How they interact:

- Producers (HTTP handlers, the scheduler) `XADD` tasks to one stream; the pools
  of all runner nodes read it through one consumer group. Nothing else connects
  the nodes but Redis: the lock key, the node keys and the stream.
- Inside a runner, `cmd/main.go` ties pool, scheduler and heartbeat together with
  fx hooks: started in order, stopped in reverse order.
- In the interface, HTTP handlers share the hubs with goroutines: the WebSocket
  hub by channels and a lock, the SSE hub by a lock only.
- In the brain, a workflow run is a goroutine that shares its record with the
  callers of GetRun and Cancel, without a lock.
- Clients (SDK, UI) hold a token pair and meet the interface only through
  requests, whose answers may be late or lost.

## 2. What is hard, and what makes each part correct

The hazards are listed line by line in `PROJECT.json`. In short:

**Task queue and worker pool.** A dequeue is three commands whose replies may be
lost after they took effect; processes crash with tasks in hand; Start launches
workers while Shutdown may already be waiting for them; a worker may take a task
after quit is closed. Correct: an entry is processed at most once and in order;
each delivered entry is with one worker, reported, or lost by a fault that can be
named; a nil from Shutdown means no work now or later; as long as a node serves,
every entry is reported.

**Locks.** A command may run on the server although its client was told it
failed, and even after the client gave up; leases end while their holders work.
Correct: two clients never rely on the lock at once; a release or extension never
touches another's lock; an abandoned lock becomes free; TryAcquire returns.

**Heartbeat and registry.** Beats are late, fail, or run after the stop, and
nothing limits how long they take; the scan and the reads of ListNodes are
separate commands, each of which may fail. Correct: a running registered node has
its key and is healthy as long as its heartbeats are no later and fail no more
often than the TTL has room for; a list has every such node whose own GET did not
fail; a gone one disappears; a stopped heartbeat ends.

**Scheduler.** The jobs map and the cron library are two registries, and the
Redis client sends a command again when the network fails. Correct: the
registries agree; a run that reported its task as enqueued has one in the queue,
ahead of every task of the job's later runs; runs end.

**Executor and log stream.** A timeout kills the command, not what it started,
and Run waits for every process that has its pipes; a log entry is stored and
published by two commands, either of which may run late or twice, and a reader may
stop reading, or leave. Correct: what Run returns is all the command wrote; a tail
sees the entries of a writer once and in their order, and in that of the history,
but for those whose own commands outlived their call; both calls return once
nothing outside keeps them.

**Processes and health.** A signal meets a start, a stop, another stop of the
same process, and requests in flight. Correct: a process that exits before its
deadline has drained its requests (but for the interface's second Stop, section
8); a signalled process exits; a health report is up only if every check was.

**Workflow engine.** OnError edges, missing nodes and missing handlers meet
Cancel at every moment. Correct: the outcome is the one the graph and the
failures give; nothing is left running; the run ends.

**RAG.** Ingests and deletions of one document run at once over a cache that may
fail, a provider that may, and transactions that lock rows one by one; a statement
sees the table of its beginning. Correct: a document's rows change by a whole
ingest at once, each with the vector of its own text; a deletion of all takes the
rows it found, and those at once; two ingests never wait for each other for ever.

**Tool loops, planner, memory.** A model answers with any number of calls of any
tools, and the request that follows names neither the calls nor what answers them;
a plan's dependencies may be anything; a message is stamped before it is inserted,
by the clock of the replica it reached, and others are stamped, inserted and read
meanwhile. Correct: every call in the history of an agent is answered, once and in
order, so that an answer's place tells what it answers; the loops end; a context
is the last messages of its conversation by their stamps, those of one replica in
the order they were said.

**Hubs.** Channels are closed by one goroutine while others send to and drain
them; register and unregister travel on different channels. Correct: no double
close, no goroutine left behind, messages in order and complete.

**Client SDK.** Goroutines overwrite each other's tokens with late answers; a
retry repeats what already happened; a stream ends between two lines; handlers
send on the connection whose reader calls them. Correct: what EnsureFresh
promises outlives what the others store; an effect is repeated only after a 5xx;
no event is skipped without an error; every call returns.

**UI.** One thread, but every await lets another task in: requests during a
refresh, a sign-out under an answer, a socket that closes after its replacement
opened, two answers into one chat. Correct: a request is sent with a token good
for a minute or with none, and none waits for a refresh that is over; at most one
connection, which the page shows and pings exactly while it is open, at least
until its layout is unmounted for the first time; an answer that runs alone in its
chat is with its question, once and whole.

## 3. Modules

| module | models | state and actions against the code |
|---|---|---|
| `TaskQueue` | `internal/queue/queue.go` | `stream`, `group`, `cursor`, `pel` are what Redis keeps; `Enqueue`, `EnsureGroup`, `ReadGroup`, `Ack`, `Nack` are its commands as the code sends them. Extended by `WorkerPool` and `Scheduler`. |
| `WorkerPool` | `internal/worker/worker.go` with the process of `cmd/main.go` | one `pc` per worker through runWorker and processTask; Start's loop is `StartWorker`, Shutdown is `Shutdown`, `ShutdownDone` and `ShutdownTimeout`; every command has an action for "it ran and the reply was lost"; `Kill`, `Crash`, `Exit`, `Restart` are the process. |
| `TaskDelivery` | the promise to producers | abstract specification: entries are started in order, at most once, and a verdict is final. `WorkerPool` implements it under the mapping `submitted <- Len(stream)`, `started <- cursor`, `running <- Held`, `finished <- acked \cup nacked`. |
| `Locker` | `internal/locks/locks.go` | `val`, `left` are the key; each client has the state of its call; `RunLate` runs commands whose client was told they failed; `lease` is what a client may rely on, counted from its own call. |
| `NodeRegistry` | `internal/heartbeat`, `internal/cluster`, the hooks of `cmd/main.go` | key and LastSeen of each id, the select loop of each heartbeat, the commands under way with their age, those that outlive their call (`StrayRuns`) or their process, ListNodes' scan and its reads, each of which may fail unnoticed. |
| `Scheduler` | `internal/scheduler/scheduler.go` over `TaskQueue` | `jobs` is the map, `cron` the library's entries with SkipIfStillRunning and Recover; `wire` has the XADDs of a run that are under way, `origin` the run that each task in the stream comes from. |
| `Executor` | `internal/executor/executor.go` | the command, the processes it leaves, its container, the pipes, and Run between them. |
| `LogStream` | `internal/logstream/logstream.go` | the capped stream, Write's two commands and those that outlive it (`LateRuns`), the subscription with its buffer, and Tail at its select or at the send to its reader. |
| `Lifecycle` | the three `cmd/main.go`, `httpserver.Server`, `server.GRPCServer` | the process from fx.New to its exit, its server, its requests, and every Stop under way. |
| `HealthCheck` | `pkg/health` and the readiness handler | the checks, the goroutine of each, the results and the report. |
| `WorkflowEngine` | `internal/workflows/workflow.go` | the goroutine's place in executeDAG, node states, status; what fails is chosen when a run starts and unknown to the code. |
| `RagPipeline` | `internal/rag`, `internal/embedding`, `internal/vectorstore` | each call's texts and vectors, the cache, the rows, who has which row locked, and what a DeleteCollection under way saw and has not come to yet. |
| `DocumentRows` | the promise of the table to the pipeline | abstract specification: the rows of a document change by a whole ingest or a deletion at once, and the deletion of a collection removes at once the rows that were there when it began. `RagPipeline` implements it (`IngestsWhole`) under the mapping `doomed[x] <- toDelete[x] \cup Holds(x)`. |
| `ToolLoop` | `internal/agents`, `internal/reasoning`, `internal/tools` | the history as roles and calls, what `convertMessages` leaves of it for the provider, and the place in Run or Reason. |
| `Planner` | `internal/planning/planning.go` | the plan, the statuses, and what NextTask returned. |
| `ConversationMemory` | `internal/memory` | a wall clock per replica, the table of messages with their stamps, each AddMessage between its stamp and its INSERT, and each BuildContext between its two SELECTs. |
| `WsHub` | `internal/ws/handler.go` | reader and writer of each connection, the hub's three channels and its select, `SendToUser` with its panic on a closed channel. |
| `SseHub` | `internal/streaming/streaming.go` | `clients` as topic and client id to channel, and the ServeSSE loops. |
| `AuthServer` | `internal/auth/jwt.go`, login and refresh of `internal/httpserver/server.go`, `internal/middleware` | what the interface answers, as operators on a token and the time: the server keeps no token. |
| `SdkClient` | `pkg/client`: `auth.go`, `client.go`, `retry.go`, `errors.go` | the three token fields and the goroutines that share them, through setAuth, the round trip, the retries and SetToken. |
| `SdkStream` | `pkg/client`: `sse.go`, `chat.go`, `agents.go`, the log stream of `tasks.go` | the lines on the wire, the reader's event under construction, Iter and the caller's function. |
| `SdkWs` | `pkg/client/ws.go` | the mutex, the handlers, the two loops, and the goroutines that Send. |
| `SdkWait` | `pkg/client`: `tasks.go`, `workflows.go` | Wait between its requests, and the job it waits for. |
| `UiSession` | `apps/bzy-ui/src/api`: `client.ts`, `auth.ts` | `session` is the store's pair, `refreshing` the shared promise, `requests` where each request awaits. |
| `UiSocket` | `api/ws.ts`, `hooks/useWS.ts`, `store/ws.ts` | each browser socket, `this.ws`, `shouldReconnect`, the two timers and the status in the store. |
| `UiChat` | `store/chat.ts`, `hooks/useChat.ts` | the chats' messages and streaming text, and each send with its controller. |
| `WorkerPoolProofs`, `LockerProofs`, `NodeRegistryProofs`, `RunnerProofs`, `BrainProofs`, `HubProofs`, `EdgeProofs`, `SdkClientProofs` | | the theorems of section 7. |
| `MCRunner`, `MCBrain`, `MCEdge` | | instances for TLC of what a service has beside the pool and the locks. Their parts share no state, so a behaviour runs one part, chosen in its initial state. A component with two questions of different size is two parts: `node` (one node against the clock) and `list` (several nodes around a ListNodes, which is over before a unit of time is); `rag` (ingests and questions over the cache) and `table` (ingests and deletions, no question, an empty cache). |
| `MCNodeRegistry`, `MCWorkflowEngine`, `MCWsHub` | | the values of one module's constants: ids, graphs, users. |

Data is abstracted to what the properties tell apart: a task is whether a handler
knows its type, a message is a name, a token is its expiry, a graph is its edges,
a vector is the text it was computed from, a chat message is its question and the
number of pieces of its answer. Operators called "Variant for mutation" are
plausible bugs; no specification uses them, and each is paired in `PROJECT.json`
with the property that notices it.

Three choices need a word:

- `cmd/main.go` of the runner never calls `app.Start` (section 8). `WorkerPool`,
  `NodeRegistry` and `Scheduler` run the OnStart hooks as they are registered,
  since that is what the code is written for; `Lifecycle` has the process as it
  is, in which nothing starts.
- A command to Redis is one step on the server, and the reply another step or
  lost. go-redis itself sends a command again after a network error, and one that
  its caller no longer waits for may still run. Where that matters the models have
  it: `RunLate` in `Locker`, `StrayRuns` in `NodeRegistry`, `SendXAdd`, `XAddRuns`
  and `XAddLost` in `Scheduler`, `LateRuns` in `LogStream`. Producers other than the
  scheduler do nothing with the outcome of their Enqueue, so in `WorkerPool` an XADD
  that is repeated is one more submission.
- Some code has no caller yet: NextTask's executor, the SSE hub's handlers, and
  health checks. Their callers are modelled as the use the code is written for,
  which each module's header says.

## 4. Runs

| run | what it shows |
|---|---|
| `pool_delivery` | Two nodes, every kind of entry, two faults anywhere (crash, panic, lost reply), restarts and a stop: `AtMostOnce` (refinement of `TaskDelivery`), `OneFate`, and `EveryEntryReported` while a node serves. |
| `pool_shutdown` | Two workers of one node against Start, Shutdown, exit, crash and restart: the WaitGroup counts the live workers at every moment, a nil from Shutdown is final, at most one late task per worker, a graceful exit loses nothing, and Shutdown returns without its deadline. |
| `pool_ack` | violation: what `queue.go:64` says of Ack does not hold. |
| `lock` | Two clients, three tokens, failures, late commands and a TryAcquire with several rounds: `Exclusive`, `LeaseBacked`, and `LockSettles` (an abandoned token leaves the key, TryAcquire returns). |
| `runner` | One part of the runner at a time. A node whose TTL has room for one failed heartbeat, like the default one (10 s, 30 s): `RegisteredHealthy`; several nodes around a ListNodes: `ListComplete`. Jobs added, fired and removed, and an XADD that is sent twice: `RegistriesAgree`, `OccurrencesInOrder`. A command with what it leaves behind: `OutputComplete`. A log with a command that outlives its call: `TailFollowsHistory`. A process of each kind: `ExitsDrained`. Health: `ReportTrue`. That each of them ends is `RunnerEnds`. |
| `cron_remove` | violation: a job added twice under one id cannot be removed. |
| `brain` | One part of the brain at a time. Seven workflow graphs (chain, fallback, fork, missing handler, missing node, empty, nothing wired), every set of failing nodes, cancelled at every moment: `RunsFollowGraph` against a reference definition that searches for a successful way. Two ingests with a question, or with the deletion of rows and of the collection: `IngestsWhole` (refinement of `DocumentRows`). Loops over whatever the provider answers: `HistoryAnswered`. A conversation that two replicas write: `ContextFaithful`. That each of them, and a plan, ends is `BrainEnds`. |
| `flow_cancel` | violation: a cancelled run begins its next node. |
| `plan_next` | violation: NextTask does not find a task whose dependency is completed. |
| `edge` | One part of the edge at a time. Two WebSocket connections of one user with two messages; two SSE subscriptions, also one over the other; an SDK stream that may break anywhere; an SDK connection with handlers that send; a Wait; a page's session, socket and chats. `StreamsFaithful`, `SubscribedOpen`, `ClosedOnce`, `PageConsistent`; and `HubsEnd`, `ClientsEnd`. |
| `ws_active` | violation: a connection that ends at once stays in the hub's map. |
| `sdk` | Two goroutines that log in, refresh and call: `EnsuredAccepted`, `EffectsExplained`, `RequestReturns`. |

A "violation" run checks what a comment of the code claims and finds a
counterexample; each is a finding in `PROJECT.json` and described in section 8.
The properties of the composed runs are conjunctions over the parts, and each
conjunct is named and commented in its module. Every property is paired with at
least one mutant that breaks it, and the composed ones have several: one for
each part that contributes.

Deadlock is not checked where the system may really stop: a log nobody writes, a
process that exited, a plan that is done.

## 5. Bounds

Each bound is a CONSTANT named in its module and set in its `.cfg`.

- `pool_delivery`: two entries and two workers are what a duplicate, a swap or a
  theft needs; two faults allow a crash after a lost reply, and `MaxStops = 1` an
  orderly stop of one node while the other serves. `pool_shutdown` has two
  workers of one pool, a loop of Start that can be overtaken, and two stops, so
  that a pool is stopped, exits, restarts and stops again.
- `lock`: two clients are the ones that could hold the lock at once. Three tokens
  let a third, abandoned one be in the key. One late command at a time. With a
  deadline of 3, a first backoff of 1 and a cap of 2, TryAcquire has a second round
  and a doubled backoff before its deadline, and with a TTL of 2 the key expires
  before, between and after its rounds.
- `runner`, node: interval 2, TTL 7, `Late = 1` and `MaxMiss = 1` satisfy the
  assumption TTL > MaxMiss * Cycle + Interval + 2 * Late (Cycle is the greater of
  Interval and Late) with equality + 1, without which `RegisteredHealthy` is false.
  `Late` and `MaxMiss` do not bound what happens: commands take up to `MaxAge = 2`
  (in the module: for ever), more than two may fail in a row, and the property
  speaks of the heartbeats that keep to them. One SET that was given up is under
  way at a time. List: two nodes with keys of their own, so that one can come, go
  or be skipped beside the other; the clock stands still meanwhile, as ListNodes is
  a few commands against a TTL of 30 s (the theorem has no such restriction).
  Jobs: two AddJob calls are add, remove and add again, or two jobs; two runs, of
  one job or of both, and each XADD sent up to twice. Command: one process left
  behind and two writes are enough to be cut between. Log: one writer of three entries, one tail, a stream
  that keeps two of them, a buffer of one and one command that outlives its call,
  so that trimming, a full buffer, a store without its publication and a late or
  second command all happen (the theorem is about any number of writers). Process:
  one of each kind, two requests, of which one may end and the other not. Health:
  two checks in every order.
- `brain`, flow: three nodes hold each shape of failure: handler, edge, and the
  fallback of a fallback. The graphs are acyclic, as the package comment wants
  them. RAG: two ingests of one document, one of three paragraphs with a blank
  one and one of two, in opposite orders of their texts; that is what a crossed
  lock, a shifted vector and surplus rows need; one DeleteCollection between and
  under them. Loop: two tools of which one is
  built in, answers of up to two calls, two runs of one agent, step limits that
  are given and defaulted. Plan: two tasks with every set of dependencies.
  Memory: three messages, of which two reach one replica and one another, whose
  clocks are apart, a window of two, and stamps that may be equal.
- `edge`, hubs: channels of one make every full/empty case occur with two
  senders. SSE has three events and two channels. SDK: streams of two events and
  every break between their lines; two messages, of which any may be one that does
  not decode, for two handlers that send, and a Send beside them; one Wait. Page:
  two requests, the second of which meets the first's refresh; four sockets, as a
  lost connection, its replacement and one closed while connecting need; two chats
  with two sends of up to two pieces. (The chats were also run with three sends of
  one piece.)
- `sdk`: Access 4, Margin 2, Delay 1 satisfy AccessExpiry > Margin + MaxDelay with
  equality + 1, the tightest case; a second is two units, so that the rounding of
  a token's expiry shows. Three operations in total allow a call between two
  overwriting answers; one retry is one more attempt than none. After `MaxTime`
  only waits pass.

The proofs of section 7 hold for every value of these constants.

## 6. Fairness

What starts something is never fair: nobody has to submit, subscribe, publish,
sign in, stop or restart anything. So in the composed runs nothing is owed to the
parts that a behaviour leaves alone. Beyond that:

- `WorkerPool` (`Fairness`): weak fairness of each worker's steps, of Start's loop
  and of the end of Shutdown. Redis answers (a blocking read within 500 ms),
  handlers get a deadline, sleeps end. Shutdown's deadline need not fire.
- `Locker`: time passes, and a TryAcquire under way runs and is answered.
- `NodeRegistry` (`NodeFairness`): strong fairness of time, since a node that
  restarts for ever interrupts it at every start without stopping it; strong
  fairness of the select case for a closed quit, since Go's select chooses at
  random among ready cases.
- `Scheduler` (`CronFairness`): a run comes to its end, if only by its deadline.
- `Executor` (`ExecFairness`): os/exec does its part and a timeout comes; no
  process has to end, so `RunReturns` has to name those that keep the pipes.
- `LogStream` (`LogFairness`): Tail runs, and a reader that has not stopped
  receives.
- `Lifecycle` (`LifeFairness`): main, the stops and their deadlines go on; no
  request has to end.
- `HealthCheck`, `WorkflowEngine`, `RagPipeline`, `ToolLoop`, `Planner`: the
  goroutines run; checks heed their contexts, handlers, provider, Redis, database
  and tools return. Nothing has to fail, with one exception: a circle of waiting
  transactions that a DeleteCollection is in, which locks rows in whatever order
  the table has, is broken by PostgreSQL (`DeadlockBroken`). That it would break a
  circle of ingests is not assumed: `RagEnds` shows that there is none.
- `WsHub` (`Fairness`): each goroutine runs; a blocked send gets its turn although
  others fill the channel again (strong fairness), since Go serves the waiting
  senders of a channel in their order. No peer has to talk or hang up.
- `SseHub` (`SseFairness`): the ServeSSE loops run.
- `SdkClient` (`SdkFairness`): time passes, the goroutines run and the server
  answers; a network failure or a cancellation may happen and need not.
- `SdkStream`, `SdkWs`, `SdkWait`: Iter and the caller's function go on; a
  goroutine that waits for the mutex gets it, as every Send that has it ends;
  requests are answered and intervals end, and no job has to.
- `UiSession` (`UiFairness`): tasks of the page run and fetches end. `UiSocket`
  (`SocketFairness`): timers fire and a socket that was closed ends; no server has
  to accept one. `UiChat` and `ConversationMemory` have safety properties only.

## 7. Proofs

TLAPS checks every leaf; nothing is assumed but the named assumptions on the
constants. The theorems hold for any number of nodes, workers, clients,
goroutines, jobs, documents and entries, and for any times.

**WorkerPool** (`WorkerPoolProofs`), in three layers, each inductive relative to
the one before:

1. *Control*: types, `LaunchInv` (workers are launched in order, and only while
   the process is up) and `WaitGroupCounts`. That the counter is right at every
   moment is an argument about the cardinality of the set of live workers, made
   once in a lemma for a worker that ends and one for a worker that starts.
2. *Quiesce*: with Control, what a closed quit channel implies: `LateInv`, which
   gives `AtMostOneLateTask`, and `ShutdownQuiesces`. From it follows
   `GracefulExitLosesNothing`.
3. *Fates*: `OneFate` with `PendingOnlyGrows`. From it and a step simulation
   follows `AtMostOnce`, the refinement of `TaskDelivery`: each step of the pools
   is a step of the abstract specification or leaves its variables alone.

**Locker** (`LockerProofs`): `Exclusive` is not inductive. What makes it so is
that a lease is backed by the key (`LeaseBacked`), which in turn needs: a token
has one user, and a command still to run late is not a SET of a token in use
(`TokenInv`); an extension that still may run late is at least as long as the
lease it hits (`LateInv`); a lease never exceeds the TTL it was counted from
(`TimerInv`). Assumptions: clocks of server and clients run at the same rate,
tokens are fresh, a TTL is at least one unit.

**NodeRegistry** (`NodeRegistryProofs`): `RegisteredHealthy` is an argument about
time. `Control` says what each place of the heartbeat's loop implies, `Phase`
that every heartbeat but the first starts when the ticker fires, or later if the
one before was under way, and `Fresh` that what is left of the record outlasts
the next heartbeat that may still come, with k failures in a row still allowed,
also when an older SET has just overwritten it. `ListComplete` adds what a
ListNodes under way has seen or failed to read (`Found`). Assumptions: nodes have
ids of their own (the default configuration gives them all one) and
TTL > MaxMiss * Cycle + Interval + 2 * Late. The last one limits no command: for
any Late and MaxMiss that the TTL has room for, the theorem is about the nodes
whose SETs took Late at most and failed at most MaxMiss times in a row. With 10 s
and 30 s those are nodes whose commands take 9 s at most and do not fail, or take
4 s at most and fail once in a row; go-redis' timeouts with its retries may exceed
either, and then the node may be missing.

`RunnerProofs`, `BrainProofs` and `EdgeProofs` treat the parts of a composed
specification (`MCRunner`, `MCBrain`, `MCEdge`) one by one. Every part has an
invariant of its own and lemmas that its initial states and steps keep it; the
composition's invariant is their conjunction, since a step of one part leaves the
others' variables alone. The type invariant of each composition (`RunnerTypeOK`,
`BrainTypeOK`, `EdgeTypeOK`) follows from it.

**Runner** (`RunnerProofs`):

- `RegistriesAgree` is inductive: an id points to an entry that was added under
  it, so removing one leaves the others' in place. It needs the ids to be fresh,
  which is what `cron_remove` refutes for the code as it is used with an id again.
  `OccurrencesInOrder` counts nothing, since a run may leave any number of tasks.
  It needs that a run that is under way is the last of its entry (`LastOfEntry`,
  SkipIfStillRunning) and that only runs that began have XADDs on the wire
  (`WireOfRuns`): so a run that is reported as enqueued has its first task in the
  queue before a later run of the job can send one.
- `OutputComplete`: what Run returned stays true because a pipe that has ended
  never comes back, and a command that ended well has taken its container with it
  (`Settled`).
- `TailFollowsHistory`: a published entry's way to a reader (buffer, the entry in
  the sender's hand, what was received) is one sequence in which each writer's
  numbers rise, and what its writer is about to publish is later than all of it
  (`WayPlace`). The capped log loses entries only from its front, so with an entry
  it has the later ones of the same writer (`Recent`). Both except the entries with
  a command that outlived its call, exactly as the property does; a PUBLISH that
  did is of an earlier entry than the one its writer is at (`StrayPlace`).
- `ExitsDrained`: who runs the stop hooks, and what is left of the requests when
  they return (`LifePlace`): only the goroutine of the interface, or a deadline,
  leaves any. `ReportTrue`: the checks registered before a report was asked for are
  among those it copies, and all of those have answered when it is made
  (`ReportPlace`).

**Brain** (`BrainProofs`):

- `RunsFollowGraph`. The property is a search: there is a way through the graph
  that succeeds, no longer than the graph has nodes. The invariant says of a run
  under way that it came to its node on a way (`Reached`), and that every way that
  succeeds leads through that node (`Inevitable`): so at an end without error the
  way there is one, and at an error there can be none (`Outcome`). Two lemmas about
  graphs remain. All successful ways go through the same nodes as long as one is not
  at its end, because a node has one successor once the failing nodes are fixed. And
  a shortest successful way repeats no node, so it is as short as the property wants
  it (`ShortWay`, from `LeastNat`, `WayCut` and the injection of positions into
  nodes). Cyclic graphs are included. That `LeastNat` and the least members of sets
  in `RunnerProofs` come from the library's well-foundedness of the naturals, which
  takes a set and no predicate, is what replaces induction here.
- `HistoryAnswered`. Of a loop that asks the provider, every assistant's message is
  followed by as many tool messages as it owes (`Owed`), numbered in order, and by
  no more (`AnsweredIn`). While a loop runs tools, that holds of all assistants but
  the last, which is followed by answers to its first calls only, and the calls
  left are exactly the rest (`Open`). The request has no calls and no ids, so what
  it says of a call is the content at the call's place, which is something that the
  called tool can have given (`Told`, `Given`): a registry that grows gives no less.
  Assumption: a history Reason is given has no calls of its own (`Plain`), as the
  messages of BuildContext.
- `ContextFaithful`: a message is stamped before it is inserted, by the clock of its
  replica, and what had returned on that replica before it began has an older stamp
  (`Stamped`, `EarlierOlder`); reading the last of the rows by stamp therefore keeps
  that order, and what it leaves out is stamped no later than what it takes
  (`ContextRight`). Assumption: the wall clock of one replica is not set back; those
  of two replicas may differ by anything.
- `IngestsWhole`, the refinement of `DocumentRows`. A commit is a whole ingest
  because a transaction holds exactly the rows it has written (`Locked`), and what
  it writes is right because vectors stay with their texts through cache and
  provider (`Aligned`, `CacheRight`). A DeleteCollection under way owes the rows it
  saw and has not come to and those it holds (`Doomed`), none when it is not under
  way (`DelInv`); at its commit it holds all it owes. That the chunks of a document are its texts in
  order, and no more than its paragraphs, is SelectSeq's work, whose facts need
  induction; `ChunksAssumption` states it of the constants and TLC evaluates it in
  the `brain` run.

**Hubs** (`HubProofs`): `SubscribedOpen` and `StreamComplete` of the SSE hub: a
channel is made once (`Made`), so it is subscribed in one place at most and never
again after it was closed, and its stream is what was put into it and not lost.
`InOrder` and `ClosedOnce` of the WebSocket hub: only a handler that returns asks
for its connection to be unregistered, and it returns once, so a connection is in
the unregister channel once at most and never after it was closed (`AskedOnce`).

**Edge** (`EdgeProofs`), on top of the hubs:

- `StreamsFaithful` adds the SDK. For the event streams, the lines that are still
  on the wire, with the event under construction, are those of the events after
  the ones given on (`Follows`, `Assembled`), whatever line the stream breaks at.
  For the WebSocket, the handlers still to be called for a message are those
  registered before it was dispatched and not called yet (`StillToCall`), and every
  earlier message has been given to all that were registered in time
  (`NoneForgotten`). Handlers that are registered between the same two dispatches
  are in no promised order.
- `PageConsistent` is three properties. A request of a page is sent with a token
  that is good (`UiSendsFresh`, inductive with the types). Of the socket
  (`OneConnection`): one lives at most and no timer runs beside the last that was
  set (`OneLive`), so a connection is shown and pinged only while a socket is open
  or closing; and until the layout is unmounted for the first time no socket ends
  after its successor was made, so what is shown and pinged is exactly what is open.
  After that it may be open and not shown (section 8), and only the first half is
  proved. Of the chats (`AnswersWhole`): a send that runs alone in its chat and has
  text is shown exactly as it was received, as streaming text until it ends and as
  one answer after it (`AloneReads`, `AloneEnded`).

**SdkClient** (`SdkClientProofs`): `EnsuredAccepted` rests on a chain: an answer
is never older than the HTTP timeout (`Prompt`), so a pair that is about to be
stored is still good for longer than the margin (`LongLived`), so whatever is in
the client's fields after EnsureFresh returned outlasts its margin (`Covered`),
and so does the token a request carries (`Carries`). The assumption
`AccessExpiry > Margin + MaxDelay` (24 h against 1 min and 30 s) is used exactly
where a pair is stored; the second by which a token's expiry is rounded down
appears in the conclusion. `EffectsExplained` counts for every operation, login
and refresh included, the attempts the server refused after it had acted
(`ExplainedAt`). Client and server share one clock in this model, and a caller's
own SetToken with a pair from elsewhere is outside of it.

Only model-checked: liveness (`EveryEntryReported`, `ShutdownReturns`,
`LockSettles`, `RunnerEnds`, `BrainEnds`, `HubsEnd`, `ClientsEnd`,
`RequestReturns`), since fairness and ENABLED are out of the prover's reach; and
the counterexamples of section 8. Every invariant and every refinement that a
passing run checks is also a theorem. What a recursive function computes for every input
would need induction over data; the one place where it matters is the assumption
`ChunksAssumption` above.

## 8. What the models say about the code

Findings, each with a counterexample by a violation run:

- **Ack and Nack acknowledge nothing** (`queue.go:159`). Ack gives XACK the
  task's UUID, which is no stream id, and Nack makes no call: every delivered
  entry stays pending for ever. `PendingOnlyGrowsCorrect` proves it.
- **A lost connection stays in the hub** (`ws/handler.go:100`) when the hub takes
  its unregister before its register.
- **A job added twice cannot be removed** (`scheduler.go:72`): the first cron
  entry is forgotten, fires for ever, and can overlap the second.
- **Cancel does not stop a run** (`workflow.go:230`): it writes a status that the
  goroutine never reads and overwrites at its end.
- **NextTask never returns a task with a dependency** (`planning.go:170`): the
  provider is asked for titles, and they are looked up among generated ids.

Differences from the documentation that need no model to see, or that a model
contains as it is.

In the runner:

- ARCHITECTURE.md promises retries and a dead-letter queue; Nack does nothing and
  no entry is delivered again, so a crash loses the tasks its workers held and a
  lost reply loses its entry (`AtMostOnce` and `OneFate` make that precise).
  Depth counts all entries ever added (XLEN).
- The runner's `main` never calls `app.Start`, so the hooks do not run.
- The heartbeat runs on the start hook's context, so under fx it ends when the
  start does; the node then leaves the registry while it works.
  ARCHITECTURE.md:245 lets a worker drain, send a final heartbeat and deregister;
  the hooks stop in the reverse order, and Stop does not wait for the goroutine.
  All nodes have the same id by default, so they share a key.
- A heartbeat has no time limit of its own: one SET may take longer than the
  interval, and with go-redis' retries longer than the TTL. `RegisteredHealthy`
  speaks of the nodes whose heartbeats are in time.
- ListNodes skips a node whenever its GET fails, of a timeout or a cancelled context
  as of a key that has gone, and returns the rest without an error
  (`cluster.go:48`); `ListComplete` excepts those.
- go-redis sends a command again after a network error. One occurrence of a job, or
  one Enqueue, may so leave two tasks, and one that is reported as failed may leave
  any; an entry of a log may be published twice, or after a later one of its writer.
- Extend returns nil for a lock that is gone: a caller has to count the TTL
  itself, as `lease` does.
- A timeout of the executor kills the command only: a process it started keeps
  the pipes, and Run with them. Killing the docker client leaves the container.
- Tail sends to its reader outside its select: a reader that stops reading keeps
  it after its context is over.

In the interface:

- SendToUser panics on the closed channel of a connection that has left, and the
  user's later connections get nothing of that message. A second SSE
  subscription under one id and topic silently replaces the first. WebSocket
  writes have no deadline.
- `main` calls Stop itself and app.Run calls it for the same signal. Whichever is
  second returns at once; if that is app.Run, the process exits with requests in
  flight.
- Refresh tokens are neither stored nor revocable (ARCHITECTURE.md:471), Validate
  takes either token of a pair for the other, and a pair from a refresh has no
  email and roles. The rate limit is one bucket for all clients.

In the brain:

- Only the first Next edge of a workflow node is followed; a node without handler
  keeps its state "running"; a cyclic definition runs for ever.
- Reason's react mode runs the first call of an answer and appends all of them to
  its history, which then holds calls without an answer; `HistoryAnswered`
  excepts exactly those.
- `convertMessages` (`openai.go:144`) sends the role and the content of a message
  and drops ToolCalls and ToolCallID: in every request after a tool was used, tools'
  messages answer no call, which a provider may refuse. Only their order tells what
  they answer, and that is what `HistoryAnswered` is about.
- DeleteCollection is one statement at READ COMMITTED (`pgvector.go:119`): of an
  ingest that commits while it waits, it removes the rows that were there before
  and were written anew, and leaves the new ones, which are then a part of a
  document. `DocumentRows` says so.
- AddMessage stamps with the clock of its replica (`memory.go:136`) and bzy-brain is
  deployed with two (`deploy/k8s/base/bzy-brain-deployment.yaml:10`): a context may
  have an answer before its question.
- An ingest with fewer chunks than the one before leaves the last rows of the
  older one; `DocumentRows` says so.
- The constructors of reasoning, planning, RAG and embedding take the registry's
  default provider when they run (`reasoning.go:71`, `planning.go:78`,
  `rag.go:95`, `embedding.go:26`), before any provider is registered.

In the SDK:

- `WithTimeout` changes a field that the HTTP client does not read, a POST is
  retried after a 5xx like a GET, and the jitter is 0 to 25 % where the comment
  says ±25 %. EnsureFresh's minute is short by up to a second, since the expiry in
  a token is rounded down and the one in the pair is not.
- readLoop returns at any error of ReadJSON, one message that does not decode
  included (`ws.go:128`): it closes Done, which ends the pings, and the connection
  stays up with nobody to read it. `InboundHandled` excepts what comes after such a
  message.
- Iter looks at its context only between events. `ws.go` writes under its mutex
  without a deadline, so a peer that stops reading stalls every Send, and dispatch
  with them.
- `url.JoinPath` escapes the "?" of a path with a query, so a task's log stream
  with follow, and List with a filter, ask for a path that does not exist;
  RunStream POSTs to a route that is registered for GET.

In the UI:

- The refresh request waits for the refresh under way, which is itself
  (`api/client.ts:147`), until the user signs out.
- disconnect sets shouldReconnect to false for good (`api/ws.ts:86`), and the
  error of a socket closed while it was connecting closes whatever `this.ws` is by
  then (`ws.ts:60`). Under StrictMode (`main.tsx`) a development page therefore
  closes its only connection; `Reconnects` is stated for a layout that was mounted
  once and stays. The close event of an old socket also stops the ping of a new one
  and shows "disconnected" beside it (`ws.ts:49`), which `OneConnection` allows from
  the first unmounting on.
- Two sends that overlap in one chat mix their answers: both append to one
  streaming text, and the one that ends first takes all of it. An answer without
  text leaves the chat streaming, since finalizeStream returns early. Stop aborts
  the hook's last send, whichever chat it belongs to. A stream that breaks is
  finalized like one that ended. `AnswersWhole` is about answers whose send ran alone
  in its chat, and about other chats.

What a property excepts because the code does it has a hazard of its own in
`PROJECT.json` with no property and a note. The exceptions of the liveness
properties: processes and readers that keep Run and Tail (`RunReturns`,
`TailReturns`), signals that come before main receives them and the runner that
never serves (`SignalExits`), cyclic workflow graphs (`FlowEnds`), a peer that
stops reading and a message that does not decode (`InboundHandled`), a request
that waits for a refresh that waits for itself (`UiReturns`), a page whose layout
was unmounted (`Reconnects`). `NodesSettled` excepts nodes without a handler, and
`PlanEnds` is about an executor that follows NextTask, since the code has none. The
`sdk` run has one retry, so no backoff doubles in it; `RequestReturns` needs of a
backoff only that it ends.

## 9. What is not modelled, and the plan

Not modelled, for good: the HTTP handlers, which are stubs that answer a constant,
and the gateway, which dials two connections nothing uses; the shared packages of
types, constructors, configuration, logging and telemetry; pages and components
that only render; schema and protocol declarations; deployment files and example
programs. None of them keeps state that another part depends on.

Modelled in part, with the reason at each component in `PROJECT.json`: the
scheduler's unlocked map is modelled for one caller at a time (concurrent callers
are a data race); of the runner's process, configuration and telemetry are left
out; the plugin registry and the provider registry are maps nothing fills;
summaries and long-term memory are single statements or stubs; users, roles, API
keys and the session manager have no caller; the token bucket's count is reduced
to what it answers. Peek and Depth of the queue, TotalCapacity of the registry
and GetRun of the engine read state and change none.

What a next step would add: the safety half of what the liveness properties say,
as theorems (that what has ended stays ended, and that a loop's step never passes
its limit), and the task of a worker as a composition of `WorkerPool`'s handling
step with `Executor` and `LogStream`, once a handler in the code calls them.
