# Verification of the Ollama hive cluster

TLA+ models of the two Go programs in this repository, the TLC runs that check
them on small instances, and TLAPS proofs of the results that hold for every
instance. `PROJECT.json` lists the components, the runs, the source lines each
definition stands for, the hazards the properties are aimed at, the
disagreements between code and text that came up, and the theorems.

## 1. Inventory

The repository holds two programs that share an idea and no code.

**The cluster node** (`main.go`, `internal/`, `cmd/agent`). A hive process keeps
a table of Ollama nodes, each of which runs an agent; it takes inference requests
over HTTP and passes each to one node.

| component | state | operations | interacts with | hard part |
|---|---|---|---|---|
| registry (`internal/cluster`) | `Manager.nodes`, status and last heartbeat of each | register, heartbeat, deregister, `CheckStale` | agents over HTTP, balancer by callback | two locks, pointers kept after unlock, lost answers, restarts of either side |
| agent (`cmd/agent`) | retry count | register 5 times, then heartbeat every 3 s, register once after a failed one | registry | transport failures only are noticed |
| balancer (`internal/balancer`) | strategy, round-robin index | `SelectNode`, `SetStrategy` | reads nodes live | nodes change between list, filter and sort |
| queue, history (`internal/queue`) | ordered items, bounded log | enqueue, cancel, add | proxy | status is written under other locks, or none |
| proxy (`internal/proxy`) | active map | one handler per request, cancel | all of the above | handlers interleave with cancellations |
| API, dashboard, config | none | read-only views, SSE | | |

**The hive server** (`hive-server-go/`). A job server in front of one Ollama,
with a worker pool, peers, a coding agent, an OpenAI-compatible front and SQLite.
At this commit the package does not compile as a whole: `HiveServer.queue` is
declared as `*PriorityQueue` and used through the methods of `OllamaQueue`. Both
queues are modelled as they are written, and the server with the queue whose
methods it calls (`Submit`, `Stop`, `GetJob`).

| component | state | operations | hard part |
|---|---|---|---|
| `OllamaQueue` (`queue.go`) | channel, running and completed maps | submit, worker loop, stop, get | workers race, IDs are not unique, stop races with jobs |
| process (`main.go`) | goroutines of main and signal | start, shutdown | two goroutines stop the same things |
| `PriorityQueue` | four deques, a condition variable | enqueue, dequeue, peek, cancel, close, stats | wake-ups, deadlines, removal by ID |
| `CircuitBreaker` | state, counters, times; table by name | execute, reset, remove | outcomes recorded in another state, or on a removed breaker |
| mesh (`mesh.go`) | peer table | beacons, probes, introductions, exchange of tables, polls, cleanup, choice of peer | unreliable messages, second-hand news, IDs that move, changes under a read lock |
| clients (`handlers.go`) | bounded client table | register, heartbeat, unregister, removal of silent clients | the loop races with clients that come back |
| forwarding (`handlers.go`, `openai_compat.go`) | handlers that wait, here and at a peer | submit, forward, poll, fall back | lost answers, ignored refusals, servers that wait for each other, IDs that collide |
| rate limiter (`auth.go`) | a bucket per address | allow, cleanup | windows that meet, cleanup next to requests |
| audit trail (`audit.go`) | buffer, wake-up channel, table | log, flush | copy and append, dropped wake-ups, failed inserts |
| coding agent (`coding_agent.go`, `db.go`) | session cache, session objects, three tables | create, send, compress, archive, delete | one object in several requests, a database call between any two steps, positions used after a call of minutes |
| job stream, response cache, model registry, metrics | see section 7 | | |

What makes them correct: a job or request is never lost, doubled or shown as
something it is not; queues keep their order; limits hold; a node is in rotation
exactly while it is heard from; nobody waits for ever for what has happened.

## 2. Modules

| module | models | extends |
|---|---|---|
| `ClusterProxy` | `proxy.go`, `queue.go` of the cluster node | |
| `HiveNodes` | the nodes, as the next two know them | |
| `Balancer` | `balancer.go` and the node methods it calls | `HiveNodes` |
| `NodeRegistry` | `manager.go`, `node.go`, the agent's `main` | `HiveNodes` |
| `RegistryTiming` | the same with the agent's ticker and the time its exchanges take | `NodeRegistry` |
| `JobPool` | what `OllamaQueue` promises: a bounded line and a fixed number of servers | |
| `JobQueue` | `OllamaQueue`; implements `JobPool` | (instantiates `JobPool`) |
| `ServerShutdown` | `main.go`, `HiveServer.Stop` | `JobQueue` |
| `PriorityQueue` | `priority_queue.go` | |
| `CircuitBreaker` | `circuit_breaker.go` | |
| `MeshServers` | the servers, as the next two know them | |
| `Mesh` | `mesh.go`, the peer handlers | `MeshServers` |
| `Forwarding` | `submitJob`, `handleJobForward`, `handleOpenAIDirect`, with a queue and workers per server | `MeshServers` |
| `CodingAgent` | `coding_agent.go`, its tables in `db.go`, its handlers | |
| `RateLimiter`, `AuditTrail`, `ClientManager` | `auth.go`, `audit.go`, the client table of `handlers.go` | |
| `HttpServer` | the middleware chain of `main.go` around them | the three above |
| `CircuitBreakerProofs`, `ClusterProxyProofs`, `PriorityQueueProofs`, `CodingAgentProofs` | theorems | the module each is named after |
| `JobQueueProofs` | theorems on the queue and the shutdown | `ServerShutdown` |
| `HttpServerProofs` | theorems on the limiter, the audit trail, the clients | `HttpServer` |
| `NodeRegistryProofs` | theorems on the registry and the balancer | `RegistryTiming`, `Balancer` |
| `MeshProofs` | theorems on the peer tables and the work shared | `Mesh`, `Forwarding` |
| `MC...` | constants and symmetries for TLC | |

A step of a model is a piece of code that other goroutines cannot see inside:
what runs under one hold of a mutex, or a channel operation. Code that releases a
lock and goes on is several steps. Data the guards do not read (prompts, answers,
load figures, names) is left out.

**CircuitBreaker.** One entry of the manager's table. Breaker objects have an
identity, since `Execute` keeps a pointer while `Remove` may delete the entry;
an object nobody points to can be allocated again. Times are ages, counted to
one more than `Timeout`; the failure count saturates at its threshold, and both
are exact for every comparison in the code. `streak` and `probes` are ghosts: the
failures recorded since the last success, the successes since the breaker went
half-open. `AfterAllow`, `AfterSuccess`, `AfterFailure` and `transitionTo` are
the method bodies; a caller goes through `Get` (two lock regions), `Allow`, the
call, and `RecordSuccess` or `RecordFailure`.

**JobQueue.** The channel is a sequence of at most `ChanCap` jobs. A worker
receives, enters the job in `running`, executes, and moves it to `completed`:
four steps, between which others run. The maps are keyed by `IdOf[j]`, which the
run makes shared for two of them. The worker's `select` may take a job after `stopCh`
is closed. The Ollama call is a choice between completed and failed.

**JobPool** has the line, the job of each server, and one outcome per job. Under
the mapping of `JobQueue` the line is the channel, a server's job is the job its
worker holds, and the outcome is what a caller can tell: pending from acceptance
until the job is stored, whatever the `Status` field says in the unlocked gap
between `executeJob` and the completed map. Entering the running map, executing
and leaving the loop are stutters.

**ServerShutdown.** `JobQueue` plus the signal goroutine (`Stop`, `Shutdown`,
close the database, exit) and the main goroutine (`ListenAndServe`, then its
deferred `Stop`). Handlers that are still running when the listener closes may
submit a job. Closing a closed channel panics and ends the process, and so does
a listener that fails, at its start or later (`log.Fatalf`), whatever runs.

**ClusterProxy.** One handler per request: enqueue, choose a node (or find
none), mark running, enter the active map, call, leave the map, record. `Cancel`
holds the queue's mutex, but handlers write `Status` without it, so it is two
steps: `CancelFinds` reads the status, `CancelRemoves` writes it and takes the
item out. Nothing calls the queue's `Dequeue`, and the model has no such step.
A node that responds makes the request complete, whatever it says: an error
status is passed on, and a body may break off, a stream's before its first byte.
The sync and the streaming handler differ in what the client sees of a failed
call. The ghost `ended` has the requests in the order in which their handlers ended. `maxSize` is the queue's field, set once by `NewQueue`.

**Balancer.** One `SelectNode` among changing nodes: the list (in any order), the
filter node by node, which asks for the health (`AskHealth`) and then, the lock
taken anew, for the slots (`AskSlots`), the switch (which reads the strategy
without its lock), and the strategy. A sort whose keys change while it runs may
put any node first; otherwise it puts a best one first. Ghosts record which nodes
were usable throughout the call, which were healthy at some time in it, and which
of these had a free slot then or later.

**NodeRegistry.** The table, a heartbeat handler per node that holds a pointer
between its two lock regions, the sweep with its test and mark apart, the agent's
boot attempts and loop, crashes of both, and a network that loses requests and
answers. **RegistryTiming** keeps the hive up and gives the ticker its period. None
of the agent's calls has a timeout, so time passes in every stage of its loop, and
the ticker keeps one tick for it. The ghost `delay` sums up, since the node was
last heard, the time the agent was held up and an `Interval` for every exchange
lost; `late` says that this has left less than one `Interval` of the timeout.

**PriorityQueue.** Methods are one step each, except that `Dequeue` gives up the
mutex while it waits; a woken worker competes for it like any other. Jobs are
removed by ID, and IDs may be shared: `wjob` is what a worker was handed, the ghost
`wgone` the job whose place its call cleared. A deadline is none or far, or near. `Stats` is left out: it calls `Len` while it holds the
mutex `Len` takes, and nothing runs any more once it has been called (section 6).

**Mesh.** The peer tables of several servers. An entry is the age of its
`LastSeen`, in ticks of any part of the 30 s that `Cutoff` counts; capacities are
left out, since `Forwarding` lets any peer be chosen. A sweep over the seeds is what `Start`, `seedProbeLoop` and
`Rescan` do: status, introduction, request for the table and merging its answer
are four steps, each of which may fail, the last with an answer that has become
stale; the introduction is on its way (`intros`) until it is handled or lost. Time
passes whatever is under way, and no request is given a duration: beacons and
answers of a server that has gone (`recent`) may be handled until they settle.
Operators register any peer at any server, itself included (`own` is the ghost of
that). Servers have an ID and an address, and IDs may share an address, one
after the other. The endpoint of an entry is the announced address: beacons
always carry `announce_addr`, so the branch for a beacon without it is not
reached. One sweep of a server runs at a time.

**Forwarding.** Tasks come to any server, by `/api/jobs` or as a chat completion.
The handler, the handler of `/api/jobs/forward` at the peer and the workers of
both servers are separate processes; between them requests and answers may be
lost and servers may crash and come back empty. The worker of `JobQueue` starts a
job, sets its `Status`, and sets its `Result` and moves it: handlers poll between
the last two, where a completed job has no result. Nobody looks at HTTP statuses:
an error of Ollama, or a peer whose middleware turns the request away, is an
empty completion of a chat (`OpenAIDirect`, `PeerTurnsAway`, `TakenFor`). A job is known
under its own ID at home and under "mesh:origin:ID" at a peer, and the run gives
all tasks one timestamp. `submitJob` does not look at what `Submit` returned, and
`handleJobForward` polls for a job its queue refused: both are as in the code.
What a peer's load and model list say is up to 30 s old, so any peer or none may
come out of `GetBestPeer` and `findPeerWithModel`.

**CodingAgent.** One session. The row, the messages and the audit entries are in
the database, where each statement or transaction is a step that may fail; the
cache holds a pointer to a session object, which requests share without a lock.
What a statement is given is read before it runs: the `created_at` of a message
(`Compose...`, then the INSERT) and the status of a session (`ReadStatus`, then
`UpdateRow`). The messages are a set in the order of `created_at`, so that one
that was overtaken lies before those that overtook it. A message stands for
itself and a summary for the messages it was made from, so that what a session
has forgotten can be stated; a client may send messages as "system", which move
the split point. `compressContext` reads the messages and finds its split point
(`CompressRead`), asks Ollama for the summary, reads the messages again and counts
off as many as the split point says (`CompressReread`), and exchanges them in a
transaction (`CompressApply`); others store messages all the while. A crash loses
cache and requests and keeps the tables. Ghosts record the cases in which the
code does forget, leave out or undo something (section 6): that the messages
before a split point changed during the call for its summary, that an entry of the
audit log failed or was never due, that a deletion overlapped a request, that an
UPDATE had read its status when the session was archived, that a session was read
back while another object of it was in use. The properties hold up to these.

**HttpServer** takes a request through the limiter, the audit trail and a handler
that touches the client table, next to the flusher, the two cleanup loops and a
restart. Its parts are modules of their own, so that they can be proved about.
**RateLimiter**: a bucket is a count and a time; `admitted` is a ghost, the times
at which requests of an address were let in. **AuditTrail**: the append and the
wake-up of `LogEvent` are two steps, the flusher takes the whole buffer and
inserts event by event, an insert may fail. **ClientManager**: the table with
`LastHeartbeat`; the ghost `heard` is when a client was last heard of that has not
been silent for longer than the stale time since it registered.

## 3. Runs

Passing runs, with the reason for their bounds:

| run | shows | bounds |
|---|---|---|
| `breaker` | counters mean what they say in every state; a breaker trips only on a streak and closes only after enough probes of this half-open period; an open circuit is left again | 2 callers, 2 objects, thresholds 2, timeout 1: an outcome can arrive in every state, on a removed breaker too |
| `job_queue` | the queue implements the abstract pool; a job is in one place; the running map is exact; an ID that can be polled never vanishes; accepted jobs finish; no job that runs is cut short by a shutdown; a signal ends the process | 4 jobs, two of which share an ID, 2 workers, channel of 2: it fills and both workers race, with a shutdown or a failed listener at any point |
| `proxy` | queue order and contents, visible calls; the history is the tail of the order in which handlers ended, and tells whether a node responded | 3 requests, 2 priorities, queue of 2 or 3, history of 2: records are evicted and their order shows |
| `balancer` | selections are justified by what each node said when asked, and best when nothing changes meanwhile | 2 nodes, 3 slot and 2 score values |
| `registry` | pointers stay valid; a node comes back by registering, or by a heartbeat that finds its over-age entry still online; a silent node leaves | 2 agents, timeout 1, 2 tries |
| `registry_timing` | a live node leaves the rotation only when lost exchanges, at 3 s each, and the time its agent was held up leave less than 3 s of the 10 | the code's 3 s and 10 s, one agent; exchanges take any time, and any number is lost |
| `mesh` | a server is in its own table only by an operator; a peer that is gone and no longer alive in any table does not come back by itself | 2 servers that are each other's seeds, as in `DEPLOYMENT.md:105-134`, a third that operators only register, one registered at itself; ages: alive, kept, due to go |
| `priority_queue` | every job has one place until one call clears it, no wake-up is lost, the best claim goes first | 3 jobs, two of which share an ID, 2 workers, levels 0 and (from 4) 2 |
| `forwarding` | a result given with "completed" is that of a job that did complete, the client's own unless two tasks share an ID; a task runs twice only after a failure, and never three times; every handler answers | 2 servers with one worker and room for one job, 2 tasks in one millisecond, the first at a fixed one of the two servers, which are alike, one crash: both servers can be full and forward to each other |
| `coding_agent` | nothing said is forgotten, every message is in the audit log, a deleted session stays deleted, an archived one archived, but for the cases named | 2 requests at a time, 2 messages kept; 4 messages with their answers, or 3 with a failure and a crash or with a delete, or fewer with an archive, a delete, a failure and a crash: compressions happen, two may overlap, and a message may be overtaken |
| `http` | the rate is bounded and refusals are justified; events are in order, once, and woken for; clients that are never silent for long keep their place | 2 audited requests, others at will, rate 2, window 1, 4 admissions, a table for one of 2 clients, one failed insert, one restart |

Deadlock is checked except where the system may stop: all requests are done, or
the process has gone.

The type invariants of `CircuitBreaker`, `JobQueue` and `Mesh` are theorems of
their own; those of the other modules are part of one invariant of their run, and
proved with it.

A run that ends in a violation, stating what a comment says:

| run | text | what the code does |
|---|---|---|
| `proxy_refused` | `config.go:40` "Max queued requests" | counts every request ever accepted and not cancelled |

Every property has a mutation of the code that breaks it: the operators under a
comment "A mutation" or "Mutant", one per plausible slip, next to what they replace.

## 4. Fairness

- `CircuitBreaker`: the clock runs, protected calls return (their HTTP clients
  have timeouts) and callers go on. `Reset` and `Remove` are not assumed.
- `JobQueue`, `ServerShutdown`: goroutines are scheduled; an Ollama call ends
  within the client's 600 s. Which ready case a `select` takes is open, so
  that a shutdown gets past `Stop` rests on submissions being finitely many: the channel runs
  dry, and only `stopCh` is left to take. Submissions, `Stop` and signals are not
  assumed.
- `NodeRegistry`: the clock and the sweep run; handlers get `m.mu` eventually
  though the sweep keeps taking it (strong fairness, as Go's `RWMutex` does not
  starve waiters). Agents are not assumed to do anything.
- `Forwarding`: workers and handlers are scheduled, their tickers tick, and a call
  of Ollama ends. No message need be lost and no client need run into its
  timeout; of the deadlines only the 600 s of `handleJobForward` are relied on,
  without which a handler that polls for a job its queue refused would keep its
  caller waiting.

## 5. Proofs

TLAPS checks the eight proof modules to the last leaf. Every safety property of a
passing run, invariant or action property, is the subject of a theorem. The
larger of the inductive invariants named below were first checked by TLC on the
instances of the runs.

The assumptions are on the constants, named, and evaluated by TLC in every run:
thresholds, sizes and times are natural numbers (positive where the code divides
or counts), nil (`None`, `Absent`) is not a value, and the sets whose
elements are counted are finite (`WorkersAssumption` of `JobQueue` and
`PriorityQueue`, `ReqsAssumption` of `ClusterProxy` and `CodingAgent`,
`NodesAssumption` of `Balancer`).
`SessionAssumption` says that the session of `CodingAgent` is created at most
once: the ID of a session is made up by its creation. `MeshAssumption` gives the
constants their types and no more: seeds may be mutual, addresses shared, and
operators may register anyone anywhere. No theorem has a hypothesis of its own.

**`CircuitBreakerProofs`.** `BreakerTypes` and `BreakerCounters`, for any number
of callers and objects. `CountersMatchHistory` needs three companions to be
inductive: the types, that a caller holds an object exactly while it is in
`Allow` or the call (`RefsHeld`), so that the object a step touches exists, and
the ranges of the ghosts. Each method body has a lemma on one breaker; the steps
of callers follow from these. `BreakerTrips` and `BreakerCloses` are action
properties from the same invariant: only a recorded failure opens a closed
breaker, and then the failure count, which is the streak, has reached the
threshold.

**`JobQueueProofs`.** `QueueTypes`, `JobsKept` (`OnePlacePerJob`, whose four
conjuncts are inductive together with the types: to keep two workers off one job
one needs that channel and workers are disjoint, and for that that the channel
has no repetitions), and `PolledIdsStay`, an action property from the same
invariant. Lemmas on the elements of an appended and of a shortened sequence and
on the jobs workers hold carry the argument.

`QueueIsPool` shows that the queue implements `JobPool`, for any jobs, IDs,
workers and capacity. Initial states map to initial states; `StepOfPool` maps
each step to a step of the pool or a stutter. It needs the invariant: a receive
is a `Serve` because a worker at its `select` holds no job, and a store is a
`Finish` because the job it holds is not yet finished and has its outcome.

`RunningMap`: `RunningMapExact` speaks of IDs that no two jobs share, and of the
size of the map. `RunningInv` says for all IDs that an entry has a worker that
executes a job of that ID; choosing one for each entry bounds the entries by the
workers that are not waiting.

`ServerRunsQueue` shows that the server with its two goroutines takes only steps
of the queue, so that all of the above holds of the server. `ShutdownWaits` rests
on `ShutdownInv`: `stopCh` is closed as soon as the signal goroutine has left its
wait, the mesh is stopped only when all workers have left their loop, and `main`
comes to its deferred `Stop` only after that. Hence whoever ends a shutdown, by exit
or by panic, does so after the first `Stop` has joined the workers. A listener
that fails ends the process without a `Stop`, and the theorem says nothing of it.

**`HttpServerProofs`.** `RateIsBounded` and `RefusalIsJustified`, for any rate,
window and addresses and for a clock without a bound. `RateBounded` alone is not
inductive. `LimiterInv` adds that a bucket holds the last `count` admissions and
expires a window after the first of them, and that whatever was let in a rate
before that first one is more than a window older (`Holds`, `OldBefore`): then
the next bucket can add no more than a rate. They are stated for the limiter's
own specification, and `ServerLimits` shows that the server implements it.

`AuditOrder` and `AuditComplete` share `TrailInv`: each event that a request's
place in its handler says was logged (`Past`) is in the trail or gone, none that
is still to come (`Due`) is, and none is there twice. That a response follows its
request comes from the order in which the handler appends. `WakeUpsSuffice` needs
that the wake-up is there already while the flusher inserts (`WakeUpInv`), since
it sleeps right after. `ClientsKeepPlaces` rests on the table having the very
time at which the client was last heard, as long as it was never silent for too
long (`ClientInv`): an "ok" to a heartbeat alone proves nothing, since a removed
client gets it too.

**`NodeRegistryProofs`.** `PointersStayValid` (with `TableInv`: absent entries
are absent as a whole, and the sweep has work only while it holds the lock in a
hive that is up) and `RevivedByNews`, whose steps are those that lower an age or
set a status. `LiveNodesStay` holds for any interval and timeout and for exchanges
of any duration. `TimedInv` bounds the age of the entry of a node that is not late
by `delay` and what its agent has waited for its ticker (`Waited`, at most one
`Interval`), and says that `CheckStale` condemns only nodes that are late: the
test it has made cannot be overtaken by `late`, which only a registration resets.

The balancer's theorems are here as well, since it chooses among these nodes: they
are of its own specification, `SelectionSpec`, and nothing of the registry is used
but the set of nodes. `SelectionIsJustified` and `BestIsChosen` rest on `SelectInv`,
which follows the call: nodes usable throughout are not lost by the filter, what it
listed and asked was healthy at some time, and what it kept had a free slot at
that time or later.

**`ClusterProxyProofs`.** `QueueKeepsOrder`, `QueueHolds`, `CallsShown`,
`HistoryKept` and `HistoryIsTrue`, from one invariant `ProxyInv`: the queue is
strictly ordered and holds the accepted requests that were not cancelled, the
history is the tail of `ended`, which has every request that is over once, and a
request's place in its handler says what holds of its node, its status, the
active map and what the client was told (`Stage`). An insertion
before the first item of lower priority keeps a strict order; that is a lemma on
sequences, as is the removal of an item.

**`PriorityQueueProofs`.** `WakeUpsReach`: `NoLostWakeup` alone is not kept by a
worker that `Close` woke and that returns nil; `WakeInv` adds that on a closed
queue somebody waits only if it is empty. `JobsStay` and `BestIsFirst` hold for
any IDs, shared ones too. `BusyInv` follows the job whose place a worker's call
cleared (`wgone`), which with a shared ID need not be the one it was handed
(section 6); it is this place that no two workers have in common.

**`CodingAgentProofs`.** `MessagesKept`, `MessagesLogged`, `DeletedForGood` and
`ArchivedForGood`, from one invariant, `AgentInv`. Its parts: the types, and what
a request's place says of the object, the message and the rows it has in hand
(`ShapeInv`); as long as nothing disturbed it, a split point taken before the call
of Ollama still splits off the messages its summary was made from, and rows chosen
for removal are accounted for by the summary (`SplitInv`); nothing happens before
the creation (`BirthInv`); a deletion that nothing overlapped is alone until it is
through and leaves nothing that could be found (`DeleteInv`); as long as a session
has one object, and no UPDATE was on its way when it was archived, an UPDATE is to
write what the object has, and the object is archived before the row is
(`ObjectInv`). `OldestKept` is the lemma on `created_at`: a message stored behind a
split point leaves what lies before it as it was.

**`MeshProofs`.** `MeshTypes`, `NobodyIsOwnPeer` and `GonePeersStayGone`, for any
servers, addresses and seeds, mutual ones too, and any registrations. The
invariant is the types together with `NeverOwnPeer`: a poll refreshes only what is
listed, so it is the invariant itself that keeps a poll from touching the server's
own entry. `handlePeerRegister`, unlike `handlePeerIntroduce`, does not look for
the server itself, so an operator can enter it; `own` records that, and the
theorem says that there is no other way.

`GonePeersStayGone` says when the tables are done with a peer that is gone: when
nobody runs at its address, no table has it as alive, and nothing that names it is
on its way (`Forgotten`). `StepForgotten` takes the steps one by one: an exchange
gives out only peers that are alive, a merge enters only what it was given, a poll
needs someone at the address. How long it takes until then has no bound in the
code: each server that learns of the peer starts its 30 s anew, and two that are
each other's seeds can do so for ever (section 6).

The theorems on `Forwarding` are of its own specification, `ForwardingSpec`: the
peer that is asked may be any, so nothing of the tables is used. They hold for any
servers, tasks, IDs and sizes and any number of crashes. `ResultsStayTrue` needs
that the maps hold jobs under their own keys, that a poller is given a result only
of a job that has one, and that completed jobs stay so through crashes. `RunsAreFew`
needs `Stage`: a task is submitted once to its server and once to its peer, and
to the second only if it was refused by the first, or if the first did not work
out. Each handler has a lemma, on its own task; `OthersKept` has the rest.

Only model-checked: the five liveness properties (`OpenIsTemporary`,
`AcceptedJobsFinish`, `SignalEndsProcess`, `SilentNodesLeave` and
`EveryRequestAnswered`), which hold under fairness and are out of the prover's
reach.

## 6. Abstractions to keep in mind

- Status strings written without a lock can be read torn; a torn value equals no
  constant it is compared with and takes the branch of any other value, which is
  one of the modelled outcomes.
- Request IDs of the proxy are nanosecond timestamps and taken as unique; job IDs
  of the server are millisecond timestamps and are not.
- The `notify` channel of `internal/queue` has no reader. The net/http writer can
  always flush, so "streaming not supported" is not reached.
- Agents never report active connections, so free slots equal capacity in the
  running program; `Balancer` leaves them free to change.
- A heartbeat never sets a node online: one marked offline, or unknown after a
  restart of the hive, stays out of rotation until a heartbeat fails in transport
  and the agent registers again.
- `NewJob` leaves the priority at 0, which is realtime.
- `NewCodingAgentManager` is called with a nil queue (`handlers.go:215`);
  `CodingAgent` has the queue it is typed for.
- The coding agent's counters are left out, `TotalTokens` too: any message may
  pass the threshold. Every `created_at` is different. Rows that cannot be scanned
  are taken as a failed read. How a request waits for its answer (queue, peer or
  direct call) is one place: nothing of the session is touched there.
- The forward of a chat makes its ID anew, from a later timestamp; `Forwarding`
  uses the same, which collides more often.
- A client's `JobsSubmitted` is counted without a lock and only shown.

Seen while reading, and not the subject of a run:

- `main.go:135` says "Graceful shutdown with job queue drain": `Shutdown` makes
  `ListenAndServe` return, and the deferred `Stop` then closes a closed channel
  and panics, unless `os.Exit` comes first. `ServerShutdown` has both ends.
- `main.go:143` says "up to 30 seconds": `Stop` waits for the running jobs without
  a limit. A listener that fails (`main.go:166-169`) ends the process with jobs
  running, at any time.
- `README.md:487` says "Peers removed after 30s without beacon": every server that
  a dead peer is handed on to starts its 30 s anew, since `exchangePeers` discards
  the age the sender had for it (`mesh.go:265`), and servers that are each other's
  seeds, as in `hive-server-go/DEPLOYMENT.md:105-134`, or seeds in a ring, can keep
  it up for ever. A host that restarts under another ID answers the polls for its
  old one (`mesh.go:563`), which stays in the tables too; the `mesh` run gives
  every ID its own address, the theorem does not.
- One POST to `handlePeerRegister` (`handlers.go:581-588`) enters a server in its
  own table, and it may then forward its jobs to itself.
- Two compressions of a session that overlap remove messages nobody summarised:
  the second uses a position from before the first (`NothingForgotten` excludes
  this). A message stored before the system prompt is can push the prompt into a
  summary. `coding_agent.go:481` says "Keeps the most recent N messages"; the
  split point counts from the oldest. A message whose INSERT comes after those of
  enough later ones lies before the split point when it is stored, and is removed
  with what was summarised without it.
- A failed audit insert of the coding agent is only logged (`coding_agent.go:679`),
  and the system prompt of a session is stored without one (`coding_agent.go:66`,
  130-144).
- `coding_agent.go:601` says "permanently removes a session and all its
  messages"; a send that waits for its answer meanwhile stores it and caches the
  session again. A send that has read "active" for its UPDATE (`db.go:508-510`)
  undoes an archive whose own UPDATE comes first; so does one that holds another
  object of the session, after it was read back.
- `openai_compat.go:383` says "Find the last assistant response"; it takes the
  oldest of the five newest entries.
- Two chats with one timestamp may be given each other's answer
  (`ResultsAreTrue` says no worse happens). `callOllamaDirect` and the forwards do
  not look at HTTP statuses (`openai_compat.go:605-651`, `handlers.go:849-854`): an
  error of Ollama or a 401 or 429 of a peer is an empty completion, and so is a job
  polled between `Status` and `Result` (`queue.go:183-184`).
- The server's WriteTimeout is 600 s (`main.go:131`), as long as the longest of its
  handlers may take: the last answer need not arrive.
- The heartbeat and job routes read their IDs from the query and not from the
  path. `LogJobEvent`, `LogForwardEvent` and `LogError` have no callers. Nobody
  waits for the audit flusher at a shutdown. `X-Request-ID` is set after the body
  was written. `GetRequestTimeline` orders by whole seconds.
- `auth.go:76` says "Rate limiting by IP"; without a proxy's header the key is
  the remote address with its port, so that every connection has a bucket of its
  own. A rate of 0 admits one request per window. Windows begin with a bucket, so
  that up to 199 requests may be admitted within a minute, where `README.md:176`
  says 100 per minute; `RateBounded` states the bound the code has.
- A heartbeat of a client that was removed is answered "ok" (`handlers.go:394-395`).
- `circuit_breaker.go:35` has an `Interval`, "Minimum interval between failure
  counts", that nothing reads: every failure recorded counts, as the properties of
  `CircuitBreaker` have it.
- The open period of a breaker (`circuit_breaker.go:34` "How long circuit stays
  open before half-open") counts from the last failure, which a call admitted
  before the trip renews when it fails after it.
- The proxy records a request as complete when the node answered with an error
  status (`proxy.go:156`) or the stream broke off (`proxy.go:219-229`). The order of
  the history is that of the recording, not of `CompletedAt`.
- Neither the agent's posts (`cmd/agent/main.go:140`, 154) nor its questions to
  Ollama (221) have a timeout: one that hangs takes a live node out of the rotation.
- `SelectNode` asks for health and slots under separate holds of the node's lock: it
  may choose a node that never was healthy with a free slot (`balancer.go:46`).
- A request whose cancellation was confirmed (`proxy.go:270-272`) may still run:
  the handler sets the status to running whatever it was.
- `circuit_breaker.go:89` says "Allow limited requests in half-open state"; the
  branch returns true for all of them.
- After `Stop` the buffered jobs are dropped (`main.go:141` "draining job
  queue"), and `Submit` still accepts jobs no worker will take (`main.go:147`
  "Stop accepting new jobs").
- The goroutines that insert token records are not joined before the database is
  closed.
- `MaxConcurrent` (`config.go:41` "Max concurrent requests per node") is never
  read.
- Round robin indexes a list that comes from a map in random order, so it does
  not rotate; `balancer_test.go:93-97` passes a fixed list.
- `Peek` (`priority_queue.go:209` "without removing it") removes an urgent job;
  jobs are removed by ID, so another job with the same ID may go instead, and the
  one returned may be returned again; an
  urgent batch job goes before a realtime one (`IMPLEMENTATION_SUMMARY.md:289`
  "Critical requests never wait behind batch jobs").
- `Stats` (`priority_queue.go:271-277`) blocks on its own mutex.

## 7. Not modelled, and what is left

Not modelled:

- the job stream (`stream.go`): clients subscribe, but `NotifyJobUpdate` has no
  caller and nothing is ever published;
- the response cache (`cache.go`): no handler looks an answer up in it;
- the model registry and providers: `RegisterPeerModels`, `RemovePeerModels` and
  `DecrementRefCount` have no callers, so that its reference counts mean nothing;
  probes are I/O, context sizes are tables;
- streaming of chats, which passes bytes on, and the translation of OpenAI
  messages, which keeps no state;
- token records and reports of the database, which are written by goroutines
  nobody joins and read by queries;
- metrics, logs, hardware probes, configuration, HTML and the read-only API.

Left for proofs: nothing of what the runs check but liveness. A proof of the
model of `Forwarding` from that of `JobQueue`, of which its worker is a coarser
version, would tie the two together.
