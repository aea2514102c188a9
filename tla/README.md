# Retrograd in TLA+

Specifications of the concurrent and crash-exposed parts of retrograd, the TLC
configurations that check them on small instances, and theorems about them that TLAPS
checks for every value of the constants. Source paths below are relative to
`src/crates/` (so `server/` is `src/crates/retrograd-server/src/`, `container/` is
`src/crates/retrograd-container/src/`, and so on for the other `retrograd-*` crates).

    tlc -workers 2 -config RunControlRaces.cfg MCRunControl    # one run of the list below
    tlapm RunControlProofs.tla                                 # the proofs of a module

`PROJECT.json` holds the details this page leaves out: the lines of the source each
definition stands for, the hazards of the code line by line, and for each checked property a
mutant (a plausible bug in one definition) that breaks it. The definitions introduced in a
module by "A fault:" are those mutants; no specification uses them.

## 1. Inventory

Retrograd trains and serves language models on one machine. A resident server drives runs
(training loops) on a GPU; a rollout runs tool calls in containers; an inference scheduler
shares a KV cache between requests.

| Component | State it keeps | Operations | Correct when |
|---|---|---|---|
| **Run status table** `server/runtime/registry.rs`, `dto/runs.rs` | none | `transition_allowed`, `is_terminal` | nothing leaves a terminal status; re-asserting a status is no conflict |
| **Run worker and control** `server/runtime/{worker,control}.rs`, `api/{control,inference}.rs`, `shutdown.rs` | status and terminal event of each run, device semaphore, bounded command channel, the thread's pause / cancellation / checkpoint flags | create, queue for the device, load, callbacks (poll, boundary), pause, resume, cancel, checkpoint, ask, withdraw a queued run, drain | the permit always comes back; every run ends in a terminal status, announced once it is true; status and thread agree; a cancellation is not weakened, and ends the run |
| **Run record** `server/runtime/{registry,journal}.rs`, `api/{runs,artifacts}.rs` | registry, idempotency keys, `run.json` per run | create under a key, rewrite at every transition, delete, scan at restart | one run per key; what a client was told survives a crash; a restart leaves nothing that claims to run; the record catches up with the run |
| **Event streams** `server/runtime/{registry,journal}.rs`, `api/events.rs` | append-only log, ring, broadcast, `events_finished`, one position per stream | emit, subscribe and replay, follow, lag, page of metrics, restart | no event lost unannounced or twice; a stream ends, and not early |
| **Sandbox pool** `container/pool.rs`, used by `agent/rollout/*`, `env/sandbox.rs` | idle list, leased set, `live` count, waiters, janitor's channel | acquire, hand out, release, reclaim, prewarm, shutdown, force cleanup | at most `max_live` containers; one holder at a time, clean; no lost wake-up; no lost slot; nothing left behind |
| **Serving session** `openai/session.rs`, `server/runtime/worker.rs` | inbox, yield flag, the chat model on its thread, the device lease | submit, ensure, load, serve, pump, yield, idle unload | gives the device to a run that waits; never two owners |
| **Inference scheduler** `infer/{scheduler,kv}.rs` | admission queue, slots, prefix tree, KV cells, active adapter | submit, admit, evict, step, cancel, retire | one terminal event per request; cells conserved; no starvation |
| **Checkpoint store** `checkpoint/lib.rs`, `engine/trainer/checkpoint.rs` | canonical, temporary and backup directories, the export beside them | write, replace, load | the last complete checkpoint is readable after a crash or failure at any step |
| Run loop and controller `run/*` | iteration, schedules, patience | boundaries, evaluation, saves | stops and saves where asked |
| Server API surface, configuration, plans, specs | none | parsing, validation, DTOs | pure |
| Agent rollouts, environments, tools, judge, observer | per-episode state, child processes, files | turns, tool calls, rewards, export | sequential per episode |
| Responses and chat API `openai/*` | stored responses | translation, tool-call parsing | pure but for the store |
| Container client, images, reaper | engine socket | I/O | the pool's environment |
| Training algorithms, engine, ffi, RIR compiler | tensors, kernels | numerics, code generation | numeric tests |
| CLI, UI, clients | none | arguments, output | - |

How they interact: an HTTP handler resolves a plan, registers a run and spawns its *worker
task*; the task queues for a permit of the *device semaphore*, then gives its run a *thread*
whose training loop calls back into `ChannelControl`. Handlers talk to the thread only
through a bounded command channel read inside those callbacks, and to everyone else through
the run's handle (`transition`, `emit`, `persist`). Event streams read the handle's ring,
its log and its broadcast. The agent loop of a run acquires containers from the pool within
one task (all rollouts are joined there) while a janitor task, a warm-up and a signal
handler touch the same pool in parallel. The serving session is one more client of the device
semaphore, asked to step aside by a worker about to queue; it pumps the inference scheduler
between two envelopes of its inbox. A run's boundary writes a checkpoint, `best` over its
predecessor; a resume or a fork, of this server or another process, loads it by path.

What is hard here, and what the properties aim at: handlers act in three separate steps
(read the status, queue a command, ask for a transition) that race the thread, each other and the
drain; three writers rewrite one `run.json` with snapshots taken under a lock and written after
it; a crash lands anywhere, also in the scan of the restart; a stream subscribes, samples and
replays while an event is half published; a deadline drops an acquisition at any await; a
wake-up meant for a waiter that is no longer there; an eviction takes the cells a request was
charged without; a writer dies between the two renames of a replacement. `PROJECT.json` "hazards" lists them at
their lines.

## 2. Modules

| Module | Role |
|---|---|
| `RunStatus` | the transition table, no state; extended by the others |
| `RunContract` | abstract: the status follows the table, the terminal event comes under a terminal status |
| `RunControl` | the worker task and thread of each run, the handlers, the device, the drain |
| `MCRunControl` | its instance for TLC |
| `RunControlProofs` | its theorems |
| `RunRecord`, `RunRecordProofs` | `run.json`, the registry and the idempotency key under crashes; its theorems |
| `SandboxPool`, `MCSandboxPool` | the container pool and the loop that uses it; its instance, with the symmetry |
| `SandboxPoolProofs` | its theorems |
| `EventStream`, `EventStreamProofs` | the events of one run and its readers; its theorems |
| `DeviceSession`, `DeviceSessionProofs` | the serving thread, its lease and yield flag, and the runs that queue for the device; its theorems |
| `InferScheduler`, `MCInferScheduler` | the step-wise scheduler and its prefix tree; the prompts and budgets of its instances |
| `InferSchedulerProofs` | its theorems |
| `CheckpointStore`, `CheckpointStoreProofs` | a checkpoint path written more than once, loads of it, crashes; its theorems |
| `Subsequence`, `SubsequenceProofs` | what a filter keeps of a sequence, in its order (`iter().filter`, `retain`), pairs in the order of nested loops, and sums (`iter().map(..).sum()`); lemmas about them, of which the other proofs are made |

`RunControl` composes worker, handlers, semaphore and drain, because the properties are about
their interleaving. It implements `RunContract` under `announced <- {r : terminals[r] # <<>>}`.
`RunRecord` and `EventStream` take up what `RunControl` leaves out of the same handle (disk and
events); their status sequences are those of the same table. `DeviceSession` takes up the other
holder of the device and sees runs only as tasks that ask, wait, train and give back; it sees the
scheduler as slots that some step frees, and `InferScheduler` is that scheduler in full.

### RunControl and the code

| Model | Code |
|---|---|
| `worker[r]` | where the task (`unborn`..`admitted`, `exited`..`over`) and then the thread (`loading`..`deciding`) is |
| `Acquire`, `Release` | `acquire_owned`, `drop(permit)`: `device` counts free permits, `line` is the semaphore's fair queue; a release hands the permit to the first in line |
| `Withdrawn`, `Admit`, `Start` | the terminal check after the permit, the transition to `starting` whose result is ignored, the thread's start |
| `Callback`, `Drain`, `Drained`, `Pausing`, `Park`, `Wake`, `Continue`, `Stop` | `poll`: drain the channel, apply each command, announce the pause, block in `blocking_recv`, move back to `running`, decide |
| `Answer` | `apply` evaluates or generates and sends the reply, inside the queue it drains (`answering`) or the pause (`answering2`); the handler (`served`) may time out while it works |
| `LoopStarts`, `LoopEnds`, `Fail` | the loop's own start, end and error or panic |
| `Join`, `Conclude`, `AnnounceOutcome` | what the task does with the joined outcome: release, transition, terminal event |
| `Request`, `Send`, `Mark`, `TimeOut` | a handler between its awaits: the status it read, the queued command, the transition, the answer it stops waiting for, before the thread takes the question up or after |
| `RequestWithdrawal`, `Withdraw`, `AnnounceWithdrawal` | cancelling a run that reads `queued` |
| `DrainStarts` .. `DrainEnds` | shutdown: a checkpoint command awaited per run, then a cancellation tried and marked |

`Callback` is one action up to the first point another process can observe; draining one command
is an action, because a sender may refill the channel between two receives.

### RunRecord and the code

`Lookup`, `CreateJournal`, `Register`, `DiscardCandidate`, `Spawn` are the creating request;
`Transition`, `Snapshot`, `OpenDocument`, `WriteDocument` are one rewrite, per writer
(`create`, `worker`, `handler`): `std::fs::write` is an open that truncates and a write; `PersistAgain` is the
second rewrite of `fail()`, after the terminal event;
`Purge`, `UnlinkFiles`, `RemoveDirectory` a deletion; `Crash` forgets everything but `file`;
`ScanSkips`, `ScanKeeps`, `ScanOpens`, `ScanMarks`, `ScanEnds` the restart. A document
is the status it shows and its length: a shorter one written over a longer leaves a tail
that does not parse (`Written`).

### SandboxPool and the code

The state is `PoolState` and `Notify` field by field, plus the program counters of those that use
them. `Inspect` / `Poll` / `Created` / `CreateFails` are `acquire` between its awaits; the
`notified()` future is taken before the state is inspected and registers at its first poll
(`told`, then `parked`), `NotifyOne` / `NotifyWaiters` / `DropWaiters` are tokio's semantics
of a stored permit, of waking all, and of a notified future that is dropped and passes its notification on.
`GroupResets`, `GroupActs`, `Expire`, `GroupCloses`, `GroupEnds` are one group's rollout,
`Reclaim` .. `Destroyed` the janitor, `Warm*` the warm-up, `Shutdown` .. `GivesUp` and
`ForceCloses`, `Sweep` the two ways to close. `exists` is what the engine runs and the pool answers for,
`stray` what it runs and nobody counts: `ContainerSandbox::destroy` logs a removal that fails and answers
nothing, and the pool gives the slot back (`Remove`, used by the janitor, the warm-up and the shutdown). A failed
creation may leave one too (`CreationLeaves`), and the sweep may leave either.

### EventStream and the code

`WorkerEmits` / `HandlerEmits` number and log an event under the ring's lock, `PushRing`,
`Broadcast`, `PublicationEnds` (the store of `events_finished`) finish it. The one terminal event is the
worker's or that of the handler that withdraws a queued run, and a stream cannot tell which. `Subscribe`,
`SampleFinished`, `ReplayRing` or `ReplayJournal`, `ServeReplay`, `ReplayEnds`, `Receive`,
`Lagged` are `stream_events` in the order of the source; `PullMetrics` is a page; `Restart`
forgets ring and broadcast and keeps the log.

### DeviceSession and the code

`at` is where the thread of `session.rs` stands: `look` (receive, or block when nothing is live),
`Ensure` .. `LoadFails` the model a request needs and the lease taken for it before the old weights
are known to be gone, `Serve` / `Drained` the request itself, an embedding after the scheduler has
drained, `CheckYield` / `Unloaded` the flag looked at after each envelope, `Pump` / `PumpFails` a step
of the scheduler, `IdleTimeout` the idle bound. `Submit` and `Leave` are clients; `TryStart`,
`RaiseFlag`, `SendWake`, `Join`, `Finish` are a run's task at `worker.rs:46-65`: it tries the semaphore,
stores the flag, sends the Wake, and only then takes its place in the line.

### InferScheduler and the code

A pump is `RemoveCancelled`, the admission of the mode, `Step` or `NoStep`. A cell is a number, so that a
copy (`seq_cp`) shares cells and `Clear` (`seq_rm`) frees those nobody else has; a token in a cell
carries the adapter and weights it was computed under, which is how `SlotsHoldTheirOwn` can tell a
stale prefix. `AdmitFront` is continuous admission, `SelectFront`, `Evict`, `EndSelection` and
`PlaceWave` a lockstep wave with its pins; `Need`, `Committed` and `Fits` are the arithmetic of
`capacity`. `Ready` is what `advance_phases` makes of the groups and `ReadyPool` the copies it starts;
`Decodes` and `Taken` are the rows of `compose` within the batch, decode rows first, `Compose` the tokens
they feed. `Emitted` hands out the samples (`MovedOn` is how far a group has come), `EndIn` ends members,
and `Retire` is `finish_member` for all that end at once: `BecomeNodes` says whose slot becomes a node of the
tree, the others are cleared. The backend is external: `Accepted` says that it refuses a step without cells and
`Written` what it makes resident.

### CheckpointStore and the code

A file is the generation that wrote it. `Begin` .. `StageRecords` are `write_into`, the manifest last; the msgpack
members are two parts, `progress` (read first) and `records` (the others), so that a load can be overtaken between
two members.
`ClearBackup`, `MoveAside`, `Publish`, `DropBackup` the replacement, where a removal takes a file at a time and a
rename is atomic; `CopyExport`, `RemoveExport`, `NameExport` the adapter beside it. `StageFails`, `StepFails`
and `PublishFails` are the error of each call (with the move back, which may fail too), `Crash` the end of
the process. A failed `write_into` or publishing rename discards the staged directory, perhaps in part; every other
error, and a crash, leave it and the copied adapter where they are. `LookCanonical` and `LookBackup` are the two tests of `readable_state_dir`, `ReadPart` each file
that `load_checkpoint` opens, resolved anew where the code resolves anew. `quiet` is a history variable: the
directory at the path was not moved during the load.

## 3. Runs

The bounds are written in each `.cfg`. `CHECK_DEADLOCK FALSE` everywhere: a system whose runs,
updates or requests are over has no step left, and a paused run waits for clients who may never come.
An invariant that names several facts (`StatusTellsTheRun`, `EndsAreTerminal`, `PermitsAndLine`, `LeasesFit`,
`ClosingEmpties`, `KeysOwnOneRecord`, `RecordsAreTrue`, `StreamIsComplete`) is the conjunction of the
definitions just above it in its module.

### Passing

- **RunControlRaces** - one run, two concurrent requests at a time over all seven routes, four
  requests in all, a queue of two, a drain at any time. Two handlers and a late request
  are what every disagreement found needs; a question being served, another in the queue behind it and a
  late one that times out make the fourth; the drain adds a third sender; a queue of two
  becomes full. Shows: types and queue bound; terminal events true; the run ends terminal;
  a parked thread shows `paused` unless a cancellation overtook it, and conversely; the statuses
  possible at every place of the worker; an awaited question is always still queued to somebody who
  reads, or is the one its thread is answering; a requested checkpoint is saved by the callback that stops; the contract is implemented;
  a cancellation is never weakened.
- **RunControlEnds** (`FairSpec`) - two runs for one permit, so that one waits for the other, two
  concurrent requests over pause, resume, cancellation and question, so that every order of two of them is met.
  Permits and the line conserved on every way out; every run ends unless some run
  is parked in a pause; `cancelling` leads to the end of a run in which no pause was ever queued behind a
  cancellation (`PauseBehindCancel`). With one, it does not: see `CancelReleasesPause` below.
- **RunRecordRaces** - two creations with one key, three writers of each record, deletions, two
  transitions per run, two crashes, of which the second may fall in the scan of the first. One loser and one winner are the
  whole race for a key; two transitions make two snapshots that can overtake. Shows: one driven
  run per key, no trace of losers, an answered run on disk, no false outcome on disk, restored runs
  settled in memory and on disk.
- **SandboxPoolRaces** - groups of two and of one on two reusable containers out of three names,
  two leases per container, two updates, deadlines, failures, warm-up, shutdown, forced cleanup.
  Three members make one wait while two hold; two updates make the warm-up and the
  late releases of the last update meet the next; one removal that fails (`Failures`) leaves a stray that the
  pool no longer counts, beside two containers that it does. Shows: the containers the pool answers for within the
  bound, exclusivity, no sleeping
  waiter beside a free slot, none left waiting in a closed pool, a shutdown that drained left
  nothing but what the engine had failed to remove, an idle container was cleaned since its last episode. `BoxSymmetry` permutes container names, which no
  definition distinguishes; the run has no liveness property.
- **SandboxPoolServes** (`FairSpec`) - no deadline and a pool as large as the demand, a third name for what a
  failed removal leaves: every counted slot is held, every group acts.
- **EventStreamReplay** (`FairSpec`) - a ring and a channel of two under three metrics, the
  terminal event and one event of a handler, at most two connections, pages of one: the log is outlived by
  neither ring nor channel, so both replays, the notice of lag and a resumption are reached, and the
  restart. Shows: gaps announced, what was seen is recorded, an ended stream complete, pages
  miss nothing, a stream opened in time ends.
- **DeviceSessionServes** (`FairSpec`) - two chats, an embedding, a request of a second base model with
  a budget of its own, one run, one permit, one slot, a queue of one: one request decodes while
  another waits in the scheduler and a third is refused at the inbox, and the run asks at any of those moments.
  Shows: no weights without a permit and no permit lost; the thread never blocks over a raised flag whose Wake
  has been sent; a stream in flight is lost only to a change of base model, never to a yield; every request
  accepted comes to an answer and every run that asks trains.
- **InferSchedulerServes** (`FairSpec`) - six requests over two slots and nine cells, a queue of two, a batch of
  two, both admission modes: two with one prompt (a shared prefix), one that extends it, one with two
  completions under another adapter, one too large for the pool, one with a broken adapter, a client that
  leaves, steps that fail, one change of weights. Nine cells hold two of the requests and not three, so admission
  waits and evicts; the third prompt is a continuation, so a node of the tree is hit in part. Shows: a slot
  holds its user's own prefix, under the adapter and weights in force, whatever was copied or evicted; a step
  always has rows, and in lockstep its cells; each completion is told of its end exactly once;
  every request is told in the end.
- **CheckpointStoreCrashes** - three generations of a run that has an adapter, a bundle and optimizer
  state, every failure and a crash at every step of each, one load at a time. The second generation
  replaces the first and the third meets what an interrupted second left: both places of the backup, and a
  staged directory that is not its own. More
  generations repeat the third; loads change nothing the writer reads, so one stands for any number.
  Shows: the directory a loader resolves to is always the complete last generation that landed; an Ok means
  landed and exported; a load that no rename overlaps succeeds with one generation, the latest, and none
  ever reads a file of a write that did not land.

### Disagreements between the source and its own words

Three are runs that TLC must find violated, with the quotation in "findings":

- **RunControlQueuedCancel** (`api/control.rs:101`) - a cancellation that read `queued` lands after
  the worker's terminal check: the run is `cancelled`, announced, and trains to its end.
- **SandboxPoolDeadline** (`pool.rs:122`) - a deadline that drops an acquisition in the middle of a
  creation loses its slot for good.
- **InferSchedulerOvercommit** (`scheduler.rs:1341`) - continuous admission evicts a node a live request was
  copied from; its cells stay and are counted by nobody, and a later step runs out of cells and fails every
  live request. Lockstep waves pin such nodes.

The others are stated as definitions of the modules. Each is violated by the instance named here:

| Definition | Instance | What the code does |
|---|---|---|
| `RunControl!ResumedRunShowsRunning` (`api/control.rs:66`) | one run and client, offers `pause`, `resume`, two requests | a pause and a resume drained by one callback: the run trains, shown as `pausing`; a later pause is answered 200 without being queued |
| `RunControl!CancelReleasesPause` (`runtime/control.rs:245`) | one run, two clients, offers `pause`, `cancel_boundary`, two requests | a pause queued behind a cancellation: the thread parks, told to stop, and only a drain wakes it. `CancellingEnds` leaves such runs out by name and `EveryRunEnds` excuses a parked run |
| `RunRecord!RecordCatchesUp` (`registry.rs:249`, `journal.rs:4`) | one create, no key, `MaxMoves = 4`, no crash | two writers of one `run.json` overtake each other: the record stays behind the run, or does not parse |
| `SandboxPool!GroupSerializes` (`pool.rs:10`) | `FairSpec`, one group of two, `MaxLive = 1`, no deadline | a group larger than `max_live` does not serialize, it blocks: all members reset before any is released |
| `SandboxPool!HardBound` (`pool.rs:57`, `pool.rs:122`) | `SandboxPoolRaces` | `max_live` is a "Hard bound on live containers"; a removal that fails is logged (`container/sandbox.rs:104`), `live` goes down and another container is created beside the one that still runs |
| `DeviceSession!YieldIsHonoured` (`session.rs:501`) | two runs, one permit, two slots, a queue of one, three requests: two chats, the third of another base model and an embedding; `Budgets = {q2}`, `Leavers = {q1}` | the thread swaps the flag away and gives the device back, and its next request retakes the permit with `try_acquire` before the run that asked has its place in the line: the run waits for the idle bound or another run's ask |
| `InferScheduler!StepsGoThrough` (`scheduler.rs:1862`) | lockstep, `Torn = TRUE`, requests `{a, b}`, `MinPrefix = 3` | `remove_cancelled` loads the leader's flag and then the members' flags once more; a client that leaves between the two ends the leader of a merged group with no hand-over, and its siblings wait for a prefix nobody computes |
| `CheckpointStore!LoadsAreWhole` (`checkpoint/lib.rs:630`) | `CheckpointStoreCrashes` | a load resolves the path anew for each payload: one that overlaps a replacement (a fork of a live run's `best` with more than one permit, a resume from another process) succeeds with records of one generation and adapter or moments of the next; only the bundle has a fingerprint to refuse it |

More were met and are not properties: after a crash between the two renames of a replacement,
`readable_state_dir` serves the backup "transparently" but the server's listing (`api/artifacts.rs:337`) and
fork (`resolve/fork.rs:267`) look for the canonical directory only and see no checkpoint; a crash, or an
error between the staging and the publishing rename, leaves the staged directory behind for good, because its name
holds the pid (the model leaves it too, nothing ever reads it); and a recycled container, acquirable only "after it
is clean" by its doc, has its workspace wiped before the processes of the episode are killed
(`container/sandbox.rs:120-158`), so one of them may write in between: `IdleIsClean` says that the cleanup went
through, not what it left.

### Fairness

- `RunControl`: weak fairness of each run's task and thread, of each handler after its first
  step, of the drain after its start (threads are scheduled, tokio polls what is ready); strong
  fairness of `LoopEnds`, because a training loop has finitely many iterations however often a
  callback delays it. Nothing of clients: they may never ask.
- `SandboxPool`: weak fairness of each acquisition, release, group and of the janitor: the
  runtime polls what is ready, the engine answers each call with success or failure, episodes end.
  Nothing of deadlines, warm-up, shutdown and signals.
- `DeviceSession`: weak fairness of the serving thread, of its idle timer and of each step of a run's task.
  Nothing of clients.
- `InferScheduler`: whoever owns the scheduler pumps it while it is not idle (`pump` in the session's
  loop, the actor's, the rollout's). `FairSpec` writes weak fairness of `Pump` as "idle again and again, or pumping
  again and again": `Pump` is enabled exactly when the scheduler is not idle, which `StepsGoThrough` backs,
  and evaluating `ENABLED` of `Pump` in every state is too expensive for TLC.
- `CheckpointStore`: none; its properties are safety.
- `EventStream`: weak fairness of the worker's reports, of a publication that holds the lock, of a
  connected stream. Nothing of handlers, pages, connecting or disconnecting.

### Assumptions of EventStream

A line of the log is one `write(2)`, seen whole or not at all. Events emitted by handlers after
the terminal event fit the channel (`RoomAssumption`; `BROADCAST_CAPACITY` is large). Readers
change nothing the run reads, so one stream and one puller stand for any number. Left out: the merged
stream of all runs, which has no resume point, and the deletion of a watched run's directory.
`StreamEnds` is stated of streams opened before the terminal event: a client that
resumes at exactly the terminal event's own number, between its broadcast and the store of
`events_finished`, gets an empty replay, reads `false` and waits on a channel that stays silent
(`api/events.rs:113`).

## 4. Proofs

TLAPS checks 16 listed theorems of `RunControl`, 6 of `RunRecord`, 4 of `CheckpointStore`, 4 of `DeviceSession`,
6 of `SandboxPool`, 5 of `EventStream` and 5 of `InferScheduler`, with the lemmas they rest on. `SelectSeq`,
`FoldLeft` and the folds over sets are defined by recursion, which the provers cannot unfold over
data; the modules that are proved about filter by `Subsequence` instead, where the positions kept are a set
and the sequence a function of it, so that a theorem about it is one about cardinalities. Sums are treated alike:
`Total(f)` is the number of the pairs `<<x, n>>` with `1 <= n <= f[x]`, and two sums are compared by a map between
their pairs.

**RunControl**, for every finite set of runs, every set of clients and offers, every queue depth,
number of permits and of requests (the named `ASSUME`s of the module). The statements that the runs
check are not all inductive by themselves: that a run ends terminal needs to know which statuses
its worker may find when it concludes, so `Inv` conjoins `TypeOK`, `StatusFitsWorker` (status against
place, the heart of it), `LineFits`, `HandlersFitRuns` (no handler commands a run without a thread)
and `TerminalEventIsTrue`. `RunControlProofs` has one lemma per group of actions, then
`Init => Inv`, `Inv /\ [Next]_vars => Inv'`, and from it: `TypeCorrect`, `StatusAlwaysFits`,
`TerminalEventsAreTrue`, `EndedRunsAreTerminal`, `ParkedRunsShowPaused`, `PausedRunsAreHeld`,
`LineAlwaysFits`, `HandlersAlwaysFit`, their conjunctions `StatusAlwaysTells`, `EndsAreAlwaysTerminal` and
`PermitsAndLineHold` (the forms the runs check), and `ContractKept`: initial states map to initial states and
each step to a `Move`, an `Announce` or a stutter. `Inv` serves four more:
`PermitsAlwaysConserved` (a count over the finite set of holders, changed by one at each acquisition
and release, and by nothing when a release hands the permit over), `AwaitedAsksAreQueued` (strengthened
by: an ask in a queue is its asker's own, and a handler that is served is the only one of its run and that run's
thread is answering), `CancelsAreNeverWeakened` (an action property, from what
`Merged` keeps) and `CheckpointsAreKept` (strengthened by what the callback has decided when it
leaves the loop).

**RunRecord**, for every set of requests, any number of transitions and crashes. `OneRunPerKey` is
not inductive: a deleted owner gives the key away while its writers still write, and the scan brings
runs back. `Inv` adds: a request without a run has nothing in the registry, on disk or with a writer
(`Unregistered`); nothing is driven while the server is down (`WritersDrive`); the key belongs to the
run that was driven under it (`KeyOwner`); a candidate has a handle (`CandidatesLive`); documents leave
room for the one transition a restart adds (`RoomToInterrupt`, for the types). Theorems:
`TypeCorrect`, `OneRunForAKey`, `LosersVanish` and their conjunction `KeysAlwaysOwnOneRecord`. On top of it,
`AnsweredRunsAreOnDisk` needs who keeps the files (`OnDisk`: a registered run has its directory, and `run.json` in it
once the creating request has opened it, which the answer waits for; a deletion forgets the run first), and
`RecordsAreAlwaysTrue` that no snapshot and no document shows an end the run did not have
(`SnapshotsAreTrue`) and that a restored run has no writers and a settled record (`RestoredRest`).

**CheckpointStore**, for every set of payloads, any number of generations and of loads.
`LatestSurvives` alone is not inductive. `IInv` adds where the directories are at each step
of the write (`Places`: the publishing rename finds no canonical directory, everything that removes a
backup has one), what is staged (`Stages`: the directory of this very write, each part of it only over those
before it, and whole when the write turns to what was published) and what the export and the answer rest on (`Answers`). One lemma per group of
actions, then `LatestAlwaysSurvives` and `SavesArePublished`. `LoadsAreAlwaysSound` takes each load apart in the same
way: what is left to read (`TodoFits`: the manifest first, a fingerprint only of a bundle), what it has read has
landed (`SeenFits`), and while no rename disturbs it it stands at the last generation and has read nothing
else (`QuietFits`). A step of the writer that moves the directory ends the quiet of every load, which is why
nothing more is to be shown of it.

**DeviceSession**, for every finite set of runs, any number of permits, slots and requests and any depth of
the inbox. `Inv` says what the thread may hold at each place (`LeaseFitsThread`: a permit from just before a load
until the weights are gone), what the line is (`LineFits`: distinct runs that wait, none while a permit is free),
that the permits add up (`PermitsAdd`, a count over the runs that hold one), and who will see a raised flag
(`YieldIsSeen`: its run has the Wake still to send, or an envelope is queued, or the thread is on its way to the
look after an envelope). One lemma covers every way of giving a permit back. Then `DeviceAlwaysFits`,
`YieldsAreSeen` and, for the action property, `StreamsSurviveYields`. `TypeCorrect` adds the scheduler's bounds
(`SchedFits`: no more live requests than slots and no longer a queue than its capacity, also when an
admission moves the head of the queue into the slots).

**SandboxPool**, for every finite set of members and containers, any groups, limits and number of updates. The
bound on `live` needs to know where every container is, so the invariant comes in layers, each proved from those
before it: `Types`; `Places` and `Leases` (a container is in one place: idle, leased, at the janitor, in the
warm-up or taken by the shutdown; a lease is one member's or one returned entry's); `Phases` (a warm-up
only in training, nobody waiting in a closed pool); `Count` (the containers that exist or are believed to, without the one a
late warm-up destroys, plus the creations under way, are at most `live`, `live` leaves room for a burial, and a
drained pool has `live = 0`); `Clean`. Then `LeasesAlwaysFit`, `ClosingAlwaysEmpties`, `IdleIsAlwaysClean`; the first two are of
the containers the pool answers for, whatever strays there are beside them.
The lost wake-up is the hard one. `FreeSlotsAlwaysWake` adds the list of those who wait (`ParkedFits`: it is exactly the
members parked, each once) and a count: while somebody is parked in an open pool, or holds a future that is not
yet polled and finds no stored permit, the free slots are no more than the members woken and
not yet back (`Awake`). Every action that frees a slot frees one at most and wakes one, and a dropped waiter passes its
notification on; a stored permit means that nobody is parked. `TypeCorrect` adds how often a container was
leased and where the updates are (`UsesFit`, `Names`). `SlotsAreAlwaysHeld`, of the pool without deadlines, turns the
bound on `live` into an equality (`SumFits`).

**EventStream**, for any number of metrics, handlers and connections and every size of the ring, of the
channel and of a page. `LogInv` says where each copy of an event stands: the log numbers its events without a gap
(`LogFits`), the channel is a beginning of it and the ring an end, each behind by what the emission under way has not reached
(`ChannelFits`, `RingFits`), and the end is published after it is logged (`EndFits`). `StreamInv` says of the
connection that a replay is what the log has next after the last frame and reaches what the subscription
will not receive, and that a stream that follows has nothing unannounced between its last frame and its
cursor (`StreamType`, `StreamFits`); `FramesFit` ties what was shown to `conn.last`; `PullFits` says a puller has the
metrics of a prefix of the log. Then `TypeCorrect` (with the bound on a replay, `ReplayBounded`),
`SeenIsAlwaysRecorded`, `StreamsAreComplete` and `PagesAlwaysMissNothing`.

**InferScheduler**, for every set of requests, prompts, budgets and adapters, any slots, cells and batch, both
admission modes, with or without failing steps, and also when a flag is set while `remove_cancelled` runs. `IInv` is
`Types` and `Accounts`. `Types` says what the groups, queue, tree and wave are, and the facts the bounds
need: the slots of live members and of the nodes are those of the pool, a queued request is queued once and not in the
wave, what a wave still has to place fits the free slots (so `Place` never runs out of them), a member that is on has budget
left, and the paths pinned are those of nodes. `Accounts` is `StreamsEndOnce` together with: a request not
submitted has no completion live or told. The count of a request's live completions is followed through
each action by a bijection or a disjoint union of the sets of (group, member) pairs: a retirement renumbers the
groups that stay, a placement adds one group at the end. One lemma per action; then `AccountsHold`, `TypeCorrect` and
`StreamsAlwaysEndOnce`.
`SlotsAlwaysHoldTheirOwn` is proved where no flag is set while `remove_cancelled` runs (`~Torn`, as in both runs that
have the module; with `Torn` the leader of a merged group can end with no hand-over, see the divergences below the runs).
`SlotsHoldTheirOwn` is not inductive: it bounds what a member holds before it decodes, and a step that merges,
copies or retires needs the exact length. `SlotInv` says it: a member holds exactly what its phase has fed (`Span`: the leader of a
prefill `pos` tokens and its siblings none, every other member the prompt and its samples, less the last token) and has sampled as many as the phase allows (`Progress`); a prefill has its leader
on (`Led`); two members never share a slot (`OneUser`); a node holds its path under the tree's key
(`NodesHold`); the slots of members and of nodes are apart and the others empty (`Separate`); and the tree's key is that of the
adapter and weights in force from the placement to the end of the last group (`KeyFits`). A step is looked at slot by slot: the rows that go to
a slot are its own member's, at the places that follow what it holds (`RowsAre`, `WrittenIs`, `WrittenHolds`).

`StepsAlwaysGoThrough` (under `~Torn` too) has two halves. That a pump with live completions always has a token
to feed is `LiveAreAlwaysFed`, which needs the types alone and holds with `Torn` as well: a live group is in
some phase, every phase wants a row, and the first row wanted always fits the batch. That in lockstep the step
finds its cells needs `CellInv`: the cells in use, plus what the live groups still owe (a prefill the rest of
its shared prefix, every live member the rest of its budget), plus what is held for the wave, are at most
`Cells`. The code checks a wave once, while no group is live, against what `capacity` finds committed then, and
never looks again. A request enters the wave at what it needs beyond its hit (`NeedFits`), which stays true
because the node it hit is pinned until the wave is placed: a placement turns what was held for a run of the
wave into what its group owes (`PlacedOwes`, `PlaceWavePays`), although the run's hit is looked up anew. A step
spends what it writes (`StepSpends`), and a cancellation or an eviction only frees. The rows of a step continue
their slots by `SlotInv` (`RowsContinue`). The one assumption this adds, in `InferAssumption`, is that `None`,
the lookup that finds no node, is not a node.

Only model-checked: everything about liveness (`EveryRunEnds`, `CancellingEnds`, `EveryGroupActs`,
`StreamEnds`, `EveryoneIsServed`, `QueuedAreServed`), which is out of this prover's reach. `SlotsHoldTheirOwn` and
`StepsGoThrough` are not claimed with `Torn`. Every safety property that a passing run checks is stated by a theorem.

## 5. What is not modelled

In `RunControl`: the PATCH route (its command changes schedules only), progress events, the chat
session as one more holder of a permit, an operating system that refuses a thread, a closed
semaphore; every run has a checkpoint directory. In `EventStream`: a run withdrawn after its worker's check, whose
thread trains on and emits past the terminal event (the run **RunControlQueuedCancel**). In `RunRecord`: the error and progress a document
carries, a disk that refuses a write. In `SandboxPool`: metrics, the reaper, what happens within one cleanup, a `min_idle` above an update's demand.
In `DeviceSession`: tokens, adapters, tool calls, the control
envelopes but the Wake, a second session. In `InferScheduler`: host snapshots of evicted nodes, retentions,
per-row adapters, lent slots, partitioned pools, the rotation of decode rows when a batch is smaller than the
slots, sampling; a backend that fails during an admission, which drops the requests popped for the wave
(`scheduler.rs:1300`), and a client too slow for its stream, which is cut off without an end event. `InferActor`
(`infer/actor.rs`) is not modelled: no other crate of the repository runs a scheduler through an
`ActorHandle`. In `CheckpointStore`: loss of power (the code syncs nothing), the contents and compatibility of
records, the order among the records but for the first, the directories left by writes before the last one (nothing
reads them), more than one writer of a path. Numerics, parsing and validation, code generation, process and container I/O, the command line
and the web clients have no concurrent state of their own or are out of a model checker's reach; `PROJECT.json` "components" gives the reason for each.

## 6. Plan

1. Done and proved: `RunStatus`, `RunContract`, `RunControl`.
2. Done and proved: `RunRecord`.
3. Done, safety proved: `SandboxPool`, `EventStream`.
4. Done: `DeviceSession` (safety proved), `InferScheduler` (safety proved).
5. Done and proved: `CheckpointStore`.
6. Next: the schedule of the run loop (`run/controller.rs`: cadence, on-demand saves, `best`, patience) over
   `CheckpointStore`; the composition of `DeviceSession` with `RunControl`, the worker's
   `Acquire` split into the session's ask and the line.
7. If room remains: stored responses, the observer's export, the judge's processes.

Theorems still worth proving: those of the modules of 6, when they are there.
A run still to add replaces a smaller one above where the two ask the same question.
