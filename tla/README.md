# TLA+ development of the FEMA iPaaS run pipeline

FEMA iPaaS runs workflows. A trigger event becomes an *execution* (a run), the
run becomes a BullMQ job, a broker in the API server hands the job to a worker
over a socket, the worker's engine executes the steps, and what the engine
reports travels back through Redis into the execution's row in Postgres. A run
may pause at a *waitpoint* and be resumed by a webhook call or a delay.

This directory models that pipeline, from the event to the process that executes
it. Six specifications cover its concurrent protocols and two more say in the
abstract what a component promises; TLC checks them on small instances, and TLAPS
proves all their safety invariants and the two refinements for every instance, under the
conditions that section 5 names.

| module | what it is |
|---|---|
| `PollCursor` | one polling trigger: its cursor, the snapshot that protects it, the poll jobs, publishing |
| `TriggerDedupe` | one event key: the claim in Redis and the servers that submit the event |
| `ConcurrencyGate` | admission of the runs of one workflow: order keys and the concurrency limit |
| `SlotPool` | what the gate promises; `ConcurrencyGate` implements it |
| `JobBroker` | jobs between BullMQ, the dequeue loop, the assignment tracker and the workers' connections |
| `SandboxRuntime` | one box of a worker: the engine process, its socket, reconnects and teardown |
| `RunLifecycle` | one run: row, metadata hash, waitpoints, resume signals, engine jobs, cancellation |
| `WriteBehind` | what the metadata queue promises; `RunLifecycle` implements it |
| `*Proofs` | theorems about each of the six specifications, checked by TLAPS |
| `MC*` and `MC*.cfg` | instances for TLC |

`PROJECT.json` lists components, runs, mutants, the map from definitions to
source lines, findings, hazards and theorems. Paths below are relative to
`src/packages/server/api/src/app/` unless they start with `src/`.

## 1. Inventory

### Modelled components

**Workflow concurrency gate** (`workers/job-queue/interceptors/workflow-concurrency-gate.ts`,
`workflow-concurrency-interceptor.ts`).
State in Redis: a sorted set per order key, scored by arrival time; a sorted set
of active runs per workflow, scored by admission time.
Operations: `enqueue` (when a run is put into the queue), `admit` (when the
broker dequeues it), `release` (when its dispatch ends). `admit` holds a
distributed lock and issues one Redis command at a time; the other two take no
lock. Correct means: the limit holds, runs of one key go one at a time in
arrival order, and no dead entry blocks a run for ever.

**Job broker** (`workers/job-queue/job-broker.ts`, `queue-dispatcher.ts`,
`job-assignment-tracker.ts`).
State in memory: waiting polls, the dequeue loop, assignments of jobs to
connections and their index. State in BullMQ: job states, lock tokens, attempts,
stalled counts.
Operations: poll, dequeue with a chain of interceptors, hand-over, completion,
return to the queue, lock extension, and the reaction to a closed connection.
Correct means: no poll waits while the loop sleeps, no job is lost, no job is
executed twice at the same time, and a closed connection returns its own jobs.

**Interceptors for projects, tenants and the instance**
(`rate-limiter-interceptor.ts`, `instance-concurrency-interceptor.ts`,
`tenant-suspension-interceptor.ts`). State: Redis sets of slots with a TTL. They
run one after the other inside a dequeue, and one that rejects makes the earlier
ones give their slots back. When Redis fails, the first throws and the dequeue with
it, while the instance's interceptor lets the run through without a slot. An acquire
that finds its member there returns without refreshing its score. Correct means: a
pool has no more runs than slots, whatever became of other jobs, and a slot that
leaked blocks nobody for ever.

**Run metadata** (`workflows/execution/executions-queue.ts`,
`workers/job/runs-metadata-queue-factory.ts`,
`database/redis/distributed-store-factory.ts`).
State: a hash per run with a request id, a deduplicated BullMQ job per run, the
row. Any number of writers merge into the hash; one worker per run, under a
lock, copies the hash to the row and deletes it if nobody has merged since.
Correct means: the last update reaches the row, and the side effects of a
finished run happen.

**Waitpoints and resume** (`workflows/execution/waitpoint/*`,
`workflows/execution/execution-module.ts`). State: waitpoint rows, the
`resume-delay` job. A signal consumes the waitpoint if the row says `PAUSED`,
and marks it completed if the run has not come that far. Correct means: a signal
is neither lost nor applied twice.

**Polling cursor** (`trigger/poll-cursor-guard.ts`, with
`workers/rpc/worker-rpc-service.ts`, `trigger/trigger-source/*`, the zombie polling
interceptor, `src/packages/server/worker/src/lib/execute/jobs/execute-polling.ts` and
`src/packages/connectors/common/src/lib/polling/index.ts`).
State in the store: the trigger's cursor, and a snapshot of it with a job id, a
phase and a start time. The engine moves the cursor before the events it fetched
have runs. Operations: `begin` when the broker dequeues a poll, `markSubmitting`
and `commit` around the start of the runs, `settle` when the job completes,
`discard` when the trigger is disabled. Correct means: the cursor passes no event
that has no run, and every event of an enabled trigger gets one.

**Event deduplication** (`trigger/dedupe-service.ts`, `trigger/trigger-run-policy.ts`).
State in Redis: a key per event with a marker while its run is being started and
the id of the run afterwards. Operations: claim, take over a claim that stayed
pending, reclaim after a failed run, bind, release. Nobody signs a claim. Correct
means: one run per event and window, and no event answered as a duplicate of
nothing.

**Sandbox** (`src/packages/server/sandbox/src/lib/`, with `worker.ts` and the engine's
`worker-socket.ts`). State: per box a manager with its current sandbox; per sandbox a
child process, a socket server, a socket, a token. Operations: acquire, provision,
start, execute under a timer, release, invalidate, and the teardown when the
worker loses its connection. Correct means: no engine goes on with a job that was
given away, nothing is left running, nobody is blamed for our own kill, and every
job ends whatever the engine does.

**Executions, worker and engine** are modelled as far as they drive these
protocols: start, enqueue and cancel of `execution-service.ts`, the poll loop of
`worker.ts`, the begin and resume jobs of `execute-workflow.ts`, the progress
reporter and the pausing steps of the engine.

### How they interact

- `execution-service.addToQueue` registers a run in the gate and then adds its
  job; the broker's interceptor chain calls the gate at dispatch and again when
  the dispatch ends. In `JobBroker` the gate is an interceptor that may accept or
  reject; `ConcurrencyGate` looks inside it, with the broker reduced to dequeue,
  completion and return.
- The engine's reports go through the metadata queue; a resume signal reads the
  row that the metadata worker writes. All three meet in `RunLifecycle`, where a
  job is simply started and ended (`JobBroker` shows how).
- The broker calls the cursor guard when it dequeues and completes a poll job; the
  poll hands its events to `startRuns`, which claims each one. `PollCursor` reduces
  the claim to a start that succeeds or fails, `TriggerDedupe` reduces the poll to
  submissions that are repeated.
- A connection of `JobBroker` is a connection of the worker in `SandboxRuntime`: what
  the first calls `AbortRun`, the second takes apart.
- BullMQ, Redis, Postgres and socket.io are external; their behaviour is modelled
  from how this code uses them.

### What is hard

- `admit` and `release` interleave, and processes die between two Redis commands.
- A job is moved in BullMQ first and its slots are released afterwards.
- A lock token can be stale when it is used; a lock can lapse under a live worker.
- A poll outlives its connection; a timeout races a dequeue.
- A row lags behind the hash, and decisions are taken from the row.
- A signal, a delay or a failing child comes before the pause is written.
- A metadata job fails half-way and runs again on the state it has changed.
- A cursor moves before its events are safe, and polls, retries and publishing meet.
- A claim without an owner is taken over, bound and released by whoever comes.
- A process is killed, forked and reconnected by awaits of two connections at once.

### Not modelled

| part | reason |
|---|---|
| engine response watcher, synchronous webhooks, user-interaction answers | a request and one answer over pub/sub with a timeout; no state survives it |
| webhook and app-event triggers, renewals | calls to third parties around one row |
| retries of a run (`FROM_FAILED_STEP`, `ON_LATEST_VERSION`), bulk actions | `RunLifecycle` ends at the first terminal status; next in the plan |
| routers, loops and formulas of the engine | sequential; planned as pure operators |
| provisioning and caches of the sandbox | file system and package installation |
| restore maintenance, queue migrations, Redis state guard | start-up and one-off procedures |
| API modules over Postgres (projects, users, connections...) | CRUD without a protocol of its own |
| web client, design pages, connectors, components, CLI | about three quarters of the repository's lines: user interface and integrations, with no state shared between processes |

The last two rows are why the specifications cover a small share of the repository
by lines. What they cover is the part in which several processes share state.

Inside the modelled components these details are left out:

- the TTL and the extension of the distributed lock: it is a mutual exclusion
  that a crash gives back;
- the priority change of a rejected job, which only affects which job BullMQ
  offers next (any waiting job may be taken in the model);
- uploads of step timings without a status, and the legacy resume endpoint;
- a crash of the API between the merge and the `queue.add` of a metadata update,
  and a crash of an engine;
- updates of a deleted workflow, whose hash is left in Redis;
- a tenant's slot is released only if its limit is still set: limits are
  constants here;
- the connector's own 30-second deduplication (`filterUniquePayloads`), which only
  removes repetitions that `TriggerDedupe` allows;
- schedules that skip a run, and the record of duplicate events;
- a killed engine writes nothing to the store afterwards;
- `cancelQueuedRun` of the suspension interceptor (`tenant-suspension-interceptor.ts:21-32`)
  sets a row that says `QUEUED` to `CANCELED` directly, without the run's lock: the
  discarded job is modelled, the row is not, and in `RunLifecycle` no tenant is
  suspended;
- a `completeJob` that throws at its first read of the job changes nothing; the worker
  then leaves the job to the stalled scan, which a lapse shows as well;
- an `ON_ENABLE` hook that fails, which leaves a saved trigger source without a
  schedule, and the `ON_DISABLE` hook, which runs before the schedule is removed;
- `isReady` reads only `exitCode` (`sandbox.ts:147`), which stays null after a SIGKILL
  until the socket is noticed to be gone; in the model both happen in the step that
  ends the process;
- `killProcess` throws for a child that never got a pid (`sandbox.ts:429`), and
  `shutdown` then leaves its server open; in the model a forked process has a pid;
- V8's own heap abort and the log-size limit are exits like any other; a kill that
  fails for good, and the draining `stop()` of a worker, do not occur.

## 2. Plan

Done, in this order, most important behaviour first:

1. `ConcurrencyGate`: admission, crashes, retries; limit, order and one run per key
   proved.
2. `JobBroker`: dispatch, completion, disconnects; loop, tracker, one live run and the
   pools proved.
3. `RunLifecycle`: metadata, waitpoints, cancellation; no lost update and one engine
   proved.
4. `TriggerDedupe`: claims on several servers; one run per event proved.
5. `PollCursor`: the guarded cursor; no event lost proved.
6. `SandboxRuntime`: the engine process over reconnects; its five invariants proved.
7. `SlotPool` and `WriteBehind` with the refinements of the gate and the metadata
   queue, checked and proved; the rolled-back resume of `handleResumeSignal`.

Next:

8. `RunRetries`: `FROM_FAILED_STEP` and `ON_LATEST_VERSION` composed with
   `RunLifecycle`.
9. Theorems under weaker conditions: one engine for several pauses, once a resume names
   the pause it is for; `OneLiveRun` with lapses, for the worker that holds the lock.
10. An abstract queue that delivers each job to one worker at a time, implemented by
    `JobBroker` without lapses.
11. Engine executors (router, loop, continue-on-failure) as operators against a
    reference definition; `EngineResponseWatcher`.

## 3. The modules and the code

### ConcurrencyGate

One instance is one workflow, because `gateKeys` gives workflows disjoint keys.

| variable | code |
|---|---|
| `start` | progress of `addToQueue`: `register`, then `jobQueue.add` |
| `bull`, `attempts`, `stalls` | BullMQ state of a job |
| `phase`, `lock`, `check` | the dispatch that holds a job, the gate's lock, locals of `liveQueueHead` |
| `orderq` | all order-key sorted sets; scores are `EnqueuedAt` |
| `slot` | the active sorted set; a slot is `live`, `left` by its dispatch, or `old` (its score is past `activeTtlMs`) |
| `releases` | `release` calls between their commands |

Each Redis command of `admit` is an action (`AddToQueue`, `ReadHead`,
`CheckHeadAlive`, `DropStaleHead`, `PruneActive`, `IsActive`, `CountActive`,
`MarkActive`), then `Grant` or `Reject`. `RemoveActive` and `RemoveFromQueue` are
the two commands of `release`. Faults: `AbandonStart` (the API dies between
`register` and `add`), `LoseDispatch` (a broker or worker dies), `LoseRelease`
(the API dies before `release`), `ReturnToQueue`, and `MoveFails` (the move of
`completeJob` throws, which is logged: the job stays active until the stalled scan,
while its place and its slot are released).

Time enters in two places. A slot grows old only after its dispatch has ended,
since `activeTtlMs` is the run timeout plus a minute. A backoff of eight minutes
and a recheck delay of three seconds outlast the release that follows them; the
100 ms of `returnJobToQueue` do not (`Dequeue`).

### JobBroker

`waiters` and `loop` are the dispatcher, `assign` and `keys` the tracker, `slots`
the three Redis pools, `runs` the jobs on workers, `calls` and `returns` the
`completeJob` and `returnJobToQueue` calls between their awaits. `owner[j]` is the
BullMQ token; `Holds(j, t)` is BullMQ's check of it. Tokens are drawn from a small
set, always one that is not in use; `TokenBound = 8` is never exhausted.

A dequeue goes through `TakeJob`, `CheckSuspension`, `AcquireSlot` per pool,
`PassGate` or `RejectAtGate`, and `HandOver` or `NoWaiterLeft`. `DequeueError` is an
exception at any of these awaits, `AllowUnchecked` the instance's interceptor when Redis
does not answer it. The other errors that the code logs and goes on after are
`CompleteMoveFails`, for the move of `completeJob`, and `CompleteLeaks`, `ReturnLeaks`,
`OrphanLeaks` and `RejectLeaks`, for an interceptor's cleanup: the rate limiter gives
back the project's slot and then the tenant's, so what stays taken is both, the second,
or the instance's (`LeakSlots`). `Disconnect` is the synchronous part of the
disconnect listener, followed by `ReturnMove` and `ReturnRelease` per job.
`LockLapses` is free for a job nobody handles and bounded by `MaxLapses` for a job
somebody does. `MaxErrors` bounds the errors of Redis, `MaxFaults` all faults together.

`inherited[p]` are the members that a later dispatch found in pool `p`; since their
score is not refreshed, `SlotExpires` may take such a slot away under a live run. Any
other slot expires only when its dispatch is over, as the TTL is the run timeout plus a
minute. `disturbed` is history: the jobs that were taken back from a worker, by a
disconnect or the stalled scan, had a cleanup fail, or were let through unchecked. These
may run without a slot, or with an inherited one, and `RunsWithinCapacity` does not
count them; what it says is that the fault of one job gives no slot of a full pool to
another.

### RunLifecycle

`row` is the execution's row, `hash` the metadata in Redis, `adds` the callers
between the merge and the `queue.add`, `dedup` and `metaq` the deduplicated job,
`lock` and `meta` the metadata worker. `wps`, `timer`, `signals` and `calls` are
waitpoints and signals; `jobs` and `eng` are the run's jobs and engines; `log` is
the run log file from which the next engine starts. Request ids are drawn from two
values: a merge takes one that the worker has not read, which is all the worker
compares. `last` and `hooks` are history variables.

The workflow is a chain of `Steps` steps that each pause once, the ones in
`Delays` with a delay. The statuses are those the chain can reach; the remaining
terminal ones differ from `SUCCEEDED` in name only here.

`ResumeRollsBack` and `MetaResumeRollsBack` are the transaction of
`handleResumeSignal` rolled back after `onReady` has enqueued the resume: the waitpoint
and the job are both there. `MetaFails` says whether a metadata job may fail at any
of its awaits.

### PollCursor

Events are numbered in the order of the source and the cursor is the newest one
fetched. `slot[d]` is a dispatch on its way: `Begin` (dequeue and `begin`), `ReadCursor`,
`Fetch` and `PutCursor` (`store.get`, `polling.items` and `store.put` of the engine),
`MarkSubmitting`, `StartRun` per event, `Commit` (`submitPayloads`), `CompleteJob`, `Settle`
(`completeJob`). `restore` is one step, because it runs under the guard's lock and is
repeated from the same snapshot if interrupted. `Crash` leaves everything as it is,
`LoseWorker` queues the job again while the submission goes on, `MoveFails` leaves the job
to the stalled scan, and `BeginFails` is the poll that runs without protection.

A user changes the trigger in four steps, with polls in flight or dequeued between any
two of them: `Discard` (scheduler and snapshot are removed), `SoftDelete` (jobs of the
version become zombies), `SaveSource` (the new trigger source is there, for the same
version or another) and `OnEnable` (the cursor is set, unless the trigger is published
with the same settings). `late` is history, about polls that reach across an enabling:
`begun` if one began between the discarding and the enabling, `crossing` if one was under
way when the cursor was set. The properties except what such a poll does, since the code
does nothing about it (section 4).

The guard protects polls under conditions, which the constants name. `Exposures` lets
in what is outside them:

- `overlap`: polls of two jobs at the same time, or a poll longer than
  `IN_FLIGHT_WINDOW_MS`. The default interval of five minutes exceeds the window of three.
- `emptyStore`: a trigger enabled while its source was empty, which has no entry yet.
- `lostAnswer`: the cursor is written and the answer to the write is lost.
- `republish`: publishing with the same settings while there is a snapshot, of a poll
  under way or one that crashed.

`StrayCost` is the price of a lost worker and of a failed `begin` in terms of
`MaxFaults`: these let a poll go on beside its own repetition, or without a snapshot,
so that a second fault would be needed in the same poll to lose events.

### TriggerDedupe

An attempt is one `startRuns` call that carries the event, and each Redis command of
it is an action: `Claim` (`EXISTS` and `SET NX`: an old key only ever expires),
`TakeOver`, `Get`, `Lookup`, `Reclaim`, `StartRun`, `Bind` or `Release`. `key.by` is history:
Redis stores only the marker or the run. Attempts come from outside (`Send`), from
a retried job (`Retry`) and from a worker that left (`LoseWorker`), the last while the
server still handles the first. `job[a]` is the job whose try an attempt is: BullMQ
repeats it while fewer than `JobAttempts` of its tries failed (two, `job-queue.ts:181`), or
at most `MaxStalled` stalled, and nobody repeats a try whose worker left. `RedisFails` is a
command that throws on a living server: the claim stays as it is, and a started run
stays unbound. `SlowStarts` says whether a start may take longer than
`STALE_PENDING_CLAIM_MS`, two minutes.

### SandboxRuntime

`loop[g]` is the poll loop that the connection number `g` started, `cur[g]` the
`currentSandbox` of its manager; both live on after the connection is lost. `box[s]` is
a sandbox with its process. `Shut` is `shutdown` up to the first await, `Kill` and
`CloseServer` the rest of it; nobody awaits it on a disconnect. `Bind` and `Create` are
the halves of `start` that isolate separates. `strays` collects what a
second `start` of the same sandbox forgets. The engine may connect, answer, exit, run
out of memory, lose its socket, or do nothing at all.

`Exposures` again names what the teardown does not provide for: `abort` (the connection
is lost while a job is prepared), `drop` (a reusable engine ends between `acquire` and
`start`), `kill` (an answer overtakes the timer's kill).

### SlotPool and WriteBehind

`SlotPool` has one variable, the jobs that hold a slot: a job takes one while fewer are
held than its own ticket allows, and any number are given back at any time. The
mapping takes `held` to the active set. That a grant respects the ticket it is
granted to, and not only the largest limit, is more than `SlotsBounded` says.

`WriteBehind` is a cell with writers that do not wait and a saver that reads, stores
and settles separately; it may settle only when what is stored is what was written
last. The mapping takes `pending` to the existence of the hash, `copy` to what the
metadata worker has read and not saved.

## 4. Runs

Sizes are distinct states. The runs of `ConcurrencyGate` check deadlock. In
the others the system may rightly stop: all jobs done, a run that is over, no event
or connection left.

| run | constants | checks | states |
|---|---|---|---|
| `GateFaults` | 3 jobs (two share a key), limits 1 and 2, one fault, parallel starts | `TypeOK`, `EveryRunSettles`, `ImplementsPool` | 170,460 |
| `GateCalm` | 4 jobs with and without key and limit, one attempt, no fault | `SlotsBounded`, `RunsBounded`, `OneRunPerKey`, `ArrivalOrder` | 63,860 |
| `BrokerFaults` | 2 jobs, 2 connections, one slot per project, a timeout, a disconnect and an error, one attempt | `TypeOK`, `TrackerIndexed`, `OneLiveRun`, `ReclaimsOnlyItsOwn` | 1,090,627 |
| `BrokerLive` | 3 jobs, one of them unreadable and one suspendable, 2 connections, one slot per project, a disconnect, an error or a lapse under a live worker | `EveryJobSettles` | 332,491 |
| `BrokerCalm` | 2 suspendable jobs, 3 connections, one slot for the instance, a timeout, a disconnect or an error, 2 attempts | `RunsWithinCapacity`, `LoopRunsForWaiters` | 1,416,450 |
| `RunPause` | one webhook pause, two calls per waitpoint, a resume that rolls back | `OneEngine`, `RunEnds`, `FinishSeen`, `ImplementsWriteBehind` | 67,401 |
| `RunMetadata` | a delay pause, a call, a cancellation, two failing metadata jobs or resumes | `TypeOK`, `NoUpdateLost` | 1,164,537 |
| `Dedupe` | 4 attempts, 2 of them sent, 2 tries per job, 2 faults, a failed run, a window that ends, with and without an old key | `TypeOK`, `OneBoundRun`, `NotSwallowed` | 854,591 |
| `Poll` | 2 jobs, 3 events, 2 attempts, 2 faults, an edit, both strategies | `TypeOK`, `NoEventLost`, `OwnCursor`, `EveryEventRuns` | 851,646 |
| `Sandbox` | 2 connections, 2 jobs, 2 faults, 2 tries to bind; reusable or not, isolate or fork | `TypeOK`, `OneOperation`, `NoAbandonedRun`, `OneProcessPerBox`, `NothingLeaks`, `NoFalseBlame`, `EveryJobEnds` | 221,340 |

What they show:

- **GateFaults**: every slot is granted within the limit of the run that gets it,
  although a limit was raised while runs were queued, releases run without the lock
  and a process may die anywhere; and every run settles, because dead heads are
  dropped and left slots expire.
- **GateCalm**: in the absence of faults and repeated attempts the gate keeps its
  promise to users: one run of a key at a time, in arrival order, and no more
  runs on workers than the limit.
- **BrokerFaults**: the tracker and its index agree, a job never executes on two
  connected workers, and a closing connection reclaims only its own jobs, as long as
  a live worker keeps its lock.
- **BrokerLive**: no job is stranded by errors, closed connections or slots that
  leaked into a pool another job needs; the stalled scan and the TTL of the slots
  repair what the code leaves. Without the TTL it fails (that is its mutant).
- **BrokerCalm**: slots that leak, are inherited, released too late or not asked for
  at all let the job they belong to run beside the pool, and no other one. There is
  no lost wake-up.
- **RunPause**: duplicate and early signals, and a resume that was enqueued by a
  transaction that then rolled back, start one engine at a time, because the job id
  is made of the run and the waitpoint; an early signal is not lost; `onFinish` runs.
- **RunMetadata**: whatever fails, the status merged last is in the row or on its
  way there.
- **Dedupe**: take-over, reclaim and the owner-less release lead to one run per event
  and window; only a start whose bind never happened, because the server died or Redis
  failed, leaves a second one. An event that was answered as a duplicate is lost only
  with the job whose claim it met: when that job has used up its tries, or its
  worker left and the submission failed afterwards.
- **Poll**: crash, failed batch, retry and zombie leave no event behind the cursor
  without a run, and no snapshot that a disabling left in place undoes an enabling,
  unless a poll crossed the enabling.
- **Sandbox**: two managers share a box without ever having two processes in it: the
  port is what they agree on. Nothing outlives its shutdown, and every job ends even
  if the engine does nothing.

### Disagreements with the documentation

Two runs end in a counterexample; `findings` in `PROJECT.json` quotes the sentence
each one contradicts.

- **RunCancel** (`CanceledStays`): cancelling looks for `waiting` and `delayed`
  jobs; run jobs have a priority and are in neither state. The job runs and its
  status replaces `CANCELED`.
- **SandboxAbort** (`NoAbandonedRun`): a connection lost while a job is being resolved,
  provisioned or bound kills nothing, since there is no process yet; `start` goes on and
  the engine runs the job that the API has already given to another worker.

The passing runs avoid the following by their constants, or their properties except it.
Changing the constant or dropping the exception as given shows it.

| in | with | fails | because |
|---|---|---|---|
| `GateCalm` | `MaxAttempts = 2` | `OneRunPerKey`, `ArrivalOrder` | a failed attempt gives up its place although it will be retried; it returns with its old score and is admitted beside the run that took its place |
| `GateCalm` | `ParallelStarts = TRUE` | `ArrivalOrder` | the events of a batch register in the order in which their awaits end |
| `BrokerFaults` | `NoJobOnClosedConnection` as an invariant | that | the waiter of a closed connection is handed a job that no disconnect will return; the stalled scan does (`job-assignment-tracker.ts:6` promises otherwise) |
| `BrokerFaults` | `MaxLapses = 1` | `OneLiveRun`, `ReclaimsOnlyItsOwn` | a job whose lock lapsed under its worker is dispatched again; the index of the first connection keeps it |
| `BrokerCalm` | `\ disturbed` dropped | `RunsWithinCapacity` | `returnJobToQueue` moves the job first, and its next dispatch loses the slots it found to the late release; a leaked slot is inherited by the next dispatch and expires under it; with Redis down the instance's interceptor lets a run through (`instance-concurrency-interceptor.ts:15`) |
| `RunPause` | `MetaFails = TRUE` | `RunEnds` | a metadata job fails after deleting the hash and before looking for a completed waitpoint; its retry finds no hash (`waitpoints.mdx:63` promises otherwise) |
| `RunPause` | `MetaFails = TRUE` | `FinishSeen` | it fails between the row update and `onFinish`; the retry takes the run for one finished before |
| `RunPause` | `Delays = {1}`, `MaxSignals = 0` | `RunEnds` | a delay that is over before `PAUSED` is in the row is skipped, and nothing fires again |
| `RunPause` | `Steps = 2`, `MaxWaitpoints = 3` | `OneEngine` | the signal of the second pause arrives while the row still says `PAUSED` from the first |
| `Dedupe` | `SlowStarts = TRUE` | `OneBoundRun` | a live start is taken over, and its failure releases the claim of the one that took over |
| `Dedupe` | `~TriesLeft(b)` dropped from `GivenUp` | `NotSwallowed` | a job fails twice, the second time to start the run; another submission met its claim and was answered as a duplicate |
| `Dedupe` | `b \in orphans` dropped from `GivenUp` | `NotSwallowed` | the worker of a submission leaves, the job's next try meets the pending claim and ends as a duplicate, then the first start fails and nobody hears of it |
| `Poll` | `late = {}` replaced by `"crossing" \notin late` | `OwnCursor` | a poll dequeued after `discard` and before `softDelete`, or between the saving of the source and ON_ENABLE, crashes and leaves a snapshot of before; the next poll restores it (`workflow-trigger-side-effect.ts:121` runs first) |
| `Poll` | `late = {}` replaced by `"begun" \notin late` | `OwnCursor` | a poll that has fetched before ON_ENABLE puts its cursor after it |
| `Poll` | `"crossing" \notin late` dropped | `NoEventLost` | a poll whose snapshot was discarded fetches after the enabling, moves the cursor, and crashes |
| `Poll` | `Exposures = {"emptyStore"}` | `NoEventLost` | no entries, no snapshot (`poll-cursor-guard.ts:19`): a crash loses the first events |
| `Poll` | `Exposures = {"lostAnswer"}` | `NoEventLost` | the trigger's error completes the job, and `settle` deletes the snapshot |
| `Poll` | `Exposures = {"overlap"}` | `NoEventLost` | a poll that begins within the window of another gets no snapshot of its own; the other settles, and the unprotected one crashes |
| `Poll` | `Exposures = {"republish"}` | `NoEventLost` | `discard` drops the snapshot of a poll that crashed or will, and publishing keeps the moved cursor |
| `Poll` | `StrayCost = 1` | `NoEventLost` | a poll whose `begin` failed, or whose worker was lost, also crashes |
| `Sandbox` | `Exposures = {"abort"}` | also `NothingLeaks`, `OneProcessPerBox` | as in SandboxAbort |
| `Sandbox` | `Exposures = {"drop"}` | `NothingLeaks` | `start` on a sandbox whose engine ended replaces the server without closing it |
| `Sandbox` | `Exposures = {"kill"}` | `NoFalseBlame`, `NothingLeaks` | the kill lands on the next job of a reused engine, and is taken for the kernel's |

Three windows are assumed away in `TriggerDedupe` and seen only by reading: a dedupe
window that ends between `SET NX` and `GET`, a job repeated within two minutes of
its server's death, and a reclaim of a failed run that a user reran meanwhile.

### Bounds

Every bound is a constant named in its module. Two jobs are enough for a race on
a slot, a key or a dequeue loop; the third and fourth let a key, a limit and
neither meet. Two connections are enough for a job to move from a dead worker to
a live one, three (`BrokerCalm`) for the other job to wait beside them. `WORKER_CONCURRENCY`
is 5 by default and 1 in the runs: a disconnect that returns two jobs of one connection
is left to the proofs. In `BrokerFaults` and `BrokerLive` the
project's pool has one slot, so that two jobs compete for it, and `BrokerLive` adds the
unreadable one, which never takes any; in `BrokerCalm` the instance's pool is the narrow
one, so that a run let through unchecked matters. One
fault of each kind is enough for every repair path, and since a
repair ends in the state it started from, a second one meets the first only in
the counters. Two waitpoints cover one pause that is entered again, two signals
a duplicate, two backups a RUNNING update that races `PAUSED`. Two slots of `PollCursor`
let a repeated poll meet the one it repeats, three events leave one before, in and
after a batch. Four attempts of `TriggerDedupe` allow a take-over of a take-over; two
connections of `SandboxRuntime` are what one box can be shared by, as a third begins
when the second is lost. The inductive invariant of `PollCursor`
was also checked with two edits (632,215 states). The proofs have no such bounds.

### Symmetry and fairness

`BrokerFaults` and `BrokerCalm` use symmetry over jobs and connections (`MCSymmetry`), which the
specification does not tell apart there; liveness runs use none.

- `ConcurrencyGate`: the broker keeps dequeuing what is queued, the steps of an
  admission follow each other, runs end, the stalled scan runs and time passes
  (weak fairness). A dispatch that keeps asking for the lock gets it (strong
  fairness on `Acquire`): the lock retries and admissions are short.
- `JobBroker`: connected workers poll again and again (`worker.ts` loops), runs end
  by their timeout, the event loop runs every continuation, lapsed locks are scanned
  and the score of a slot falls out of its TTL. Strong fairness of
  `PassGate` says that the gate does not reject for ever, which is what
  `EveryRunSettles` shows for the gate. Faults have no fairness.
- `RunLifecycle`: workers of the queues go on, a signal that waits for the lock
  obtains it, and every resume URL is called once. Without the last a paused run
  rightly stays paused.
- `TriggerDedupe`: a server that lives goes on, a failed or stalled job that has tries
  left is repeated by BullMQ, and two minutes pass.
- `PollCursor`: the event loop runs every continuation, the schedule of an enabled
  trigger adds jobs, the stalled scan and the backoff bring back the others, and
  three minutes pass. The source, the user and the faults owe nothing.
- `SandboxRuntime`: timers fire, awaits end, kills land. The engine, which runs the
  users' code, owes nothing: neither an answer, nor a connection, nor an exit.

## 5. Proofs

TLAPS proves the following from the named `ASSUME`s of each module, which only say
that constants have their type, jobs are finitely many, arrival times differ and
every limit is at most `Limit`. The bounds on faults are arbitrary numbers.

**The limit holds** (`ConcurrencyGateProofs!LimitHolds`, `TypesHold`).
`SlotsBounded` is not inductive: `MarkActive` adds a slot without looking. The
invariant `GateInv` adds `RoomToMark` (whoever is about to mark has room), which
holds because nobody else can be in the locked part (`AdmissionHoldsLock`) and all
other steps only shrink the active set (`ActiveShrinks`, which is where `release`
without the lock is seen to be harmless). `JobInv` carries what the types need:
`HeadWasRead` for the head that is dropped, `DispatchedIsActive` and
`AttemptsLeft` for the counters of BullMQ.

**No lost wake-up** (`JobBrokerProofs!NoLostWakeup`) and **assignments are indexed**
(`AssignmentsIndexed`). `DispatchInv` is the conjunction of the two with the types
of the dispatcher and the tracker. The interesting steps are `HandOver`, where the
loop tests the remaining waiters, and `Disconnect`, where the index entry and the
assignments go together although the index may hold jobs of other connections.

**Updates reach the row** (`RunLifecycleProofs!UpdatesReachTheRow`). `NoUpdateLost` says
that without a hash the row has the last status, and with one somebody is on the
way. `MetaInv` strengthens it: a set deduplication key means a job is waiting
(`KeyHasJob`), a worker holds the lock (`LockHeld`), the hash has the newest status
(`Newest`), what the worker has read is newest while the request id has not
changed (`ReadIsNewest`), and a hash always has a handler (`Handled`).
`ReadIsNewest` is what the conditional delete relies on.

**The gate is a pool** (`ConcurrencyGateProofs!GateIsPool`). Every step of the gate is
a step of `SlotPool` or leaves the active set alone. `MarkActive` is the only step
that takes a slot, and `RoomToMark` of `GateInv`, which is about the ticket of the job
itself, is what lets it be `Take`; everything else is `Free`.

**The metadata queue is a write-behind cell**
(`RunLifecycleProofs!MetadataIsWriteBehind`). Merges are `Write` (`MergeWrites`), the worker's
steps `Read`, `Save` and `Forget`; the conditional delete is `Settle`, which needs
`ReadIsNewest`, and `KnownHolds` says what the worker knows between save and delete.

**An event runs once** (`TriggerDedupeProofs!EventRunsOnce`, `TypesHold`), if no start
outlasts the take-over age. `DedupeInv` says that whoever is between claim and bind is
who the key names (`HolderOwnsClaim`), a pending claim has a holder or a dead one
or one whose try failed (`ClaimHasHolder`), the run a reclaimer has seen failed has failed
(`FailedWhenReclaimed`), a run that counts is the one the key is bound to
(`CountedIsBound`), and a holder has no run yet (`NoRunYet`). `HolderOwnsClaim` is what
makes the owner-less release and bind harmless, and what `SlowStarts` breaks.

**Events are kept** (`PollCursorProofs!EventsAreKept`, `CursorIsOwn`, `TypesHold`), if
no exposure occurs and strays are dearer than `MaxFaults`. Edits of the trigger come at any
moment. `PollInv` says that one poll is in flight (`OnePoll`), the store and what is on its
way there lie behind the source (`Within`); while no poll has crossed an enabling and the
trigger is not being restarted (`Guarded`), the poll owns the snapshot (`Owned`), what lies between
snapshot and cursor is what it hands over (`HandsOver`), and what lies behind is done
(`Safe`); and while no poll is late there is no snapshot during a restart and none behind
the enabling (`Bounds`). The number of jobs,
events, attempts, faults and edits is arbitrary.

**Order keys** (`ConcurrencyGateProofs!OneRunPerKeyHolds`, `ArrivalOrderHolds`,
`OrderSurvivesCrashes`). `OrderInv` says that of two runs of a key the later one is
started after the earlier has registered (`StartOrder`), a run that may still execute
stays in its sorted set (`StaysQueued`), `release` is only called for a run that is
over (`ReleasedIsSettled`), the head an admission looks into is before the run
itself and is over when it is dropped (`HeadIsEarlier`), and whoever is past that check has no unsettled run before it
(`PassedHead`). The theorems assume `MaxAttempts = 1` and `ParallelStarts = FALSE`, because
the code breaks the order otherwise (section 4). A crash does not: the third theorem
allows any number of them and excludes only `ReturnToQueue` and `MoveFails`, which release
a run that will be dispatched again. The other two are about `Spec`, where
`MaxFaults = 0` excludes both.

**Running within the limit** (`RunsBoundedHolds`, `MaxFaults = 0`). `LimitHolds` is about
the active set; this is about the workers. `LimitInv` says that a limited run past
`MarkActive` has a live slot (`SlotIsLive`), which nothing takes away because the releases
under way are of runs that have left their worker (`ReleasedIsIdle`).

**A job has one live run** (`JobBrokerProofs!OneLiveRunHolds`) and **a disconnect takes only
its own** (`ReclaimsOnlyItsOwnHolds`), if no lock lapses (`MaxLapses = 0`), under any
number of disconnects, time-outs and failing dequeues. `DeliveryInv` says that what
the loop works with, and what executes or is completed over an open connection, is locked
by its token (`LoopHolds`, `LiveHolds`), a token is in one place (`TokensApart`), what is
returned has lost its connection (`ReturnsAreLost`), and the index of an open connection
has only jobs assigned to it on which it works (`IndexIsOwn`).

**Pools** (`PoolsBounded`, `RunsWithinCapacityHolds`). Every step either shrinks a pool or
adds one slot below its limit (`SlotSteps`), so pools keep to their limits under all
faults. That the *runs* keep to them is a different matter, as a run may have lost its
slot. `CapacityInv` says that every job that nothing has disturbed is `Orderly`: it is in
one dispatch at a time, which goes from the loop to a worker to `completeJob`; while it is
queued or waits for its retry it has no slot (`Queued`, `Retrying`), in the loop it has
those of the pools it has passed (`InLoop`), on a worker all of them (`Executing`), and none
of them is inherited (`NotInherited`), so none can expire. The theorem has no condition:
lapses, disconnects and errors of any number are allowed, as each of them only disturbs
its own job (`UntouchedOrderly`).

**One engine** (`RunLifecycleProofs!OneEngineHolds`, `Steps <= 1`). A second engine starts
from a resume, and the code lets a resume in where somebody says `PAUSED`: the row under
the lock, or the metadata worker. `EngineInv` follows that word backwards: it is in the
row, the worker, the hash or the last merge only when the first engine has written its
final log (`PausedIsOver`), after which the job that began the run never comes back
(`EngineHasJob`). The engine of a resume loads that log, so it has no step left to pause
in (`LogAhead`, `ResumesOnce`), which is why there is one waitpoint (`OneWaitpoint`) and one
job id that duplicates, roll-backs and retries all share. For a second pause
`PausedIsOver` fails, and so does `OneEngine` (section 4).

**The box of a worker** (`SandboxRuntimeProofs`: `OneOperationHolds`, `NoAbandonedRunHolds`,
`OneProcessPerBoxHolds`, `NothingLeaksHolds`, `NoFalseBlameHolds`), if `Exposures` is empty;
each exposure has its counterexample in section 4. All five follow from `RuntimeInv`: only
the current connection prepares or keeps a sandbox (`CurrentOnly`), loops do not share
one (`Separate`), a job's sandbox is new (`Unnamed`), a run whose manager no longer keeps
its sandbox has one that is being killed or is dead (`LoopShape`), what runs or listens
is kept or being shut down (`Kept`), an engine has one operation (`Quiet`), a kill is
announced before it lands (`Blame`) and the port of a box is given back after the
kill (`Port`). The number of connections, jobs, bind attempts and faults is arbitrary.

**Types** of all six specifications are proved without conditions. They are not mere
syntax where a counter could run past its bound: `RunLifecycle` needs that a paused step
is one of the workflow's, `JobBroker` that every active job has attempts left.

All inductive invariants were also checked by TLC, on instances like those of the
runs, before they were proved.

Only model-checked: liveness (`EveryRunSettles`, `EveryJobSettles`, `RunEnds`,
`FinishSeen`, `NotSwallowed`, `EveryEventRuns`, `EveryJobEnds`), which rests on fairness
and is outside the prover's reach. The two violated properties, `CanceledStays` and
`NoAbandonedRun` with `abort`, are counterexamples and have nothing to prove.

## 6. Mutants

For every property of a passing run `PROJECT.json` names a definition and a mutated
form of it, kept beside it in the module and marked `Mutant of`: a dropped
comparison, one slot too many, an index entry that is not removed, a lock that is
not extended, a failed poll that is settled like a successful one, a port given back
before its process is killed. Under each of them TLC finds the property violated.
