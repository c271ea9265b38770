# A formal model of r8r

r8r is a workflow server written in Rust: a reimplementation of n8n's server (`src/src/n8n`)
beside an older engine of its own (`src/src/*.rs`, "legacy" below). This directory models the parts of it in
which several processes, tasks or requests act on shared state: the job queue and its workers,
the life of an execution in one process and in queue mode, the election of a leading main, the
group commit of execution writes, the activation of workflows, the two workflow engines, and the Telegram
poller. TLC checks the models on small instances; TLAPS proves
the most important of their properties for every value of the constants.

To check: `tlc -config <Run>.cfg <Module>.tla` for each run below, `tlapm <Module>Proofs.tla`
for each proof module. Source paths are relative to the repository root, and
`PROJECT.json` maps every definition to the lines it stands for.

## The system

| Part | State it keeps | Operations | What is hard | What makes it correct |
|---|---|---|---|---|
| Job queue, Redis (`n8n/queue.rs`) | lists `wait` and `active`, sorted set `leases`, keys `job:{id}` | push, pop (BLMOVE, ZADD, GET), heartbeat, ack, requeue_expired (LRANGE, ZADD NX, ZRANGEBYSCORE, ZREM, LREM+RPUSH) | no operation but push, ack and the move back is atomic; every process runs the requeuer; workers die or stall between commands | no job is lost; a job goes only after a run; no two live workers run one job; every job is run |
| Job queue, PostgreSQL (`n8n/queue.rs`) | rows of `r8r_queue` with a lease deadline | push, pop (SKIP LOCKED), heartbeat, ack | leases that expire under a live worker; ack and heartbeat name the job, not the lease | the same |
| Worker slots (`server/worker.rs`) | one permit and one job each, a heartbeat task | pop, run, ack | death at any point; a failed run is acknowledged | with the queue |
| Executions, one process (`server/runner.rs`, `rest.rs`, `mod.rs`) | the execution rows, the running map, cancel flags | start, resume, run, save or discard, stop, delete, prune, crash recovery | timers, resume URLs, stops and runs meet at every await; callers are dropped; the process dies | one runner; an ended execution stays ended; none is left running |
| Executions, queue mode (`runner.rs`, `worker.rs`) | the rows and the jobs, two stores with no transaction over both | enqueue, follow, run_job, save, ack | a process dies between the two stores; a job delivered twice | the same, across processes |
| Leader election (`n8n/election.rs`) | a Redis key with a TTL; each main's gate and `last_held` | start, check (try_acquire or renew), shutdown | lost connections, hung calls, answers that come late | one leader at a time; some main eventually leads |
| Group commit (`n8n/store_batch.rs`) | a channel, an open transaction | batched, the writer task | one statement of a batch fails, a commit fails, the process dies | callers are told the truth, in order, and always told |
| Workflow activation (`server/activation.rs`, `rest.rs`, `mod.rs`) | each main's registrations and timers; the rows | register, unregister, sync, start-up, takeover, stepdown, activate, update, delete | all of these run at once; locks are taken and released between awaits; mains share only the database | timers run on the leader alone, for what it has cached; what is cached, and its routes, are what was saved |
| Trigger sessions (`server/triggers.rs`) | one task per trigger | start, stop, at the places of the timers | as activation | with activation |
| n8n engine (`n8n/engine.rs`) | the node stack, waiting inputs, run data | execute, run_node, schedule_children, retry, cancel, resume | joins that meet loops, branches and errors; a cancel between two awaits; a pause next to other work | every batch is run once by each child; the order is that of n8n; every run ends |
| Legacy engine (`engine.rs`) | outputs and errors of each node, loop queues | run_graph, run_node, run_loop, try_reuse | branches run at the same time; loops run their body again and again; records of an older run stand in for nodes | items are received once and in order; what is reused is current; batches add up |
| Legacy runner (`execution_runner.rs`, `api/workflows.rs`) | node records, the execution's status | start, record, stop, finish | a stop at any await | records are what ran |
| Telegram poller (`telegram_poller.rs`, `trigger_registry.rs`, `triggers.rs`, `api/workflows.rs`) | the offset, a channel and a worker per chat, the registry, the row | poll, dispatch, run, idle out, activate, deactivate, delete, restart | an idle worker closes as an update arrives; the offset confirms updates; the row is written after the poller was started | no update vanishes or is confirmed unhandled; one worker per chat; the registry is as the row says |
| Legacy scheduler (`scheduler.rs`) | cron jobs | register, remove | as the poller's registry | as the poller's registry |
| REST and public API, store, data tables, expressions, nodes, LLM clients, auth, CLI, front end | tables, or nothing | requests, pure functions, I/O | - | - |

**How the parts interact.** A webhook, a schedule, a form or a test request calls `runner::start`.
In regular mode it inserts a row and spawns the run in the same process; in queue mode it inserts the
row, pushes a job and polls the row, and a worker slot takes the job, runs it, writes the row and
acknowledges. The run itself is `Engine::execute`. A Wait node ends it with a row that is `waiting`; a timer
of the leading main, or a request to the resume URL, takes it further with a compare-and-swap of the row's
status. `stop_execution` uses the same compare-and-swap, or the cancel flag of the run found in the running map.
Every row write goes through the group commit. The leader gate, which the election opens and closes, decides
which main has timers and sessions. The legacy part is separate: its poller and its API start runs of its own
engine, whose runner records them in its own storage.

## The modules

| Module | Models | Composition |
|---|---|---|
| `JobQueue` | what the `Queue` trait promises: delivery at least once | abstract specification |
| `RedisQueue` | the Redis queue, its worker slots and requeuers | implements `JobQueue` |
| `PgQueue` | the PostgreSQL queue and its worker slots | implements `JobQueue` |
| `ExecutionRows` | what each SQL statement does to an execution's row | used by the next two |
| `Executions` | executions in one process | EXTENDS `ExecutionRows` |
| `QueueMode` | executions over a queue | EXTENDS `ExecutionRows`, INSTANCE `JobQueue` |
| `MainProcesses` | the mains of an instance | used by the next two |
| `Election` | mains, the lock, time | EXTENDS `MainProcesses`; its leadership is `Turn` of `Activation` (proved) |
| `StoreBatch` | callers, channel, writer, database | - |
| `Activation` | the registrations and timers of the mains | EXTENDS `MainProcesses` |
| `Engine` | one execution in the n8n engine, cancelled and resumed | its outcome is `RunEnds` of the two above |
| `LegacyEngine` | manual runs in the legacy engine, and their records | - |
| `TelegramPoller` | the poller, its chats, activation | - |
| `RedisQueueProofs`, `PgQueueProofs`, `ExecutionsProofs`, `TelegramPollerProofs`, `EngineProofs`, `LegacyEngineProofs` | proofs | EXTEND their module |
| `ExecutionRowsProofs` | proofs | EXTENDS `QueueMode` and `StoreBatch` |
| `MainsProofs` | proofs | EXTENDS `Election` and `Activation` |
| `MCActivation`, `MCEngine`, `MCLegacyEngine`, `MCTelegramPoller`, `MCRedisQueue` | the workflows, conflicts and chats to check, a symmetry | EXTEND their module |

**JobQueue** keeps for each job whether it is absent, pending or done, and for each slot the job it runs.
A job may be taken again while another slot runs it: that is all "at least once" means, and all that
`QueueMode` may assume of a queue.

**RedisQueue.** One action is one Redis command or one MULTI block. `pop` is `Blmove`, `TakeLease`,
`GetPayload`; `requeue_expired` is `ListActive`, `LeaseListed` for each id, `FindExpired`, then `RemoveLease`
and `MoveBack` for each id. What LRANGE and ZRANGEBYSCORE returned is kept in `listed` and `expired`, so it
can be stale when it is used. A lease is the number of ticks it has left; `active` is a bag, since LREM
removes one occurrence. `Punctual` says whether live slots keep their heartbeat schedule; without it a slot may stall
for any time, as a starved or partitioned process does. `Abandon` and `AbandonPass` are a death, a
shutdown past its grace period or a failed call: in each of them the slot or the pass forgets what it was doing.

**PgQueue** has one action per statement. There is no requeuer: `Eligible` rows are new or have an expired lease.

In both, the clocks of the processes are taken to agree: deadlines are written by one process (`now_ms`)
and compared by another.

**ExecutionRows.** A row is its status and its `pause`: which Wait node its stored run data and `wait_state`
belong to, 0 before the first. `Transition` is `transition_execution`, which compares the status only.

**Executions.** A task is a start or a resume and the run it spawns:

    idle -Start-> ready -Launch-> run -RunEnds-> ended -Save-> saved -Unregister-> idle
    idle -ResumeRead-> read -ResumeCas-> ready

A stop request is `StopRead`, `StopLookUp`, `StopCas`, `StopSave`; a deletion and the pruning timer are
single statements. What a run computes is its outcome: `canceled` only when its flag was set. `Dropped` is a
caller whose future is dropped while it awaits its INSERT or compare-and-swap, which takes effect.
`Crash` empties everything but the rows; `Restart` marks them; `RestartUnmarked` is a recovery the database refused,
after which the server starts all the same. `lost` is history: it is read by properties only.
Error workflows and retries of a whole execution are further starts.

**QueueMode.** A caller is a request or a timer in a main or webhook process: it inserts the row as `new`
(or turns a waiting row to running and then to new), pushes the job and follows the row. A worker takes the job,
turns new to running without looking at the answer (as the code does), runs, saves, acknowledges. A job carries the
execution and the pause it starts from, so a redelivered job starts again from there. `lost` and `redelivered`
are history.

**Election.** A call is sent, served by Redis, answered. A cut main cannot send or hear an answer,
but an answer lost on the way may have taken the lock. `held` counts the ticks since `last_held`.
`proc` is the process: Shutdown aborts the checker and releases the lock; the gate stays open until the process has
returned from main, in the same tick, which is why `Leads` asks for a process that is up.

**StoreBatch.** The writer drains the channel up to MAX_BATCH, executes each statement and keeps its result,
commits, answers. `written` is what took effect in the open transaction. `database` chooses what a failed statement
does to it; `TransactionFails` is a transaction that cannot begin or a COMMIT that fails, and PostgreSQL's COMMIT may
have taken effect with only its answer lost.

**Activation.** A thread is a REST handler or a main's loop (start-up, then `sync_registrations` every 2 s in multi-main
setup); each main also has the task that follows its gate. `unregister` is `Unhook`, `Uncache`, `Stop`, one action per lock
section; `register` is `Check` (under the read lock), those three, and `Hook`, `Cache`, `ReadGate`, `StartTimers`. What is
served is two variables, as in the code: `hooks`, the versions whose routes are registered (routes are added to those that are there), and
`cached`, the one version in the cache, which is all that `sync_registrations` compares. A registration is the
version of the workflow it was made from, and which webhook paths conflict is a constant. `Refused` is every other way a registration
or a save ends early: a node type, a credential, a schedule or a host that is not accepted, a statement the database
refuses, a request that is dropped. `SaveElsewhere` is
another main's request: all that is seen of it here is the row. `Turn` is the gate, which keeps only its last value, so a
quick takeover and stepdown is one change. `disturbed` is history: the workflows whose registration or timers two tasks
of a main handled at the same moment.

**Engine.** An item is abstracted to its batch: what one run of a node put on one output, known by n8n's source data
(node, output, run). `Pop` is the top of `execute`'s loop, with what passes through (disabled nodes and nodes with pin data);
`Begin`, `Complete`, `Retry`, `Fail`, `Pause`, `Abort` are what `run_node` may come to; `Deliver` is one edge of
`schedule_children` (fill the oldest waiting entry that misses this input, or open a new one; make it ready when it is
full), and `Schedule` puts the ready children on the stack in canvas order (v1) or behind it (v0). `Cancel` and `Notify` are the two
steps of `cancel()`: flag, then wake those that wait. `Resume` is `runner::resume`, which starts from the saved entry.
Which outputs get items and whether a node fails is the node's choice. `todo` holds the edges `schedule_children` has yet to serve, by
their places in the workflow, as the same edge may be drawn twice (in `Tree` it is); each copy then delivers the batch.
JoinsRounds leaves out nodes with two edges into one input, which mix the branches they come from, nodes that were run with an input
missing, from when on the branches are out of step, and executions that were resumed.

**LegacyEngine.** Every node has a future; one action is what it does between two awaits. `Layout` computes, from the
workflow, what `execute_workflow_reusing` computes before it runs: back edges, the loop each node belongs to, what is
upstream. `BeginLoop`, `StartBatch` and `Turn` are `run_loop`; `Persist` and `Merged` are the record the runner keeps.
An item is known by the trigger item it stems from. `NewRun` is a manual run after an edit, which may reuse the records
of the run before.

**TelegramPoller.** The poller is `Ask`, `Answer`, `Reread`, `Dispatch`, `BatchOver`; a chat's worker `Take`, `RunEnds`,
`Idle`, `Close`, `Leave`; a request `Request`, `TurnOn` or `TurnOff`, `WriteRow`, and if the database answers with an error `UpdateFails` and
`Undo`, or `DeleteFails`; `Dropped` is a request whose client goes away before the row is written. Telegram is external: it keeps
updates until a getUpdates with a higher offset arrives. A poller that is aborted ends at its next await, and its
chat workers go on.

## The runs

A passing run checks the properties of a module at one instance; a violation run shows one statement
of the repository that the code does not meet.

| Run | Properties | Instance | Distinct states |
|---|---|---|---|
| `redis_queue` | NotLost, ImplementsJobQueue, EventuallyRemoved | 1 job, 2 slots, 2 requeuers, lease 1 tick, 2 crashes, slots may stall | 266 000 |
| `pg_queue` | OneRunner, ImplementsJobQueue, EventuallyRemoved | 2 jobs, 2 slots, lease 3 ticks, heartbeat 1, punctual, 2 crashes | 860 |
| `executions` | OneRun, NoneStranded, FinalIsFinal, ComesToRest | 1 execution, 2 tasks, 1 stop request, 2 pauses, 1 crash, 1 refused write, 1 dropped task | 29 000 |
| `queue_mode` | OneInCharge, Covered, FinalIfDeliveredOnce, ComesToRest | 1 execution, 2 callers, 2 workers, 2 jobs, 1 pause, 1 fault | 225 000 |
| `election` | LeaderHoldsLock, EventuallyLed | 2 mains, TTL 10, lease 8, interval 3, 2 cuts, 2 stops, calls answered or refused within a tick | 106 000 |
| `store_batch` | SqliteAnswersTruly, InOrder, Answered | both databases, 4 statements, batches of 3, 2 errors, 1 crash | 175 000 |
| `engine` | TypeOK, DeliveredOnce, JoinsRounds, StarvedForGood, OrderKept, CancelHeeded, Ended | 13 workflows of up to 5 nodes, at most 9 node runs, 1 pause | 82 000 |
| `activation` | TypeOK, TimersFollowLeader, Converges | 1 main and the requests of others, 2 conflicting workflows, 1 handler, 2 requests or refusals, 1 change of leadership | 1 170 000 |
| `telegram` | TypeOK, NoneVanishes, NoneSkipped, RegistryFollowsRow, OneAtATime, Handled | 2 updates of 1 chat, 2 handlers, 2 requests, 1 fault | 293 000 |
| `legacy_engine` | TypeOK, CarriedOnce, ReusedIsCurrent, AllBatchesKept, Ended | 7 workflows of up to 6 nodes, 3 items, 2 runs | 256 000 |
| `redis_queue_race` | OneRunner (violated) | 1 job, 2 slots, 2 requeuers, punctual, 1 crash | |
| `engine_wait` | KeepsAll (violated) | as `engine` | |

**Why these bounds.** The races of the queues, the executions and the election are between two slots, two requeuers,
two resumes or two mains over one job, execution or lock: different jobs and executions share only the wait list, whose
order no property is about. Two requeuers with a one-tick lease make every reading stale in some behaviour; two crashes
cut off both a slot and the pass that repairs it. Two pauses are needed for a late resume to find the row
waiting at another pause than it read. Two jobs of one execution in `QueueMode` are its start and its resume, with
the first still held by a worker that has not acknowledged. The election's numbers are the defaults (TTL 10 s, interval 3 s)
with the lease the code derives from them. Four statements with batches of three fill one batch and start the next.
For these modules the proofs below lift every bound, save in the liveness properties.

`Activation`: two workflows whose paths conflict, one of them changed while the other is looked at; the second main is
reduced to what it writes, as nothing else of it is seen. One handler and the loop are enough for two registrations of one
workflow, or a registration and an unregistration, to interleave lock section by lock section. The workflows of `MCEngine` are one for each part of the
engine: a tree with two outputs and a retry, a diamond with an error output and a node that passes through, a loop
whose join is fed twice a round, a Wait node beside another branch with a timeout, a run to a destination, a join that
waits for a join, a join of two edges into one input, a join of three; most of them in both orders. Nine node runs let each
loop turn twice and more and then reach MAX_NODE_RUNS, which stands in for 100 000. Those of
`MCLegacyEngine` are branches with error routes, a disabled node, a loop whose body branches, batches of two,
a loop in a loop, a node in a loop that is fed from outside and may send back an error, and one that is not accepted; three items with batches of two leave a
last batch that is not full. In `TelegramPoller` two updates of one chat are the one being run and the one that arrives as its
worker idles out; chats share nothing. Two requests and one fault reach each compensation and each race of an
abort with a batch half dispatched; the fault may also be the client of a request that goes away.

`MaxWait` bounds Redis's wait list in `MoveBack`; the other bounds (`MaxCrashes`, `MaxFaults`, `MaxDrops`,
`MaxRequests`, `MaxTurns`, ...) stop faults and requests from recurring for ever, which is also what liveness needs.
CHECK_DEADLOCK is off where a system with nothing left to do stops: when every execution has ended, every statement
is answered, every request served. Ids are never used twice, as the code draws fresh ones.

**Fairness.** Weak fairness of each loop and task: tokio polls a task that can go on, the interval timers fire,
nodes end (waits and timeouts are honoured), calls of the database return, a process that died is started
again, and time passes. Starting, resuming, stopping, activating, deleting, sending an update, idling and every fault are
not fair: nobody has to do them. In `Executions` a task is fair for its compare-and-swap and its run, not for being resumed
(`waiting` is at rest). In `QueueMode`, that a job in the queue is handed out is fair because EventuallyRemoved holds
of both queues. In `Engine` the steps of the execution and the second half of `cancel()` are fair, cancelling is not.

## What the checks show

### Two violations

1. **A requeuer removes a lease it did not see expire** (`n8n/queue.rs` 152-156; run `redis_queue_race`). ZRANGEBYSCORE
   and ZREM are separate commands and ZREM does not look at the score. Two requeuers read the same expired lease; the
   first requeues the job, a worker takes it, and the second removes the fresh lease and requeues it again: two live
   workers run it.
2. **A pause forgets the rest of the execution** (`n8n/engine.rs` 353-361, `runner.rs` 489-514; run `engine_wait`). The wait
   state holds the Wait node's entry only. What is on the stack beside it, and what waits for inputs, is not saved,
   and the resumed execution ends in success without having run it.

### Deviations the properties leave out

What follows was met while modelling. The models contain it where a model is named, and the properties exempt it, each
in its comment; it has no run of its own.

*Executions and the queue mode.*

- A late resume takes the row at another pause than it read, since the compare-and-swap compares the status only
  (`runner.rs` 492-513; `ResumeCas`). OneRun says that one task takes it, not at which pause.
- The end of a segment removes the id from the running map whoever put it there (`runner.rs` 418), so that
  a stop request may not find the next segment (`Unregister`, `StopLookUp`).
- A stop that takes the row saves the run data it read before its compare-and-swap (`rest.rs` 285-293; `StopSave`): if the
  execution was resumed and paused again in between, the cancelled row loses the run data of that segment. FinalIsFinal and FinalIfDeliveredOnce compare
  the whole row, run data included, and exempt this one step (`OldDataSaved`).
- A caller dropped at its INSERT leaves its row running until the next restart (`runner.rs` 325; `Dropped`), and a result
  the database refuses is logged while the row stays running (406-408; `SaveFails`). NoneStranded and ComesToRest
  exempt both through `lost`.
- In queue mode nothing marks such rows: row and job are written one after the other (`runner.rs` 108-113), and the worker
  acknowledges a job whose row it could not write (`worker.rs` 97). Covered and ComesToRest exempt these executions.
- A redelivered job runs a finished execution, because run_job ignores whether `new -> running` took effect
  (`runner.rs` 147). OneInCharge and FinalIfDeliveredOnce exempt executions that were delivered twice (`redelivered`).
- The follower of a job reports success for a row that is gone (`runner.rs` 133), also when the save policy
  discarded a failed execution; what a caller is told is not modelled.

*Election, store.*

- A call of renew that hangs gives two leaders: `last_held` is set when its answer arrives, not when it was sent, and the
  check that compares it with the lease comes only when the next call has failed (`election.rs` 157-164). `MaxDelay` = 0,
  in the run and in the theorem, leaves such calls out.
- PostgreSQL answers the COMMIT of an aborted transaction with success although it was a rollback, so callers whose statements ran
  before the failing one are told "ok" (`store_batch.rs` 50-62). SqliteAnswersTruly is about SQLite for this reason.

*Activation.*

- Two activations of conflicting paths may both succeed: the check and the insertion are under different locks
  (`activation.rs` 155-199). Converges exempts them (`Opposed`).
- `set_active` writes the row as it was read before the registration was awaited, over an edit saved in between (310-316).
- `sync_registrations` may unregister a workflow that was registered after it read the rows and before it looked; it is registered again
  at the next poll, 2 s later. Converges is what remains true.
- Handlers, loop and leadership task of a main are not kept apart (`disturbed`). Timers two of them handled at the same moment may be left
  over or missing until the next change. Two registrations of a workflow that interleave leave the routes of both
  versions, as `register` adds to what is there (196), and one that interleaves with an unregistration may leave the workflow in the cache without
  routes (196-199, 241-242). `sync_registrations` compares the cache only (284) and never repairs either:
  Converges says of all workflows what the cache ends up with, and what the routes end up as only of those outside `disturbed`.
- A workflow that is refused whenever it is registered is not served, whatever its row says; refusals are bounded (`MaxRequests`),
  so that Converges is about what is accepted in the end. A request refused or dropped after its registration leaves it ahead of the row
  until the next poll.

*n8n engine.* A join that leads to a join may be run with an input missing although a node that is still waiting could
supply it (StarvedForGood exempts these workflows); a cancellation that falls between the look at the flag and the creation of
`notified()` is heeded one node later (CancelHeeded allows that one).

*Legacy engine and runner.*

- A batch that is skipped or fails overwrites the record of the batches before (`execution_runner.rs` 116-143), although the comment
  there says that all is kept; the output of a node in a loop in a loop is that of the last outer batch (`engine.rs` 345-396).
  AllBatchesKept leaves both out.
- A node of a loop's body that is also fed from outside the loop does not wait for what comes from there, and receives it once per batch
  (276-293); a node reachable from both outputs of a loop counts as body and gets nothing from "done"; what an inner loop's body
  returns straight to the outer loop may be from an earlier batch. `InStep` leaves such connections out.
- The fingerprint that decides about reuse covers a node and its ancestors, not the other nodes an expression of it may name.
- An execution left running by a crash is never recovered.
- Left out of `LegacyEngine`: a start node that fails, the limit on the inputs of a node (476-482) and a node type that is not
  registered (540-542), which end a run as a node that fails does.

*Telegram poller.*

- A worker that has closed its channel runs what came in between next to its successor (`telegram_poller.rs` 176), against the
  comment at 129-131; OneAtATime leaves out workers that have closed.
- A poller ends if the row is not yet saved as active when it looks again after its first getUpdates (886), although the comment
  at 791-803 takes this race to be closed; the registry then names a task that has ended.
- A workflow switched off and on again before the next getUpdates has confirmed a batch is handed that batch twice.
- Nothing makes up for a delete that fails (`api/workflows.rs` 378-390), which leaves the row active without a poller, nor for a request
  that is dropped after its triggers were switched, at the write of the row (173) or where the poller is to be started again
  (183-184): the row may stay active without a poller, or inactive with one recorded, against the comment at 176-179, until the process is started
  again. RegistryFollowsRow exempts both, and a compensation that is refused (`dark`), as well as requests under way at once, which are not
  kept apart (`overlapped`).
- What is in memory when the process dies has been confirmed to Telegram, and is lost.

## What is proved

Everything below holds for any sets of jobs, workers, requeuers, executions, tasks, requests, callers, mains, statements,
updates, chats, nodes and workflows (of the form `WorkflowType`), and any bounds. Assumed of the constants: the "none" values are not members, the tick counts are positive, the bounds are naturals, and there are more
identities for pollers than requests and failures together.

| Theorems | Statement |
|---|---|
| `RedisQueueProofs!TypeCorrect`, `JobsAreNotLost`, `DataGoesAfterRun`, `Implements` | TypeOK, NotLost, data goes only after a run, ImplementsJobQueue |
| `PgQueueProofs!TypeCorrect`, `RowsGoAfterRun`, `LeasesAreExclusive`, `Implements` | TypeOK, rows go only after a run, OneRunner (when `Punctual`), ImplementsJobQueue |
| `ExecutionsProofs!TypeCorrect`, `RunByOne`, `EndedStaysEnded`, `NoneLeftRunning` | TypeOK, OneRun, FinalIsFinal, NoneStranded |
| `ExecutionRowsProofs!TypeCorrect`, `NoneForgotten`, `InOnePairOfHands`, `EndedStaysEnded` | TypeOK, Covered, OneInCharge, FinalIfDeliveredOnce |
| `MainsProofs!ElectionTypes`, `LeaderHolds`, `LeadersTakeTurns` | ElectionTypeOK, and, when `TimesFit`, LeaderHoldsLock and that leadership changes by the turns of `Activation` |
| `MainsProofs!RegistrationTypes`, `TimersFollow` | TypeOK of `Activation`, TimersFollowLeader |
| `ExecutionRowsProofs!BatchTypes`, `WritesInOrder`, `AnswersAreTrue` | BatchTypeOK, InOrder, SqliteAnswersTruly |
| `EngineProofs!TypeCorrect`, `HeedsCancel`, `DeliversOnce`, `JoinsTakeRounds`, `RunsInOrder`, `StarvesForGood` | TypeOK, CancelHeeded, DeliveredOnce, JoinsRounds, OrderKept, StarvedForGood |
| `LegacyEngineProofs!TypeCorrect`, `ReusesCurrent`, `CarriesOnce`, `KeepsBatches` | TypeOK, ReusedIsCurrent, CarriedOnce, AllBatchesKept |
| `TelegramPollerProofs!TypeCorrect`, `NothingSkipped`, `OneWorker`, `JobsDoNotVanish`, `RegistryIsRight` | TypeOK, NoneSkipped, OneAtATime, NoneVanishes, RegistryFollowsRow |

The type invariants of these modules are proved and not run, but for `Engine`, `LegacyEngine`, `TelegramPoller` and
`Activation`, whose TypeOK is both.

**The arguments.** *RedisQueue.* The invariant is TypeOK, HandInv (a slot has a job in its hand exactly when it is not
idle), PushedInv (every id in a list, a lease, a hand or a requeuer's notes was pushed) and DoneInv (a slot that
found no data holds an id whose data is gone, and a slot that finished holds a completed one).
The two halves of DoneInv cover the two kinds of Ack: the one `pop` sends for an entry without data
deletes nothing, the other deletes a completed job. PushedInv is what makes Push of a fresh id the only step from
absent to pending. NotLost is preserved on top of it: every command that takes an id out of `active` puts it back in the wait
list, or deletes its data, in the same transaction, and BLMOVE does the reverse. Each step is then a step of
`JobQueue` or a stutter; a slot that stalls past its lease and acknowledges late is a second `Complete`.

*PgQueue.* OneRunner is inductive together with LeaseInv: the row of a held job exists, and its lease and the
ticks since the slot's last heartbeat add up to the whole lease or more. As heartbeats are more frequent
than leases expire (an assumption on the constants) and slots are punctual, a held job's lease has not expired, and its
row is not eligible.

*Executions.* The invariant is TypeOK, DownInv (a dead process has no tasks), BusyInv (a busy task or stop request has an execution,
and a resume has a pause), RowInv (the row of an execution in charge of a task is running or deleted; the row a
stop is about to save is cancelled or deleted), PauseInv (a waiting row is at a pause) and OneRun. RowInv is what
makes OneRun inductive: the compare-and-swap `waiting -> running` succeeds only on a row no task is in charge of.
It also makes FinalIsFinal a property of steps: `Save` writes over a running row only, and `StopSave` over one
its own compare-and-swap cancelled, whose status it keeps and whose run data it may set back (`OldDataSaved`).

*QueueMode.* The same argument across two stores. `Hands` are the callers between their compare-and-swap and their push, the pending
jobs and the workers. RowInv says that an execution in some hands is new, running or deleted, so that a resume or a stop, which needs it
waiting, finds no hands; HandInv that there is one pair of hands at most, which the push passes from caller to job and
TakeJob from job to worker. Both are about executions delivered once, and HoldInv says that two workers hold a job only after a redelivery.
CoverInv strengthens Covered: the job that covers a new or running row is not one whose worker has saved already, for then Ack
would uncover it.

*Election.* LeaderInv ties the leader's own count to the key: the owner is the leader, the key's time left and the time since `last_held`
add up to the TTL or more, and the checks to come fall on multiples of the interval after it. `TimesFit` says that one such
multiple lies between the lease and the TTL (9 between 8 and 10 with the defaults): at that check, at the latest, a main that
could not renew steps down while the key still exists. Without such a multiple - a check interval of 7 s, which the
configuration accepts - a main goes on leading after its key has expired, without any call that hangs.

*Election and Activation.* `Activation` takes leadership from outside, as a `Turn` now and then: one main takes over while none leads, or one stops. That the
election gives it no other is LeadersTakeTurns: a main begins to lead with an answer that found it the owner of the key, and by LeaderInv whoever leads
is the owner too.

*Activation.* Type correctness needs to know where versions come from: RowInv says that a row that is active has not been deleted, also in
the rows a loop read before, and JobInv that a thread with a registration in hand names a main, a workflow and, unless it only unregisters, a version
that exists. TimersFollowLeader is about moments at which a main is at rest; FlowInv is what it is at all others, for each workflow
that two tasks of the main did not handle at once: one thread at most is between unregistering and registering it (`Alone`), and has
done as much as its place says (`Phase`); when none is, timers are of cached workflows only (`Quiet`), and what a leader has cached and has no timers yet, or has timers
and no leader, is on the list of the leadership task (`Started`, `Stopped`) - unless the gate has changed since the task looked at it, and it will look again.
TaskInv says that in the meantime the task does what the gate says. A thread that read the gate before it changed, or a task whose list names what has
since been unregistered, would break FlowInv, and these are the disturbed ones.

*StoreBatch.* OrderInv keeps four sequences in the order of `sent`: durable before written before what is left of the batch before the
queue, each in order and with no statement twice. Each step moves the head of one to the end of the one before it, or drops a
tail. AnswerInv adds that an answered statement is not under way, that a result "ok" means written (before the commit) or durable (after), and that on
SQLite no transaction is aborted; a statement that failed is then never written later, as it is nowhere any more.

*Engine.* `Shape` adds to TypeOK that entries that wait name every input of their node, that schedule_children has served every edge before
the loop goes on, and that a run that ends well leaves no entry behind. HeedInv says that nothing is popped once
cancel() has returned, so that only a node already popped can record one more run.
`Balanced` counts: for each edge and each run of the node it comes from, the entries that hold that batch in the stack, among those that wait,
those made ready and in hand, the copies of the edge still to be served, and the runs that took the batch add up
to the copies of the edge if the run had items on that output, and to 0 if not. Every step moves one from
one place to another; the lemmas on `Count` say what the operations on sequences do to the sum. At the end all places but the last are empty: DeliveredOnce.

*Engine, joins.* JoinsRounds follows from RunsInv: the inputs of every run are known batches of one round (`Synced`). That needs QueueInv,
about the entries on their way, as long as the node ran with all its inputs: those in the stack, ready or in hand are synced, and
those that wait are `Lined`: they are, in their order, of the rounds first + 1 to last, one of each, and have an input of a round exactly
as far as the branch has delivered (`Delivered`: the runs that sent on the edge, less the one whose batch is not served yet).
The oldest entry that misses an input is then that of the next round of this branch, which is why filling the
oldest keeps it. If there is none the branch is ahead of all others and opens round last + 1; an entry that
becomes full is the first of the line, as all branches have delivered its round and none delivers out of order.
A batch keeps its round when later runs are recorded (`GrowsNext`), and so does what was said of it.

*Engine, order.* Without joins every entry but the first is scheduled by one run, its `Origin`. OrderInv says that the stack is sorted -
by origin and canvas position in v1, the latest origin first, by origin alone in v0 (`Before`) - and that every
recorded run is where it may be with respect to what is still on the stack or in hand (`Behind`); that of two
runs, OrderKept, follows when the second is recorded (`AddRun`). Schedule keeps the stack sorted because what it adds has the last
run as its origin, which is later than all origins on the stack, and because what is inserted by rank stays sorted by rank (`InsertInRank`).

*Engine, starved joins.* That no join leads to a join is said by a set of nodes without joins that contains the children of joins and
its own (`Below`), in place of a path. StarveInv says that entries on the stack miss no input and that those that wait are of joins, and, once a run that missed an
input is recorded, that all that is scheduled is of joins or of nodes of that set: when the starved
entry was popped the stack was empty. A later run that sent something to the join would be a join that leads to a join.

*LegacyEngine.* First the layout, without any variable. What links lead to is the least set they do not leave, loops own their bodies,
and an accepted workflow is `Sound`: every set of nodes has one that nothing in the set feeds, and one whose loop is not in the set.
These two stand in for inductions along the connections and up the nest of loops. A body is closed under
its forward connections, so that a list of futures is entered only from the loop node and left only by it. A workflow that is not
accepted stays `Blank`.
Then the invariant, `Engine`, a conjunction in which each part rests on those before it. AtInv: a node is active only in a list that is
being run (`Open`), starts after what feeds it there is done, and has nothing left then of the errors of
an earlier batch. ReuseInv: whether of this run or the last, a record of a node outside of loops was made of what the records
upstream of it hold (`Fits`), and a node is reused when all that feeds it was: what stands in for the chain is then what
the chain would produce. FlowInv says of each connection what lies between sent and got: by the places its two ends are at,
either nothing or what has arrived and is still to be received (`Pending`). RecordInv: the record of a
node nothing went wrong with is what it has sent and, until it is published, its NodeRun. SumInv: output and `totals`,
over the batches so far, are what was sent by a node that is in one loop at most. When the main list is quiet, all is done (`Settled`) and the properties follow.

*TelegramPoller.* OffsetInv says `Below` - each update before it was handed to a worker or refused - of three numbers: what Telegram has
forgotten, the offset every poller will ask with, also one that has lost its place in the registry, and the next update of a batch that is
being handed out. The last is what a batch starts with: the answer begins at what Telegram has not forgotten. A failure on the
way keeps the offset, and the loop moves it past one update at a time. RouteInv ties a worker whose channel is open to the entry of its
chat, so that two of them would be one.

*TelegramPoller, jobs.* TypeOK says more than types, and rests on two invariants. SlotsInv bounds the pollers used and the
requests that may yet start one by 1 + the requests made + the failures, so that there is an identity left whenever one is started.
SoundInv says of each poller that the answer it waits for begins at its offset or later, and that what it has
handed out is behind its offset: nothing is handed out twice by one poller, although its request may be
repeated after a failure. JobsInv then says that what was handed out and has not been run is in exactly one queue at exactly one
position, in a worker of its chat, and that a worker that has ended has nothing queued: it closes its channel before it
looks for the last time, and ends when it finds nothing. NoneVanishes follows.

*TelegramPoller, activation.* RegistryFollowsRow is about the moments between requests. FollowInv says as well what registry and row are
at each stage of the one request under way, the compensations included: which of the two has been written, and
what is to be undone. `dark` is set where the code gives up: a delete that stops the poller and leaves the row, a request
that is dropped before it has written the row, and a restart that fails.

**Model-checked only.** Liveness, which is out of the prover's reach: EventuallyRemoved, ComesToRest, EventuallyLed, Answered,
Converges, Handled and both Ended. Every other property of a passing run is a theorem as well.

## Not modelled

- `drain` and the count of running executions (`mod.rs` 343): shutting down is a crash in `Executions`, whatever was waited for.
- The resume of partial runs with data of an earlier run in the n8n engine (`Engine` begins from the start node or from a pause), sub-workflows, and
  what tools and agents do inside a node.
- Webhook matching and response modes (`webhooks.rs`), one-shot test webhooks, tests of a trigger in the editor, server-sent events.
- The legacy scheduler: its jobs are registered and removed where the poller is started and aborted; the clock is a library's.
- Request parsing, expressions and the JavaScript sandbox, nodes and LLM clients, single-statement CRUD handlers,
  schema migration, authentication and cryptography, the command line, and the front end. Their state is a table or nothing, and no
  interleaving decides whether they are right.

The last item is most of the repository: of its 55 000 lines of implementation the nodes, the model clients, the API handlers and the
parsers and the tests beside them are the larger part, which is why the models cover a small share of the lines although they cover
nearly all of the code in which tasks or processes meet.
