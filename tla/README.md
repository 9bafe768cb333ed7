# Codetoreum: the verification project

TLA+ models of Codetoreum, the TLC runs that check them on small instances, and TLAPS proofs of
every safety property these runs check, for instances of any size. Paths are relative to `src/codetoreum/`, documents to the
repository.

Codetoreum moves work items over a GitHub board. A card that enters the *pipeline trigger column*
of its board queues for the board's *pipeline lock*; the holder's agents run, one item at a time,
until it leaves. Everything is asyncio: handlers are coroutines that yield at every `await`, state
lives in Redis and Elasticsearch, people move cards whenever they like, external services fail, and
the server may be restarted.

    tlc -workers 2 -config pipeline.cfg MCPipeline     one run: configuration, MC module
    tlapm AgentExecutor_proofs.tla                     one module of proofs

## 1. Inventory

| part | code | state | operations | hard about it |
|---|---|---|---|---|
| distributed lock | `adapters/secondary/redis_distributed_lock.py`, contract in `ports/output/distributed_lock.py` and the race contracts of `documentation/architecture/ports/output/board-management.md:376-382` | a string key per board (SET NX EX) and a metadata hash, each with a TTL | `try_acquire`, `release`, `renew` | several commands per call; calls interleave, are cancelled, TTLs elapse |
| pipeline queue service | `redis_pipeline_queue_service.py`, seen through `pipeline_queue_service_adapter.py` | sorted set (scores are board positions), metadata hash, reverse index | `enqueue_item`, `remove_from_queue`, `mark_item_active`, `get_next_waiting_item` (fetches the board and syncs) | three keys to keep consistent, a board that changes during the sync, commands that fail |
| pipeline orchestrator | `application/event_handlers/pipeline_orchestrator.py` | none of its own | `on_lock_acquired`, `on_lock_released`, `on_startup` | hand-over of the lock across lock and queue; recovery scan against live handlers |
| board event handler | `application/event_handlers/board_event_handler.py` | none of its own | `handle_column_change`, `handle_agent_completion` | every step reads what an earlier `await` may have left stale |
| agent executor, execution service | `execution_service_agent_executor.py`, `application/execution_service.py`, `domain/agent_execution.py` | items in execution, background tasks, the execution entity and its event stream | `execute`, `_run_execution`, `_call_completion`, `create/start/execute/cancel_execution` | many ways out of one task, cancellation at every await, a report that must agree with the stream |
| active run registry | `redis_active_workflow_run_registry.py` | item -> active run | set, get, clear | written by three parties |
| recovery service | `application/agent_execution_recovery_service.py` | - | `handle_agent_execution_failure` | fails the run in the event store, leaves the registry |
| event bus | `infrastructure/event_bus.py` | subscriptions, detached tasks | `publish` (awaits handlers), `publish_detached`, retries | decides which handler runs inside which call, and calls a failing handler again from its start |
| GitHub board adapter | `github_board_adapter.py` | the current board as context, last known positions, poll loops | `get_board`, polling, `move_item_to_column` | one context for all boards; readings and moves overtake each other; an error ends a loop |
| event store, poller, dead letters | `elasticsearch_event_store.py`, `infrastructure/event_store_poller.py`, `dead_letter_queue.py`, `dlq_retry.py` | index and what searches see of it, append queue, timestamp, dead letter entries | `append`, `_background_worker`, `close`, poll, retry | versions from stale searches, partial bulks, full queues, an event that becomes visible late |
| resilience | `infrastructure/resilience/*` | breaker state and counters, the limiter's timestamps | a call through limiter, breaker, retry and timeout | outcomes of calls that began in another state of the breaker |
| repair cycle | `production_repair_cycle_adapter.py`, `application/event_handlers/repair_cycle_event_handler.py`, `application/workflow_orchestrator.py` | the loops' counters, results tracked in the one shared adapter, checkpoints | `execute` per test type, fixes, rebuilds, CI, the report and the move | four nested loops, repairs of several cards in one object, agents that answer anything |
| review cycles, conversational loops, scheduler, pipeline manager, configuration caches, containers, domain entities, API, simulation | see `PROJECT.json` and section 6 | | | |

How they interact: a moved card becomes `WorkItemColumnChangedEvent`, handled by the board event
handler, which enqueues the item and calls `try_acquire`. The lock publishes
`PipelineLockAcquiredEvent` *inside* `try_acquire`, and `PipelineLockReleasedEvent` *inside*
`release`; the bus awaits the orchestrator's handlers, so dequeuing and hand-over are nested in the
call of whoever acquired or released. The executor's task runs beside all this and ends with
`AgentExecutionCompletedEvent`, which comes back to the board event handler. A card that enters a
repair column makes the repair handler run the repair cycle, whose report makes the workflow
orchestrator move the card. Everything is recorded through the event store, and every call of GitHub,
Redis or an agent may go through the resilience decorators.

What makes each part correct:

- lock: at most one holder, each lease granted once and ended by a release once, metadata there for
  as long as the lease, no key that outlives its lease for good;
- queue: the three keys agree, no item is locked out of the queue, the answer is the topmost
  waiting item;
- pipeline: an agent works only for the lock holder, no free lock leaves an item waiting, a free
  lock is handed over;
- executor: one task per item, one report per task, a guard that is always given back, a report that
  says what the stream says;
- event store: no event vanishes unnoticed, versions of saved streams stay comparable, a drain
  stores what was queued, the worker goes on; the poller delivers every event;
- resilience: the breaker opens for cause and in time, lets nobody through while open, closes again;
  the limiter keeps its quota; an answer is true of what the service did;
- repair: a pass is the last run's word, a success covers every test type, failures get a fix, the
  card moves once, after the report, and all of it ends;
- board: what is reported as a person's move is one, and every card's place becomes known.

`PROJECT.json` lists the hazards, each at its line.

## 2. Modules

| module | models | built on |
|---|---|---|
| `LockContract` | what the lock promises: calls take effect at one instant | - |
| `RedisDistributedLock` | the lock, one Redis command a step | instantiates `LockContract` |
| `PipelineQueueService` | the queue, one command or MULTI a step | - |
| `Pipeline` | board event handler, orchestrator and executor, with lock, queue and registry by what their calls do | - |
| `AgentExecutor` | `execute()`, its background task, the execution entity and stream, delivery of the completion | - |
| `EventStore` | append queue, worker, index, saves, dead letters with their retry, poller, `close()` | - |
| `ResilientCall` | a call through limiter, breaker, retries and timeout, with time in ticks | - |
| `RepairCycle` | handler, `execute()` and its inner loop, checkpoints, CI, report, move | - |
| `GitHubBoardAdapter` | poll loops, the shared context, moves through the adapter | - |
| `..._proofs` | type correctness and safety theorems of the module of that name (and, for the lock, the refinement) | that module, TLAPS |
| `MC...` | constants of the TLC instances | the module of the same name |

A definition whose comment begins with "Mutant" is no part of a specification: it is the modelled
definition with a bug one could have made, by which a property is shown to be able to fail.

### RedisDistributedLock

A call is a task that walks through the commands of its method: `set`, `get`, `setRetry`,
`getRetry`, then `hset`, `expire`, `publishAcquired`; or `hgetall`, `eval` (the Lua script, one
step), `getReason` or `deleteMeta`, `publishReleased`. `Abort` is an exception, a cancellation or a
crash at any of them. The model numbers leases, which the program does not do, to tell two
acquisitions by the same item apart; `released`, `announced`, `finalized` and `aborted` only record
history. `lock`, `meta` and `metaTtl` are the key, the hash and who gave the hash its TTL. TTLs
elapse at any time, except that the hash outlives the lease that set its TTL, being given later.
That an event has been published is a fact of the lease; whether handlers fail in it is not, since
the adapter swallows that.

`LockContract` has the same calls without the commands. The mapping (`Contract` in the module) takes
`lock` for the owner and a call as pending until the SET or the script took effect.

### PipelineQueueService

`zset`, `meta` and `index` are the three keys. A MULTI is one step; the board fetch, the choice of the
column, the removal, and each item's read and update are steps of their own, with other callers, people
(`MoveCard`), failing commands (`SyncFails`, `EnqueueTxFails`) and cancelled calls (`Abandon`)
between them. Items enqueue from the trigger column, with their position there, as the board event
handler does. `alone` marks a call during which nothing else happened; what a caller may expect
of the answer is stated of such calls, and only they keep the board they fetched until the answer.
Corrupt stored JSON, events and the registry of pipelines are left out.

### Pipeline

`proc[p]` is a coroutine: for each item the handler of its column change and the handler of its
completion, and the startup scan. `task[i]` is the executor's task. Each awaited call that reads or
writes shared state is a step. The release of the lock is the five steps in which its nested
hand-over can be interleaved: read the metadata, script, delete the metadata, peek (board fetch,
then sync), acquire for the next item. What is abstracted:

- one board; the queue is a set, and the peek may answer with any queued item of the synced column
  (the order is the subject of `PipelineQueueService`);
- the executor's preparation and the agent's run are one step each that may fail, and `execute()`
  is one step (`AgentExecutor` has them at every await);
- TTLs of lock and registry do not elapse: race contract 7 accepts the expiry of a lock that is
  in use, on the premise that no item holds it for two hours. Nothing here holds without that premise;
- an item has at most one column change and one completion being handled at a time;
- people are *considerate* by default: they move a card only at rest, and into an agent column only
  when it has the lock. `Mishaps` allows up to `MaxMishaps` other moves, or restarts. A restart
  drops coroutines and tasks and starts the scan, which runs against new handlers.

`stranded` remembers the two ways in which a hand-over is lost: a restart while the lock is free and
items wait, and a release that found no project and board in the metadata.

### AgentExecutor

`call[c]` is an `execute()` call and then the task it started, `exec[c]` the `AgentExecution` with
its pending events and its stream, `pub[c]` the delivery of the completion event. The task's places
are the awaits of `_run_execution` and of the execution service it drives; from each it can fail
(`Prepare`, `Unexpected`, `Abort`, the second halves of `Record` and `Commit`) or be cancelled
(`CancelTask`, by the timeout watchdog, twice if the first is slow). The finally block is `Clear`: it
clears whichever run the item has, and reports if nothing has been reported. An append that raises
leaves its event pending, and the stream as it was, but the entity has changed. The completion is
handled by the board event handler (`HandleSuccess`, `HandleFailure`); `CallbackRaises` is the bus
calling it again, up to the limit. `raced`, `cut`, `cancelled` and `unstored` are history.
`committed` says that the commit step succeeded: an agent that makes no commits passes it without a push.
Git, workspace and clone are steps that may fail; what they do to files is left out.

### EventStore

`index[e]` is an event's version, or 0; `seen` is what searches find of the index, brought up to date
by `Refresh`. Writers are saves of aggregates (compare the expected version, search the version
again, bulk with `wait_for`) and appends past a full queue; the worker takes a batch, writes one group
per stream with a searched version, does not wait for the refresh, and puts a failed group back once, behind what came later, before
it spools it to the dead letters. The retry loop publishes an entry on the bus and removes it: telemetry has a
subscriber that appends it, other events nobody stores again. `lost` says what became of an event the
store gave up, and how the code knows. `close()` waits for the queue, then cancels the worker; `early`
and the two closed phases tell a clean drain from a lossy one. Events carry no data: the three sets of streams say who
appends them. `EventPersistenceWorker` and `RedisEventBuffer` are not wired by the production
bootstrap and are left out.

An append in the queue has its events as a function from events to their places in the append, and a batch is a
function from streams to groups, which the worker writes one after the other in the order in which the
streams came up (`Turn(s)`). That no saved stream is a logged or a telemetry one is an assumption: the
stream ids have prefixes (`work-item-`, `coding-agent-`, ...).

### ResilientCall

Locks of limiter and breaker are never held across an `await`, so a step ends where a coroutine
sleeps or waits for the service. `breaker` and `recent` are their state, with time in ticks and ages
that stop at the largest that matters; `call[c]` the attempt under way. `trouble` is whether the
service may fail; then it may also do what was asked and lose the reply. `streak` and `granted` count
what happened, independently of the counters of the code. Retries are inside the breaker and the limiter, which
count them as one call. A `MaxWait` of 0 sets no limit on the wait for a permit. `MarksBusinessErrors` distinguishes the queue's decorator, which hands
a business error through as a success of the service, from the others, where a caller's bad input
counts as a failure. Manual opening and closing, token quotas and best-effort reads are left out.

### RepairCycle

`run[r]` holds the locals of one handled column change: the test type, the iteration, and the
counters of transient failures, rebuilds and dispatches by the bus. A step ends at an agent call, a
checkpoint, the CI service or the board, and agents answer anything: a pass, warnings, failures, any
classification, no JSON. `tracked` is `_cycle_results` of the one adapter that all repairs share;
`stored` the last checkpoint, made of what was tracked when its
iteration ended (`saving`), before the store is awaited. A failed report moves the card by the configuration of the column
it is found in (`OnFailure`), wherever people have put it. `overlapped`, `disturbed` and `unfixed` are history. Prompts and parsing are the agents'
answers; the limit on agent calls is left out because production passes neither emitter nor breaker,
without which it is not enforced (`resolver.py:789-797`).

### GitHubBoardAdapter

A query to GitHub and the use of its answer are two steps, because work items are looked up one by one
in between. `context` is the board named last by anybody; `poll[b]` the loop of a board and the
reading it works on; `baseline[b]` its last known state; `told` what the application was told.
`raced` has the cards whose own move met a reading half way or was never answered, `crossed` those
whose move was entered in no baseline of their board, both known behaviours of the code (section 4). The interval is
abstracted to "some time later". Adding cards, webhooks (wired nowhere) and `get_item_position`
(which only raises) are left out.

## 3. Runs

| run | instance | distinct states | shows |
|---|---|---|---|
| `lock` | 1 key, 2 holders, 2 calls at a time, 3 leases, 1 call cut short | 112 thousand | no lease is granted or ended twice, no immortal metadata, and the contract (`ImplementsContract`) |
| `queue` | 2 items, 2 columns, 2 calls at a time, 1 card move, 1 failure | 1.4 million | the three keys agree, the topmost item is answered |
| `pipeline` | board of `codetoreum_board_setup.py`, 2 items, considerate people | 234 thousand | an agent works only for the holder; a free lock is handed over |
| `pipeline_crash` | board of `scenarios/stress_test` (agent in the trigger column, failures go back), one restart or one careless move | 1.3 million | `NoLostWakeup` |
| `pipeline_handover` | as `pipeline` | | **violated**: `ReleaseGrantsNext` |
| `executor` | 1 item, 2 calls, 1 run, 1 retry, 2 cancellations, 1 fault | 386 thousand | one report, a guard that is given back, a truthful report, every call ends |
| `executor_advance` | 1 call, no faults | | **violated**: `AdvanceRecorded` |
| `eventstore` | 3 events in 3 kinds of streams, queue of 2, 1 fault | 632 thousand | nothing vanishes, drains keep, streams stay savable, the queue settles |
| `eventstore_poller` | 2 events, no faults | | **violated**: `AtLeastOnce` |
| `resilience` | 2 callers, thresholds and windows of 2, 1 retry | 379 thousand | the breaker's and the limiter's promises, and what answers tell |
| `repair` | 2 repairs of 1 card, 2 and 1 test types, 3 and 1 iterations, 1 move | 396 thousand | verdicts, coverage, fixes, checkpoints, the card's one move, the end |
| `board` | 2 boards, 1 card, 2 callers, 1 drag, 1 failing request | 609 thousand | reports are of people's moves, the baseline was told, cards are seen |

Why the bounds are enough. The races of the lock are between two calls of two holders, and a third
lease lets a late command of the first meet one that is not its neighbour. The queue's are between
two calls, or a call and a move, over an item and its neighbour; one failure is placed at every
command in turn. In the pipeline one item releases and one waits; both may be in any handler
at once, and either may be the finished or the waiting one again; one mishap can fall between any two
steps, and the numbers of moves and executions are not bounded at all. Two calls are the executor's
race, and the second cancellation meets the clean-up after the first. Three events are a batch of two and one that
arrives meanwhile, or three streams at once; a queue of two is full when the worker fails. With two
callers one call's late outcome meets the other's probe; thresholds and windows of two are the
smallest with a before and an after. A repair of two types can pass one and fail the next, with an even and an
odd iteration for the checkpoint interval of two; the second repair is long enough to overlap with any step.
Two boards and two callers are what lets one call change the other's context.

Constraints that cut behaviours: `NotStranded` ends those of `pipeline_crash` once `stranded`
holds; it never becomes false again and `NoLostWakeup` then holds by definition, so nothing is missed.
`FewHandOvers` is a real bound of that run: after a careless move at most two coroutines are busy at
once; after a restart, while three are, only the scan is inside a hand-over.

Deadlock is checked in the runs of queue, pipeline and resilience. The others stop when their bounds
are used up: leases, calls, events after `close()`, column changes, requests.

Fairness. asyncio goes on with every coroutine that can. `FairSpec` of `Pipeline`: every coroutine,
executor task and the scan; agents have a timeout (`invocation.timeout_seconds`), and awaited Redis and
GitHub calls return or raise. `AgentExecutor`: each call's steps and each delivery's. `EventStore`: the
worker, writers, poller and retry loop, and Elasticsearch's refreshes. `ResilientCall`: ticks, calls under way, and callers
that go on calling, as polling loops do. `RepairCycle`: each handler, since every agent call has a
timeout and the bus sleeps a bounded time. `GitHubBoardAdapter`: poll loops that are alive, and calls.
Nothing is assumed of people, of cancellations, of faults, or that the service recovers:
`RecoversWhenHealthy` and `CardsSeen` have these as premises.

## 4. Where the code disagrees with its documents

With a run:

1. **A release that wakes nobody** (`pipeline_handover`). `release` deletes the key in a script and the
   metadata in a later DEL (`redis_distributed_lock.py:253`); an acquisition in between loses what it
   stored, its own release then publishes an event without project and board, and the orchestrator
   returns without peeking.
2. **A stage advance nobody records** (`executor_advance`). The executor clears the item's run before
   it publishes the completion, so the handler that moves the card finds no run for
   `WorkflowStageAdvanced`, nor for a failure or the end of the run.
3. **Events the poller skips** (`eventstore_poller`). After a batch the timestamp is the present time;
   an event that becomes searchable only meanwhile is older and is never fetched, though the comment promises
   at-least-once.

Met while modelling, without a run of their own:

4. *Startup scan against the poller* (`pipeline_orchestrator.py:282-291`): the scan looks a run up, then
   releases; a column change handled in between starts an agent that now works without the lock.
5. *Granted and never dispatched* (`pipeline_orchestrator.py:187`): the hand-over starts no run and no agent, though
   three documents say it does.
6. *The holder queued* (`board_event_handler.py:361`): re-entry enqueues the holder and leaves it there.
7. *Another column served* (`redis_pipeline_queue_service.py:625`): the queue is synced with the first
   column that holds any queued item.
8. *The recovery service not told* (`event_bus.py`): publish gathers handlers with
   `return_exceptions`, so `handle_completion_callback_failure` is never reached. And when the append of
   Completed raises, `fail()` is refused by the entity and the stream ends at Started.
9. *Equal versions* (`elasticsearch_event_store.py:356`): the worker does not wait for refreshes, so two
   batches of one stream within an interval get equal versions, against the comment on per-stream order (428).
   A retried group also goes behind later appends, and `append` after the drain of `close()` is lost
   without a log.
10. *An own effect read as an error* (`resilience/retry_policy.py:96`): a retried enqueue after a lost reply
    raises `DuplicateQueueEntryError` for its own entry. Errors of callers open the circuit in all decorators
    but the queue's; calls the open circuit refuses use up the limiter's window.
11. *Repair cycle*: the docstring's order of test types (`repair_cycle_event_handler.py:197-198`) has CI
    before the end-to-end tests, but it runs last, after a failure too; a retest that raises contradicts
    its result, so the bus runs the whole cycle again and then says nothing; `failed > 0` without a list of
    failures is a pass (`production_repair_cycle_adapter.py:653`); a column with only the CI type raises; saved
    checkpoints are never loaded.
12. *Board adapter*: a reading overtaken by a move re-reports the adapter's own move (comment 563-566);
    `get_board` is outside `_board_lock`, so with two boards a move may name the other's context (comment
    112-113); any error ends a poll loop, though "Transient errors - log and continue polling" (1070); the
    interval stays long after a change that follows idle polls (994-1001); a card's first sight reports
    nothing; `get_item_position` raises, so a finished repair moves no GitHub card.

## 5. Proofs

For every value of the constants that satisfies the modules' assumptions:

| module | theorems |
|---|---|
| `RedisDistributedLock_proofs` | `TypeCorrect`, `LeaseHasOneCall`, `MetadataExpires`; `Refinement`: `Spec => ImplementsContract` |
| `PipelineQueueService_proofs` | `TypeCorrect`, `MetadataKept`, `OrphansOnlyByCut`, `TopmostAnswered` |
| `Pipeline_proofs` | `TypeCorrect`, `WakeupsKept`, `WorkHasLock`, `OneAgentWorks` |
| `AgentExecutor_proofs` | `TypeCorrect`, `ReportsOnce`, `GuardIsHeld`, `RacesOnly`, `ReportAgrees` |
| `EventStore_proofs` | `TypeCorrect`, `EventsAccounted`, `DrainStores`, `VersionsConsecutive`, `SavesAdmitted` |
| `ResilientCall_proofs` | `TypeCorrect`, `TripsInTime`, `OpenAdmitsNobody`, `AnswersTell`, `LimitHolds`, and the action property `OpensOnlyForCause` |
| `RepairCycle_proofs` | `TypeCorrect`, `LastRunDecides`, `SuccessIsComplete`, `FailuresAreFixed`, `CheckpointsNotMixed`, `CardWaits` |
| `GitHubBoardAdapter_proofs` | `TypeCorrect`, `BaselineAgrees`, `NoEchoes` |

Each follows from an inductive invariant, most often a theorem `Invariance` (`Spec => []IInv`), with lemmas for
each action or group of actions; TLC checked the invariants on the runs' instances before the proofs. The assumptions
are those the modules state of their constants, and no more.

- *Lock.* `OneCallPerLease` is not inductive: that two tasks hold different lease numbers needs that
  numbers in use are at most `leases`, that a held key's current lease is not released, and that a call
  that ends a lease has a released one in hand. The refinement uses `IInv` in two places: the SET that
  grants maps to `Grant`, and `PublishReleased` maps to `Announce`, which needs that the lease is
  released and not announced before. All other commands map to stutters, invocations or refusals.
- *Queue.* `TypeInv` knows what a call has in its locals at each step (`Local`): the sync's list is a suffix of the
  column it fetched. `EntryHasMetadata` is then inductive by itself, since no step adds an entry without
  metadata or deletes metadata and leaves the entry; `NoOrphanIndex` is inductive with the enqueue that is under way. `TopmostFirst` is
  far from inductive: `Undisturbed` says of a call that ran alone what the sync has done so far, card by card: the
  cards before the place it stands at have their places as scores (`InPlace`), and nothing else than the column's cards
  is queued.
- *Pipeline.* `Fits` gives every coroutine the steps it can be at and the locals these use. `SomebodyWakes`
  strengthens `NoLostWakeup` to states in which handlers run: while an item waits for a free lock, some handler is on its way
  to hand it over (`Waking`), or the queue is stranded. `Orderly` strengthens `ExecutionHoldsLock` as long as
  `mishaps = {}`, which is the premise of the `pipeline` run: of an item one thing happens at a time, a column
  change, an execution or its completion, and a handler that is sure of the lock has it. Without the premise the
  property is false (section 4, item 4), so `WorkHasLock` names it. That at most one agent works follows.
- *Executor.* `CallsAgree` says for each call by itself how often it has reported at its place
  (`Counted`) and what call, entity and report say of each other (`Tells`). Steps of a task touch
  only its own records, so one lemma (`TaskStep`) does the framing for all of them. `Guard` relates calls: a running task's
  item is in the guard or raced, and two calls past the guard's test have raced. `DuplicateOnlyByRace` needs
  the latter for calls still waiting in their lookups, and `GuardHasTask` needs it when one of two racing tasks
  takes the item out.
- *Event store.* `Shape` and `Origins` say where an event can be by the kind of its stream; `Found` that searches find
  nothing that is not stored. `NothingVanishes` is inductive with these: what leaves queue, hands or dead letters enters another of
  them, the index or `lost`. `Draining` follows what was queued at `close()` through the worker's
  hands. `StreamSavable` needs `InOrder` for streams whose saves did not overlap or fail (`Clean`): versions are 1 to n,
  there is one saver, what it expects is there, and searches find all but what still waits for its refresh. `SavesAdmitted` says
  what this is for: the version check of such a save never refuses it.
- *Resilience.* `CountersAgree` ties the breaker's failure count to the streak, equal while it is
  closed, and bounds its successes while it is half open; `CallsAgree` ties attempts to effects by the
  place of the call; `OpenStopsNewCalls` is inductive with them. The limiter's log is the history of what it let
  through, because it forgets only what has left the window; that its sum grows by one with a grant and never with a tick
  is shown on the recursive sum, with the least age at which the sums would disagree (`UpTo`).
- *Repair.* `Sound` speaks of one handler's locals: results so far are of the types in order, all passed while the loop goes
  on; the report comes after the CI checks; iterations without a fix are counted by the transient failures. A handler's
  step changes no other's locals, so each action is shown to leave its own handler sound (`Goes`), and `GoesKeeps` carries
  that over. `Alone`, `TrackedIsOwn`, `SavingIsOwn` and `CheckpointAges` tie handlers to the adapter they share: a
  repair that nobody overlapped tracks its own results, captures them at the end of an iteration, and so its checkpoint has them.
- *Board.* `SettledCardsKnown` says where baseline and reading have a card that is settled (no own
  move under way, not dragged, raced or crossed): where it lies. With `LockHeld`, `ReadingsComplete`, `NothingToldYet`
  and `MovesLand`, what a loop is about to report cannot be a settled card.

Model-checked only: liveness, which the prover does not cover (`LockHandedOver`, `ExecutionEnds`, `QueueSettles`,
`RecoversWhenHealthy`, `RepairEnds`, `CardsSeen`), and the three violations, which are counterexamples. The library's
induction theorems take an operator as parameter, which the installed provers cannot instantiate; where a proof needs
induction over numbers (the limiter's sums) it uses that a set of numbers has a first.

## 6. Not modelled

- *Review cycles* (`basic_review_cycle_adapter.py`, `basic_pr_review_cycle_adapter.py`): bounded loops like
  the repair cycle's, with human steps; the board handler's columns for them are left out too.
- *Conversational loops*: driven by comments, independent of lock and executor.
- *Agent scheduler, pipeline manager*: built by the bootstrap; the board event handlers do not call them.
- *Configuration caches*: reads that may be stale for their TTL; no code here depends on more.
- *Containers, container recovery, execution state tracker*: behind the coding agent, which answers anything.
- *Domain entities* other than `AgentExecution`: sequential state machines.
- *File-backed and older lock and queue adapters, simulation*: development and tests.
- *REST and WebSocket routes, CLI, rendering*: I/O over the services.

## 7. Plan

1. Lock expiry as a mishap of `Pipeline`; auto-progress into a second agent column.
2. Review cycles, and the board handler's columns that start them.
3. Composition of `EventStore` with the handlers that append, for what a restart can replay.
4. Container recovery against execution; the scheduler.
5. Proofs: an abstract mutual exclusion that `Pipeline` implements until the first mishap, and an abstract log that
   `EventStore` implements; what remains of `WorkHasLock` after a restart, once the scan is done.
