# A formal model of the DigitalKin SDK

DigitalKin is an SDK for running *modules* (agents, tools) behind gRPC. A caller
starts a task with `StartStream`; the gateway of the module dials the caller back,
runs the module in an asyncio task, and relays what the module writes to a Redis
stream. Modules call other modules the same way, and an agent's events are shown to
an AG-UI client. This directory holds TLA+ modules for the parts of that system whose
correctness depends on order (interleavings, cancellation, reconnection, failure
half-way), the TLC configurations that check them, and TLAPS proofs.

Paths below are relative to `src/src/digitalkin/` unless they begin with `docs/` or
`tests/`. The exact lines behind every definition are in `PROJECT.json`, `map`.

## 1. Inventory

| part | state it keeps | operations | what is hard |
|---|---|---|---|
| Task manager (`core/task_manager/base_task_manager.py`, `local_task_manager.py`) | two semaphores and two counters, `tasks`, `tasks_sessions` | `create_task`, `cancel_task`, `clean_session`, `cancel_all_tasks`, `shutdown` | queue timeouts racing freed slots, cleanup reached from two sides, an id used again after an await |
| Task executor and session (`task_executor.py`, `task_session.py`) | the asyncio task, status, cancellation reason | `execute_task`, `_handle_cancel`, `_handle_stop`, `cleanup` | a cancellation before the first step, during the drain, during an acknowledgement |
| Signal listener (`redis/redis_signal.py`) | the PubSub, task references by id | `start`, `register`, `unregister`, `dispatch_signal`, the listen loop | reconnection beside a restart; done-callbacks that run after the id was registered anew |
| Gateway (`grpc_servers/gateway_servicer.py`) | dial coroutines, cursors | `StartStream`, `SendSignal`, `Stream`, the dial-back with reconnection | claim, session and dial undone in the wrong order; cursor, label and sequence number differ by one |
| Stream registry (`grpc_servers/stream_registry.py`) | sessions by task id | register, get, unregister, reap | capacity; unregistration by id |
| Idempotency (`redis/redis_idempotency.py`) | `idem:{task_id}` | claim, release | a command that raised may have been applied |
| Redis stream (`redis/proto_streams.py`, `module_runner.py`) | the stream, saved cursors, TTLs | write, read, skip | a sequence number spent on a write that failed |
| Module lifecycle (`modules/_base_module.py`) | status, callbacks | prepare, run, stop, cleanup | how each end is told to the reader of the stream |
| Calls between modules (`services/communication/grpc_communication.py`, `grpc_servers/m2m_call_registry.py`) | slots, entries with bounded queues | `call_module`, dial-back receive, sweep | a sentinel for many causes, full queues, a reaper racing the call |
| Circuit breaker (`grpc_servers/utils/circuit_breaker.py`) | state, failures, probe lock | record, check, release | outcomes that arrive after the state they belong to |
| Agno adapter (`community/agno/agno_adapter.py`) | open sequences per run, delegations | one handler per raw event, `flush` | members that stream at once through one queue |
| AG-UI mixin (`mixins/agui_mixin.py`) | run and thread id | one emission per event | ids minted by two parties |
| HITL runner (`community/agno/hitl.py`) | paused runs per thread | `handle_agui_input`, `try_resume`, `_drive` | pauses, in-process continues, concurrent turns |
| Channel pool and guarded queries (`grpc_servers/utils/grpc_client_wrapper.py`) | channels and stubs with reference counts, a breaker and a probe lock per service | take, release, evict, sweep, `exec_grpc_query` | eviction against counts; probes that race and are cancelled |
| Module servicer (`grpc_servers/module_servicer.py`) | setup cache, tool cache, a flight per key | resolve, invalidate, `ConfigSetupModule`, schema requests | invalidation during a flight, a builder that is cancelled |
| Job manager (`core/job_manager/single_job_manager.py`) | instances and sessions of jobs | create, preload, run, config setup | a job given up half-way |
| Storage (`services/storage/*`) and file history (`mixins/file_history_mixin.py`) | records, locks per record; entries and dirty marks | store, read, update, upsert, remove; append, flush | a lock dropped under its waiters; an append during a flush; lost answers |
| Local files, costs (`services/filesystem/default_filesystem.py`, `services/cost/*`) | records beside files on disk; a ledger | upload, update, delete; add, limits | operations that await between check and change; repeated charges |
| Setup and registry services (`services/setup/*`, `services/registry/*`) | setups with versions; modules | CRUD, search, register | an orphaned setup, a page that moves |
| Tools of a module (`models/module/module_context.py`, `tool_reference.py`, `tool_cache.py`, `loaded_tools.py`) | declared and loaded tools per mission | resolve, rehydrate, load | revocation and outage while tools are resolved |
| Setup schemas (`models/module/setup_types.py`, `utils/dynamic_schema.py`) | models cached per filter | `get_clean_model`, forced refresh, `build_tool_cache` | a refresh that leaks into the class |
| Trigger discovery (`utils/package_discover.py`) | registered classes, `sys.modules` | discover, register, dispatch | a failed import that is tried again |
| Agno toolkits (`community/agno/module_toolkit.py`, `toolkits/`) | toolkits of a turn | tool calls, search, load, setup managers | what is told of a call that broke off |
| Server (`grpc_servers/module_server.py`, `_base_server.py`) | everything it opened | start, stop | an await of start or stop that fails, requests meanwhile |
| Settings, models, profiling, interceptors | configuration | | |

How they interact: `StartStream` claims the task id, registers a session, seeds the
Redis stream and starts a dial. The first reply of the consumer spawns the module
runner, which admits the task through the task manager; its outputs go to the Redis
stream, which the dial reads. `SendSignal` publishes on a Redis channel that the
listener of the process which runs the task dispatches by cancelling its asyncio
task. A module's tool calls enter `call_module`, whose answers come in through the
caller's own gateway. Everything of one process shares one event loop: a step of a
model is the code between two suspension points.

What makes each part correct is stated with the modules below; `hazards` in
`PROJECT.json` lists where it could go wrong, with the properties that would notice.

## 2. Modules

    TaskManager -------- Admission          what it refines
    GatewayStream ------ OrderedDelivery
    AgentStream -------- AguiProtocol
    M2MCalls ----------- Breaker            a value with operators
    GatewayStream, TriggerDiscovery, CatalogSearch ---- Ranking
                                            sets of numbers in order, elements at places

    MCHost      = ModuleLife + (ServerLife over SignalListener) + StreamPull
    MCServices  = ChannelPool + (GuardedQuery over Breaker) + (FileHistory over
                  StorageRecords) + LocalStore + LocalFiles + CostLedger
    MCSetupCaches = SetupCaches over SetupService
    MCTools     = ToolLoading + PausedRuns + ToolSelection + SetupSchema +
                  TriggerDiscovery + CatalogSearch + ToolCall

    TaskManager_proofs  GatewayStream_proofs  AgentStream_proofs  M2MCalls_proofs
    SetupCaches_proofs  Services_proofs (of MCServices)  Host_proofs (of MCHost)
    Tools_proofs (of MCTools)

"Over" is composition: the upper module EXTENDS the lower and its actions contain the
lower one's. "+" puts modules with separate state beside each other in one run: a
behaviour picks a `side` in its initial state and moves only there, so that the run
explores the sum of the state spaces, each exhaustively. `MCTaskManager`,
`MCGatewayStream`, `MCM2MCalls` and `MCAgentStream` are instances of one module.

Everything runs on one asyncio event loop per process, and a step is the code between
two awaits. Cancellation strikes at an await.

### TaskManager, Admission

`slot`, `gate`, `active`, `waiting` are the semaphores and counters of
`BaseTaskManager`; `sessions` and `tasks` its dicts; `refs` the listener's;
`pc[c]` says where the `c`-th `create_task` stands, `run[c]` where its `_run()` is,
`sess[c]` what its `TaskSession` records. `op` holds the coroutines of `cancel_task`
and `shutdown`, `wire` the published signals.

- Admission: `CreateTask`, `EnterGate`, `RefuseAtGate`, `GiveUpSlot`,
  `RefuseDuplicate`, `Register` are the steps of `create_task` between its awaits,
  with every exit that must return a permit.
- Execution: `Begin`, `CoroEnds`, `CoroCancelled`, `AckReturns`, `AckInterrupted`,
  `DrainReturns`, `DrainInterrupted`, `CleanupReturns`; `DropUnstarted` is a task
  cancelled before its first step, whose body and `finally` never run.
- Cancellation: `PublishCancel`/`PublishFails`, `WaitReturns`/`WaitTimesOut`,
  `ForcedReturns`, `OpCleanupReturns`; `Shutdown`, `StartSweep`, `Sweep`.

`Evict` and `FinishCleanup` are the two halves of `_cleanup_task`, which pops the
session before it awaits its cleanup: what another coroutine finds in between is the
point of several properties. `DrainYields` separates Python versions: before 3.12
`asyncio.wait_for` suspends even when the event is set. `Admission` says what the
queue promises; `Standing` maps each call to it.

### GatewayStream, OrderedDelivery

One task id, several `StartStream` calls for it. `Handler(r)` are the steps of the
handler (`StartStream`, `ClaimTask`, `Seed`, `Release`, `Unregister`), which the caller
may cancel at any of its awaits (`CancelStart`: nothing is undone); `Dial(r)` are
those of `_dial_consumer` and `_run_dial_attempt` (`Connect`, `FirstReply`,
`ResumeReply`, `Read`, `Receive`, `Drained`, `BreakDown`, `Retry`, `Redial`), and
`Module` those of the runner and the module. `log` is the Redis stream, `got` what
the consumer has, `cursor` the highest label it received. A Redis command succeeds,
raises without effect or, with `LateReplies`, raises after it took effect. The
reader's labels, the stored sequence numbers and the resume cursor are three
numberings, kept apart as in the code (`SkipTo`, `Labelled`, `EndLabel`).

### M2MCalls, Breaker

Calls of `call_module` to one target. `slots` and `entries` are `M2MCallRegistry`,
`queue[c]` the bounded output queue, `breaker` the target's breaker. `CallModule` to
`ReleaseSlot` are the phases of `call_module` with each of its `except` and `finally`
branches: `StartFails` is an `AioRpcError` or a rejection, which the breaker counts,
`StartDenied` a `PermissionDeniedError`, which it does not; `DialBack`, `Receive`, `Break` the dial-back handler; `Sweep` the reaper.
`sent`, `faults`, `recorded` are history.

### AgentStream, AguiProtocol

One turn of an agent or team. `adapter` is an `AgnoStreamAdapter` with the burst
`out` its last handler returned, which `Send` passes on one awaited call at a time;
`drive`, `rounds`, `pending` are `_drive` and the paused run; `mixin` is
`AgUiMixin._run_id`; `client` is what the client has made of the stream. There is
one action per raw event with the handler's whole effect, and the runner's
`StreamEnds`, `AutoContinue`, `LimitReached`, `AwaitTools`, `Return`. `Init` has the
three ways a turn begins: fresh, resumed, refused for lack of results.

`AguiProtocol` is what comments of the adapter and the mixin say the client accepts:
one `RUN_STARTED` first, content only inside a sequence its own author opened, a
sub-agent closed after what it was saying, `RUN_FINISHED` with nothing open, nothing
after the end. Agno is external. Assumed of it, as the code does: a native reasoning
sequence starts when the run has none open and its deltas come while it is; a member
completes after its own delegations; only events of the top run lack a run id.

### ModuleLife

One instance between the `ModuleRunner` that prepares it (`runner`, `Prepared`,
`TurnedDown`, `Emits`, `Expire`), the task that runs it (`task`, `HandlerReturns`,
`RunFlushed`, `RunFails`, `Tells`) and the session whose cleanup closes its services
and stops it (`session`, `CleanupBegins` to `CleanupEnds`). The cleanup is begun by the
finalizer of the task (`FinalizerCleans`) or by a canceller (`CancellerCleans`); a task
cancelled before its first step or while it drains is "lost": its finalizer does not run. `stop()` is reached from two
sides: `StopBegins(w)`, `HookEnds(w)`, `Flushes(w)`, `SendsEos(w)`. `kind` "config" is an
instance that configures a setup. `crossed` remembers that both callers were in `stop()`
at once or that one was struck inside it.

### ServerLife over SignalListener

`SignalListener` is `SharedRedisListener`: `start()` opens a PubSub and spawns a loop
(`loops`); `LoopReads`, `LoopRaises`, `LoopCloses`, `LoopBacksOff` are its turns, and
connections (`conns`) break under it. A loop that `start()` replaced runs on: both work on
whatever `pubsub` is, a read on a PubSub that the other uses may raise (`Troubled`, the
behaviour of the Redis client), and a loop in `LoopCloses` closes what the other reads or
drops what it has just opened (`Collide`). Numbers of collected PubSubs are used again. `ServerLife` is `start_async` and `stop_async` of
`ModuleServer` with every resource they open (`opened`, tagged by the start that opened
it), any await of which may fail, and the requests that arrive from the start of grpc
to the last but one step of the stop: `StartStream`, its dial, its run, the reaper.

### StreamPull

The `Stream` RPC: `Stream`, `TakesQuery`, `RestoreCursor`, `XRead`, `Yields`,
`SaveCursor`, `IdleDeadline`, `Finally` are a pull; `NextMessage`, `MessageLands` its second task,
which writes follow-up messages to the task's input. `Writes` trims (`StreamMax`),
`StreamExpires` and `CursorExpires` are the TTLs. All pulls share one session and one
saved cursor.

### ChannelPool, GuardedQuery

`ChannelPool`: `cached`, `refs` and `stubs` are the class dictionaries, `hold[c]` what a
taker has. Strategies take and release; a dial takes, and evicts before it dials again;
a call takes and gives nothing back; `close_all_cached_channels` runs across awaits
(`SweepCloses`). `GuardedQuery`: calls of one service admitted by a breaker (`Check`),
its probe lock, retries, cancellation, and breakers that are removed with the last
channel (`Generations`).

### FileHistory over StorageRecords, LocalStore, LocalFiles, CostLedger

`StorageRecords`: the operations of `StorageStrategy` under a lock per record, looked up
when the operation is called (`RecordLock`) and dropped after a removal, over the remote
service, whose calls fail before, after, or ahead of a late effect. `FileHistory`:
writers append, a runner flushes after the handler and again in `stop()`, visitors use
the same record. `LocalStore` is `DefaultStorage`, one file under several maps;
`LocalFiles` is `DefaultFilesystem`, one step per file operation, with records as
objects that whoever holds them goes on changing; `CostLedger` is `add_cost` over a
service that is asked again when it failed.

### SetupCaches over SetupService

`SetupService` keeps setups with all versions and the modules behind them. `SetupCaches`
has the two caches per process with their flights (`SetupMiss`, `FetchReturns`, `Wake`,
`ToolsMiss`, `BuildReturns`, `WakeTools`), the agent's managers that change setups
(`EnsureKind`, `Write`, `Invalidates`), `ConfigSetupModule`, and the invalidations that
reach other processes (`Dispatch`). `Overtaken` marks a flight that an invalidation passed.

### The sides of MCTools

- `ToolSelection`: `build_tool_cache` level by level, references of a level together;
  modules are redeployed meanwhile.
- `ToolLoading`: turns of missions: `Rehydrates`, `Forgets`, `LoadBegins`,
  `LoadResolves`, `Persists`, while the registry revokes, grants and fails.
- `ToolCall`: the wrapper that drains a tool module's frames, relays its custom events
  and makes one answer of the rest.
- `PausedRuns`: the record of a paused run under overlapping posts of one thread.
- `SetupSchema`: clean models, filtered and cached, or refreshed field after field.
- `TriggerDiscovery`: import, registration, a handler's choice.
- `CatalogSearch`: an agent pages through a catalogue that changes.

## 3. Runs

| run | instance | what it shows |
|---|---|---|
| `tm_shutdown` | 2 calls on 1 slot + 1 queued, a config-setup job, one outside signal, Redis may fail, shutdown | `SlotsAccounted`, `AckAgreesWithOutcome`, `TerminalIsFinal`: on every path counters, acknowledgements and outcomes agree |
| `tm_cancel` | 2 calls on 1 slot + 1 queued, two cancellers, one signal | `OverBeforeFreed`: never more running tasks than slots, a `cancel_task` that returned True left the task over and its admission back or at somebody's cleanup; `SignalsReachTask` |
| `tm_shared_id` | 3 calls, two for one id, Python >= 3.12 | `OneRunPerId`; `ImplementsAdmission` |
| `tm_legacy` | one semaphore, shutdown, no outside signal | `QuiescentRestored`: idle means all permits are back; `WaitersGetOn`: cancellation frees slots, shutdown returns |
| `gs_delivery` | 2 requests, which may be cancelled, 2 outputs, 2 re-dials, one failing command, a registry that may be full | `RunsOnceClaimed`, `EndIsComplete`, `SessionsFreed`, `ImplementsDelivery` |
| `m2m_calls` | 3 calls on 2 slots, two never dialled back, denials, `fail_max` 2, queue of 2 | `CallsAccounted`: slots, entries, the breaker and what counts in it; `ReturnedIsComplete`, `AnsweredCallEnds` |
| `as_turns` | 2 members (siblings or nested), a call of each sort, 2 sequences, 2 rounds | `OneVoicePerRun`; `ScreenIsTrue`: the client's screen is what the adapter takes it for, to the end; `TurnEnds`, `ImplementsAgui` |
| `setups` | 2 runs in 2 processes, 1 manager call, 2 setups, 2 versions, 2 events | `CachesInOrder`, `NoForeignWrite`, `RunsEnd` |
| `host` | five sides: 2 requests over one start, 1 request over two, one instance, 2 pulls, 2 writers | `EndsInOrder`, `WindsUp` (the instance), `LeavesNothing`, `BackOnAir` (the server), `PullsInOrder` |
| `services` | six sides: 5 takers of 2 channels, 3 queries, 6 users of one history, 2 local stores, 2 users of files, 3 costs | `PoolInOrder`, `ProbesAreLocked`, `AppendsAreKept`, `WritesOnlyAdd`, `KeptAsTold` |
| `tools` | seven sides: 3 turns of 2 missions, 3 posts, 3 references, 2 schema requests, 3 trigger files, 3 listings, 2 tool calls | `LoadsInOrder`, `PausesInOrder`, `BuiltAfresh`, `SchemasAreTrue`, `HandlersAnswer`, `PagesAreTrue`, `AnswersAreTrue` |

`cost_limits` ends in a counterexample: `LimitedRunsRun`. `run()` dumps the input to
plain dicts and hands its limits to `set_limits`, which reads `limit.name`
(`services/cost/default_cost.py:39`), although the extended input model "includes
cost_limits field for cost control"
(`grpc_servers/utils/utility_schema_extender.py:88`): a run with limits fails.

Many properties name exceptions: flights an invalidation overtook, keys that were
evicted from their users, stops that were struck. Each exception is a behaviour of the
code, kept as narrow as TLC allows: without it the property fails.

### Disagreements without a run of their own

What the code does differs from what the repository says also here. The properties
above leave these cases out by name.

- `core/task_manager/base_task_manager.py:402`: `cancel_task` keeps only the id across
  its wait; its cleanup evicts the session of a newer task of that id, beside which a
  third call is then admitted.
- A signal delivered before a task's first step, or during its drain, leaks its slot
  and its session: `WindsUp` excepts such a task (`Unfinalized`) unless somebody cancels it
  through the manager, and `tm_legacy` checks `QuiescentRestored` without outside signals; with them it fails,
  against `docs/architecture/admission-queue.md:60`. A raising `send_signal` makes
  `cancel_task` return False although its `finally` frees the running task's slot. A call
  queued when shutdown begins is admitted.
- A listen loop that lost its connection sets `_pubsub` to None and waits; a `start()` then
  spawns a second loop beside it (`redis_signal.py:105`), against its docstring "start the
  listen loop. Idempotent under concurrent callers." (`:103`). The two read one PubSub and can
  close it under each other for as long as their back-offs let them (`:276`): `BackOnAir`
  excepts the times when one closes while the other reads or opens. What is published
  meanwhile is lost.
- A `StartStream` whose RPC is cancelled while it awaits the seed or the release
  (`gateway_servicer.py:261`, `:270`) catches only `RedisError`: its session has no dial, and the
  backstop of the registry, which waits for dials that end, never sees it, although "Session
  lifecycle is bound to the dial-back asyncio task" (`stream_registry.py:3`). It counts against
  `max_streams` until the gateway stops. `SessionsFreed` excepts it, as does `NoneOutlives` of the
  server ("abandoned").
- `grpc_servers/gateway_servicer.py:270`: the claim is released before the session is
  unregistered, by id: a retry in between is accepted and loses its session. The error
  entry of `:326` has no sequence number, is read as 0 and skipped by every resume: the
  consumer sees a plain end. An `XADD` that raised makes labels and sequence numbers
  disagree, and a resumed consumer receives an output twice (`LosesOutputs`). The first
  dispatch never retries a failed subscription, though `:152` says "first-task PSUBSCRIBE
  will retry lazily".
- `docs/` on the gateway protocol (`gateway_protocol.md:131`) says "Server delivers
  seq > from_seq only"; a pull is served from the saved cursor. One pull's end tears down
  the session that others share, and the task that writes follow-up messages dies silently
  after one Redis error.
- `grpc_servers/m2m_call_registry.py:225`: a broken dial-back and the reaper put the same
  sentinel as the end of a stream, so that a truncated call returns normally and is recorded
  as a success (`services/communication/communication_strategy.py:96` says a call stops at
  `stream.end`). A fatal error after which the tool function drops the generator is never
  recorded in the breaker (`tests/gateway/test_m2m_resilience.py:158` has it recorded).
  A tool call cancelled while it relays an event leaves its `call_module` without a CANCEL;
  a truncated stream, custom events alone, and an output that embeds an `error` count as
  successes.
- `community/agno/hitl.py:679`: the awaiting `RUN_FINISHED` bypasses the mixin and carries
  Agno's run id instead of echoing that of `RUN_STARTED`. A member that goes on after an
  in-process continue and then fails sends `RUN_ERROR` in the middle of the run
  (`MembersContinue`); tool calls in flight at a pause or an error never get their end; a
  resume that ends in an error deletes the paused record, as does a turn that completes
  beside one that paused again.
- Over gRPC an orphaned setup cannot be deleted: `RegistryModuleNotFoundError` is wrapped
  again on its way (`grpc_error_handler.py`), so that `toolkits/registry/base.py:144` never
  sees it, against the docstring of `grpc_registry.py` and
  `tests/community/agno/toolkits/test_registry_managers.py:986`.
- `community/agno/toolkits/registry/loader/action.py:126`: `load_manager` looks for a toolkit of
  the same module among those of this turn, which lack an earlier load whose resolution failed
  for a while (`models/module/module_context.py:472` keeps its id and goes on). A second setup of
  that module is loaded and stored, and the next turn has both, although the check "after
  rehydration also covers a tool loaded on an earlier turn of this mission" (`:86`).
  `LoadsInOrder` excepts the missions in `missed`; without the exception three turns, two
  setups of one module and one failure refute it.
- `register_trigger` never raises the `ValueError` it documents, and a forced schema refresh
  passes over a container of a union.
- A package whose `__init__` raises anything but `ImportError` fails the whole discovery
  (`utils/package_discover.py:67`).
- In a forced schema refresh a union with one model
  among its members is replaced by that model alone (`setup_types.py:306`): `X | None`
  no longer takes None in the refreshed schema.
- `resolve_tool` adds a module to the dynamic layer before `load_manager` finds that it has
  no tools and refuses it (`module_context.py:413`): the view of this turn keeps it.
- `PausedRunStore.delete` ignores a `remove` that returns False (`hitl.py:127`): the record of
  a finished run stays, and the next post of the thread resumes it.

These four are told here and not modelled: the packages of `TriggerDiscovery` import,
`SetupSchema` follows the models in an annotation and not the members beside them, every module
of `ToolLoading` has tools, and a removal in `PausedRuns` succeeds or raises.

### Bounds

- `MaxSignals`, `MaxFaults`, `MaxRedials`, `MaxDials`, `MaxOut`, `MaxIds`, `MaxUpsets`,
  `MaxMishaps`, `MaxCancels`, `MaxBreaks`, `MaxTroubles`, `MaxErrors`, `MaxLapses`,
  `MaxBreaches`, `MaxEvents`, `MaxChanges`, `MaxMoves`, `MaxShifts`, `MaxRelists`:
  budgets in guards. One fault falls at every place in turn; two where a second can undo
  what the first left.
- Two outputs and two re-dials are the least with which a resume in the middle followed
  by another resume occurs. One call more than slots, and one more than slots and queue
  in `tm_shared_id`, which fills the gate.
- `MaxIds = 2`: a sequence can be open while another run, or the same run's other
  sequence, opens the second. A third changes no handler's case: each looks only at the
  slots of one run. The theorem `OneVoice` does not depend on it.
- `ContinueLimit = 2` stands for the code's 20: what matters is the last round.
- `StreamMax = 1`, `ReadCount = 2`, `SaveEvery = 1`, `SeqLimit = 2`: the stream is trimmed
  under a reader, a batch has two entries, the cursor is saved between them.
- `MaxStarts = 2`: one restart, which is what leaves a second listen loop. On that side of
  `host` (`ListenerStep`) the mishaps are the listener's, and no run reopens pools that the
  stop closed: what start and stop do when other awaits fail is the side of the requests.
- `CacheMax = 1` and `CleanMax = 1`: every other key evicts. `Threshold = 2`: one append
  stays pending, the next flushes.
- `MaxResults = 2` with 3 listings: a full page, a page at the ceiling, a last page.
- `Silent` names the calls whose target never dials back: one call that is served, with
  any faults, beside two that hold slots and time out.
- No symmetry is declared: the liveness properties would not allow it, and the sides of
  a composed run have few states.
- `CHECK_DEADLOCK FALSE` in every run: each model ends when its calls have been served.

### Fairness

Only steps the event loop or a timeout guarantees are fair; nothing is assumed of
module code, consumers, targets, callers or Redis.

- `TaskManager`: the loop resumes every runnable coroutine; a module lets
  `CancelledError` out, once it is forced to (it need not react to a signal).
- `GatewayStream`: weak fairness of `Handler(r)` and `Dial(r)`, whose waits all have a
  timeout in the code. The module is not fair, and no caller need cancel or not cancel.
- `M2MCalls`: weak fairness of what a call does after `StartStream` is answered, every
  wait of which has a timeout; the answer itself has none, hence `AnsweredCallEnds`.
- `AgentStream`: sends return, and no stream of Agno is endless (`[]<>StreamOver`).
- `SetupCaches`: services answer (`exec_grpc_query` has a deadline), and the loop resumes
  what it can.
- `MCHost`: some listen loop runs on (`OnListener`; connections break only so often), and
  a stop, a report or a cleanup that has begun goes on and a task that ended without being
  struck in its drain finalizes (`OnModule`). No canceller need come. The author's code in
  a module is not fair: `WindsUp` excepts it.

## 4. Proofs

Theorems hold for every value of the constants that satisfies the named assumption of
the module (`ConstantsOK`, `StreamAssumption`, `M2MAssumption`, `CachesAssumption`,
`LifeAssumption`, ...): numbers are naturals, functions have their domains, sets are
finite where a cardinality counts them. Where a theorem needs more, it says so in its
`ASSUME`, and the text below says why. `HostAssumption` and the ones like it only name an
element of a set that the run enumerates.

Each safety property has one inductive invariant, `...Inv`, made of named parts. Most of
these say of one actor what it may rely on between two awaits, so that a lemma about a
step of one actor (`TurnSteps`, `PullSteps`, `CallSteps`, `OneStepsOn`, ...) serves all its
actions.

### Task manager

- `TypeCorrect`, `PermitsNeverLost`, `CountersAlwaysExact`, together `SlotsAlwaysAccounted`.
  `PermitsConserved` is inductive with the types; `CountersExact` is not: an admission must
  not be counted both as a session and as one being cleaned up. `CountersInv` adds
  `HoldersConsistent`: a session stands under its own call's id, only calls that are `in`
  are registered or being cleaned up, and never both. A classification of all steps by
  what they do to the four counters (`StepKinds`) leaves one cardinality argument per kind.
- `ManagerImplementsAdmission`, for `ConfigJobs = {}`: evicting a config-setup job returns an
  admission nobody took, so with them the manager does not implement `Admission`.
- `AcksAgree`, `OutcomesAreFinal`, without a hypothesis: the status of a session, its
  acknowledgement and the place of its coroutine are tied call by call (`FateSettled`).
- `SignalsAlwaysReach`, for `OneCallPerId`: no two calls share a task id, which is what the
  gateway's claim gives. Without it the cleanup of an old call removes the references a
  newer one registered.
- `CancelTaskIsHonest`, without a hypothesis: `cancel_task` that returned True left the task
  over, and an admission still held is at the cleanup of somebody else. An earlier form of
  the property, that the admission is back, is false with two cancellers: the one that
  finds the session popped answers while the other still awaits its cleanup.
- `OneModulePerId`, for no cancellers and no shutdown: `cancel_task` and the sweep evict
  whoever stands under their id after their wait, beside whom a third call is admitted.
- `OverWhenFreed`, for `OneCallPerId`, no config-setup job (it would give back a slot it did
  not take), `~SignalFaults` (a publish that fails makes `cancel_task` clean up after a task
  that nobody cancelled) and no shutdown (its sweep does the same).
- `QuiescenceRestores`, for `OneCallPerId`, `ConfigJobs = {}` and `MaxSignals = 0`: an outside
  signal may end a task before its `on_finalize`, and then nobody cleans up. Failing
  publishes and shutdown are included. `cleaner` names who is to return each admission.

These hypotheses are the settings of the runs; each of them excludes a behaviour that the
list of disagreements above names.

### Gateway, calls between modules, agent

- `RunsAtMostOnce`, `ClaimHeld`, together `RunsOnceUnderClaim`: one request at a time owns the
  claim (`OwnerAlone`), one that was cancelled with its session registered included, only accepted requests dial (`DialsAccepted`), nothing runs while a
  dial has not had its first reply (`RunsCounted`).
- `EndIsComplete` and `ImplementsDelivery`, the refinement of `OrderedDelivery`, for any number
  of outputs, broken connections and re-dials, under `Reliable`: `~LateReplies` and
  `~LosesOutputs`. Without the first a seeding command that raised but was applied leaves two
  `stream.start` in the log, so that labels shift; without the second a lost output leaves a
  hole in the numbering. Both are hazards of the code, listed as such. `DeliverInv` has a clause for each
  place an output can be in. The log numbers its outputs 1, 2, ... without a gap, and up to the
  module's error an entry stands at its number plus one, so that the label a fresh dial
  counts is the one a resumed dial looks for (`LogStands`). The saved cursor separates what was
  received from what was not (`CursorStands`, `GotStands`). A dial reads and has on the wire what
  continues either (`DialStands`, `ReadStands`, `WireStands`). So the outputs written and those
  received are both `Counting(n)`, the numbers up to an n: that is all `OrderedDelivery` asks,
  and no induction over the sequences is needed. The fairness part of the specification is not
  used.
- `EveryCallAccounted` from `SlotsNeverLost`, `EntriesLive`, `BreakerExact`,
  `OutcomesRecordedOnce`, which ties what counts to how the call ended: a failed or rejected
  `StartStream`, an ended or timed-out stream once, a denial or a call its caller left not at
  all; and `UndisturbedCallsComplete`, which needs `StreamInv`: while
  nothing was dropped, broken or reaped, what was yielded followed by what is queued is
  what was sent, with the sentinel after the end of the stream.
- `OneVoice`: `Voices` is about the adapter alone: ids in use are among those given so far,
  and each run's text and reasoning slots are not both taken. Every operation of the
  adapter keeps it (`CloseKeeps`, `OpenKeeps`, `ProcessKeeps`, ...), so every handler does.
- `ScreenTruly`: the screen lags behind the adapter by the burst in `out`, so the invariant
  is about the burst. `Led(u, burst, v)` says that there are screens from u to v, one for each
  event, each event one that the protocol accepts on the screen before it; `LedJoin` and `LedPop` put
  bursts together and take their first event off, so no induction is needed. `Leads` says
  that the client's screen is led by `out` to the screen with exactly what the adapter has open.
  Each operator of the adapter keeps it (`LeadsClose`, `LeadsOpen`, `LeadsCloseSubagents`,
  `LeadsPause`, ...), so each handler does, and a send takes one event off and shows it
  (`SendShows`). What the adapter cannot know is in `TurnStands`: only a run that has begun
  has something open, what is over has nothing, members are at work only while the top run is,
  and each is a delegation in flight unless members outlive a pause. `Phased` ties the phase that the client will
  be in to the top run; `Named` is the id that a run is announced and finished under.
- `SpeaksAgui`, the refinement of `AguiProtocol`, from the same invariant: what is sent is
  accepted (`TakesAgui`). It has the hypothesis `~MembersContinue`, as the run has. Without it the
  protocol is broken (section 3), and the invariant says how far: `UnderWay` lets such a
  member speak after the end. `ScreenTruly` does not need the hypothesis.

### Setups

- `FreshAndOnce`: every process keeps what it was told (`told`, only versions that were
  current and are not). A superseded value in a cache, with a run or at a future stands
  there marked late, by the invalidation that passed its flight (`EntriesMarked`,
  `RunMarked`, `WaitsWell`); a flight that a new run can still join has nothing superseded in
  hand (`Flights`), since an invalidation takes flights out of the table. What was
  known when a run began (`bad`) is among what is known, so that what it is served, if bad,
  came late. `Leads` gives `OneBuilder`.
- `OwnKindOnly`: `GateInv` carries the kind that `EnsureKind` saw to the write two awaits
  later. That `setups[s]` is a setup is part of the property: without it the write of a
  deleted setup would refute it.

### Host

- `EndedInOrder`: `LifeInv` is a disjunction: either both callers were in `stop()` at once, or
  one was struck inside it (`crossed`), or the task, its stop and the session's cleanup come
  one behind another (`OneBehindAnother`). Of the two stops then one works and the other finds
  it done (`OneStops`), and history and the last frame follow its order.
- `LeftNothing`: `Held` says phase by phase what a start or a stop may still have open
  (`MayHold`), `TakenOut` who takes each session out of the registry and who ends each dial,
  `Up` that an address is given away only by a start that is through.
- `PulledInOrder`: `Fetched` says of each pull that what lies between where it began and where
  it reads was yielded or is no longer in Redis; `Covered(cursor)` that the same holds of all
  pulls together below the saved cursor, which is what a new pull starts from; `Landed` is
  the place of each client in the input.

### Services

- `PoolStaysInOrder`: `KeyInOrder` speaks of one key. A key that was taken away from its users
  (`strayed`) is excepted from the count of references, not from the rest.
- `OneProbeIsLocked`: a lock is taken only while its breaker is half-open and a probe is under
  way; a probe that nobody jostled holds the lock and is alone.
- `RecordsOutlive`, `FilesAreTrue`, `ChargesAreAdded`, together `KeptForCallers`. `FilesInv` has
  one clause for the coroutine that wrote a path last (`WritersFind`) and one for a record
  that no other operation came to (`RecordTrue`). The exception for deletions was too wide
  when this was first attempted: an operation's own unlink excused it. It now excuses others.
- `AppendsKept`, `WritesAdd`, together `HistoriesOfRun`. Two invariants, one over the other.
  `StorageInv` is the storage's: an operation queued on the lock that its record has still,
  of those that hold the same lock one is at the record, and what an upsert has read is
  there when it writes (`OpStands`), all unless the pair of strategy and record is
  `disturbed`; a late effect or another strategy's disturbs it (`BackendMoves`, `LateMoves`).
  `HistoryInv` is the handler's: who holds the flush lock is at a flush of the cached history
  (`FlusherAt`, `OwnerAt`), and while nothing excuses a loss the cache leads on from what is
  stored, a flush under way brings what lies between, and a clean cache is what is stored
  (`HistoryStands`). That the cache is what is stored would not be inductive: it may have grown
  since the flush read it. `HistoryAssumption` gives a handler a task of its own to run it, and
  says that what validates as a history is a list of files.

### Tools

- `LoadedInOrder`: in a mission whose turns did not overlap one turn is under way
  (`OneTurn`); what it drops is not promised, and what it has covers what is loaded, one
  of each module (`Stands`), unless a turn missed some (`missed`, section 3).
- `PausedInOrder`: as long as turns do not cross, the one under way knows the record (`Knows`),
  and a pause on record that was answered is being resumed (`Resumed`).
- `AnsweredTruly`: what a wrapper has taken of its frames by the place where it stands (`Taken`),
  what an answer says of them (`Told`), the agent's stream (`Relayed`).
- `BuildsAfresh`: what is resolved or cached was answered in this build (`Founded`), the answers
  of references that are done are in the cache, and a level starts when the one above is done
  (`LevelsDone`).
- `DispatchedToItsOwn`: what is in `sys.modules` was executed to its end, so its class is
  registered (`ImportedIsKnown`); a run has a handler of its own for each class it
  instantiated, and its input went to one that fits it, or to none because none does
  (`Dispatched`). `DiscoveryAssumption`: the files and the built-in modules are finite sets of numbers.
- `PagedTruly`: while no row has moved since the first page, what was shown is how the result
  begins, up to the offset (`ShownIsLead`). Rows that are added come at its end, so they only
  extend it (`PickedGrows`); a cursor whose filter has drifted is answered with nothing.
  `CatalogAssumption`: the listings are a finite set of numbers. Both rest on the lemmas on `Ranked` and `At` (`RankedSorts`,
  `AtPicks`, `RankedGrows`), which list a finite set of numbers in ascending order.
- `ShowsTruly`: the class itself stays as declared (`ClassStands`), so that every request finds
  every fetcher to ask (`AllAreAsked`), and a request shows what it was answered for the fields
  it is through with and what is declared for those it has not come to (`UpToDate`). A key is
  a fetcher at its place in the model, so fields share none (`SchemaAssumption`).

`SidesAreComponents` in `Services_proofs`, `Host_proofs` and `Tools_proofs` takes each of these
from the component's own specification (`PoolSpec`, `LifeSpec`, `LoadsSpec`, ...), which has
the whole next-state relation of the module, to the run that composes the sides
(`KeptForCallers`, `HistoriesOfRun`, `HostInOrder`, `ToolsInOrder`).

### What is only model-checked

- Liveness: the prover has neither `ENABLED` nor fairness.
- That members outlive a pause (`MembersContinue`) breaks the protocol is seen in a run of the
  model with that setting, not stated as a theorem.

What proving changed in the model: the outputs of a log and of a client are read off at their
places (`SeqsAt`) where they had been filtered by `SelectSeq`; discovery and the catalog
list their results by `Ranked` and `At` where they had sorted and filtered sequences; a
delegation leaves the list at its place (`Popped`) where it had been filtered out; the sets of
members and of external calls are finite by assumption; `CancelTaskHonest` and the exception of the local files
as above; `NoneLost` of the channel pool, which had been weaker than its comment;
`NoForeignWrite`; and `OneToolkitPerModule`, which had held only because the run was too
small, and now names its exception.

## 5. What a further step would be

- Composition: `ModuleLife` under `TaskManager` instead of beside it, `GuardedQuery` under
  `StorageRecords`.
- Models: the schema splitter and the conditional merge, as functions checked against a
  reference definition over bounded schemas.

## 6. Not modelled

Without state or decision of their own: interceptors, profiling, settings, one-read
services (user profile, secret, identity), the local stand-in of the communication
service, the JSON rewriting of schemas (splitter, conditional merge, content validator).
Not reached from `src/`: `RemoteTaskManager`, `RedisStateManager`, `Bulkhead`, the overflow
strategies of `add_to_queue` (runs of the gateway bring a callback of their own),
`check_limit`.

Left out of what is modelled: cancellation of a coroutine that is inside `cancel_task` or
`shutdown`; forwarding of follow-up messages a consumer sends on a dial-back; several
replicas and the claim's lifetime (taken as longer than the run); the LRU of breakers and
several targets; the cancellation of an agent's turn (the safety properties hold of every
prefix); swapping of the tools factory; the filters of the filesystem's queries. Wording,
logging, metrics, TLS and I/O are left out throughout. `components` in `PROJECT.json`
gives the reason part by part.
