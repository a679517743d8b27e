# Underwater Tracking: a verification project in TLA+

The program steers a carrier and its UUVs after a submarine. A physics loop
advances a simulation and delivers a *situation* at every observation boundary;
language-model "brains" plan on those situations in background threads; a set
of coordinators decides which plan the vehicles actually execute, and SQLite
tables keep what must survive. All paths below are under
`src/src/underwater_tracking/`.

The hard part of this code is not the geometry, it is the runtime: two to four
threads, four locks, several copies of one revision number, one database with
transactions that stay open across calls, and operations that release their
lock between their parts. That is what the modules here are about.

## 1. Inventory

### The components

| Component | Source | State | Operations | Model |
|---|---|---|---|---|
| Planning epoch coordinator | `runtime/planning_epoch.py`, `persistence/planning_epochs.py` | queue of triggers, retry rows, dead letters, reserved and running epoch; three tables | `observe`, `request`, `next_epoch`, `mark_running`, `finish`, `retry_event`, `force_retry_event`, constructor | `PlanningEpoch` |
| Epoch commit port, transition lock, prepared plan transaction | `runtime/mission_epoch_commit.py`, `runtime/scenario_transition.py`, `persistence/uuv_plan_commits.py` | transition kind, open write transaction, checkpoint of the controller | `commit`, `prepare` / `finish` / `rollback` | `ExecutionAuthority` |
| Execution coordinator | `runtime/execution_coordinator.py` | current snapshot, terminal status, execution revisions | `commit`, `commit_semantic_optimization`, `update_runtime_projection`, `preserve`, `mark_*` | `ExecutionAuthority` |
| Carrier cycle (agent loop) | `cli.py` `_AgentLoop` | latest situation, mailboxes, active cycle, local results, provider pause, `_closing` | `on_situation`, `apply_background_cycle`, `drain_background_cycle`, `abort`, thread bodies | `CarrierCycle` (threads and mailboxes), `ExecutionAuthority` (application and commits), `PlanningEpoch` (`_prepare_epoch`, `_finish_epoch`) |
| Run lifecycle | `runtime/run_controller.py`, `runtime/run_catalog.py`, `cli.py` `_serve`, the lifespan of `api/app.py` | phase, bundle, worker, abort flag, manifest, frame logs, one reentrant lock | `start_run`, `close`, `abort`, worker loop, `mutation_guard` | `RunLifecycle` |
| Hub and directive queue | `api/hub.py`, `api/live.py` | latest frame and subscribers; directive jobs, at most `max_jobs` | `submit`, `submit_assignment`, `apply`, `close`, the job threads, eviction; `publish` | `DirectiveQueue`; not the publishing of frames |
| Memory worker and store | `memory/worker.py`, `memory/service.py`, `persistence/memory.py` | work items with leases, source cursor, episodes, versions of memories | `poll_once`, `_read_sources`, `_process`, `_retry_or_degrade`, `mark_deleted`, `maintain_active` | `MemoryPipeline` |
| Mission controller | `runtime/mission_controller.py`, `runtime/task_group_instances.py` | mission, groups, modes | `apply_*`, `advance`, `observe`, `set_dedicated_*`, `checkpoint`, `restore`; it has no lock | as one record in `ExecutionAuthority` |
| HTTP API and frames | `api/app.py`, `api/frame_builder.py` ... | none beyond the hub's | guard, request parsing, projection | the guard, in `RunLifecycle` |
| Event monitor and policy | `agent/nodes/event_monitor.py`, `agent/event_policy.py` | episodes, cool-downs | `observe_*`, `emit_*`, `checkpoint`, `restore` | not modelled (section 6) |
| Active verification | `agent/nodes/active_verification.py` | a protocol state per contact | `_on_ping`, `_on_classified`, `_close_gate` | not modelled (section 6) |
| Group consensus | `groups/` | one filter state per target | linear graph of numeric nodes | not modelled (section 6) |
| Observation boundary | `runtime/observation_boundary.py` | — | — | not on the path of the UUV-only loop |
| Agent graphs, prompts, LLM client | `agent/` | none shared | model calls | their outcomes are choices |
| Physics, tracking, planning algorithms | `simulation/`, `tracking/`, `planning/` | continuous state | numeric functions | not modelled (section 6) |
| World model, verification harnesses, configuration | `world_model/`, `verification/`, `config/` | none concurrent | rule tables, loading | not modelled |

### How they interact

* The **physics thread** (the run controller's worker) calls
  `apply_background_cycle` at the top of each step, then `engine.step`, which
  moves the mission controller, calls `on_situation` at an observation boundary
  and publishes the execution projection. At the end of a run it calls
  `drain_background_cycle`.
* A **planner thread** runs one cycle: it queues local-brain work, runs the
  central graph, and ends in the commit port. Its result is *applied* by the
  physics thread later.
* **Local-brain threads** run beside both and start their own successors.
* The **main thread** builds and closes the run and is the server's event loop:
  it answers requests, accepts directives and runs the signal handler. A
  mutating request holds its guard on a **pool thread**; directives are
  previewed and applied by the **queue's executor**, whose result reaches the
  next planning cycle as an event.
* The **memory worker** polls the database beside all of them.
* Shared state: the loop's cycle lock guards mailboxes and the active cycle;
  the epoch coordinator has a lock of its own; the transition lock serializes
  plan commits with observation transitions; the execution coordinator's lock
  serializes execution revisions; SQLite's write lock is held by the port from
  `prepare` to `finish`.

### What is hard, and what would make each component correct

* Epoch coordinator: `finish` is a series of transactions, the commit port may
  persist the result first, an operator may release an event in flight, the
  loop itself releases the events of the epochs that its provider has failed, the
  process may stop anywhere. Correct: an event is in one batch at a time,
  settled once, retried within the ceiling unless it is released, never lost
  from the dead letter.
* Execution authority: the port writes the audit table under one lock, the
  coordinator the execution table under another; both copy and restore a
  controller that has no lock, attribute by attribute. Correct: one ledger of
  revisions, no rollback across somebody else's commit, no deadlock.
* Carrier cycle: three ways to start a cycle, each a sequence of critical
  sections; a pause that refuses cycles; threads registered before they run.
  Correct: nothing offered is lost, cycles go forward, an epoch never outlives
  its cycle, the drain ends.
* Run lifecycle: `close` waits for a worker whose last step needs the lock that
  `close` holds, an abort may come between any two steps, three writers take
  turns at the status, a join that times out leaves a worker running. Correct:
  the manifest claims nothing that did not happen, clients and repositories are
  not closed under the worker (its frame logs are, after such a join), the
  process ends.
* Directive queue: finished jobs make room for new ones while tasks work, and
  requests of one text share a row. Correct: no task loses its job, a
  confirmation applies once, every job settles.
* Memory pipeline: a lease may run out under its holder, a second worker may
  read the same batch and the same episode, the user may delete a family that is
  being extended. Correct: versions form a chain, the cursor passes nothing,
  every event settles.

`PROJECT.json` lists each hazard at its line with the properties that cover
it, and a note where none does yet.

## 2. The modules

| Module | What it is |
|---|---|
| `TriggerLedger` | What the epoch coordinator promises about a trigger, with no queue and no database |
| `PlanningEpoch` | The coordinator, its repository and its two callers |
| `PlanningEpochProofs` | Theorems about `PlanningEpoch` |
| `PlanningEpochLedger` | That it implements `TriggerLedger`, and how often an event is planned |
| `RevisionLedger` | What the execution authority promises: one append-only ledger, a planning cycle extends it only from the revision it started at |
| `ExecutionAuthority` | Port, transition lock, execution coordinator, controller and engine copies, two threads, three tables |
| `ExecutionAuthorityProofs` | Theorems about `ExecutionAuthority`, and that it implements `RevisionLedger` |
| `CarrierCycle` | Mailboxes, cycles, local threads, provider pause, drain and abort |
| `CarrierCycleProofs` | Theorems about `CarrierCycle` |
| `RunLifecycle` | The serving process from the construction of a run to its last close |
| `RunLifecycleProofs` | Theorems about `RunLifecycle` |
| `DirectiveQueue` | The operator's directives: jobs, tasks, threads, ledger rows |
| `DirectiveQueueProofs` | Theorems about `DirectiveQueue` |
| `MemoryPipeline` | From a runtime event to a version of a memory |
| `MCMemoryPipeline` | The kinds of events, for TLC |
| `MemoryPipelineProofs` | Theorems about `MemoryPipeline` |
| `MemoryLedger` | What the memory promises of events and versions, with no cursor, lease or worker |
| `MemoryPipelineLedger` | That `MemoryPipeline` implements it, and that no tracking transition is left behind |

An operator whose name begins with `Bug` is the definition after it with a
plausible mistake. No action uses one; each property is known to be violated
when one of them takes the place of the definition it stands before.

### PlanningEpoch

State: the memory of the process (`mode`, `latest`, `queue`, `retries`,
`deadLetter`, `reserved`, `running`, and of the loop `seen`, `toRetry`,
`toRelease`) and the database
(`epochs`, `results`, `dbRetries`) apart, so that `Stop` can lose the first and
`Start` rebuild it from the second.

| Action | Code |
|---|---|
| `Observe`, `Request` | `observe`, `request`, and the loop's test of events seen |
| `RetryEvent`, `ForceRetryEvent` | the operator's retry of a dead letter; the retry of an uncommitted bootstrap epoch, which an operator asks for |
| `AfterCycle`, `ReleaseEvent`, `ReleaseRefused` | `_mark_llm_failure`, `mark_llm_recovered` and `_release_llm_retry_events`: the loop's own `force_retry_event` of the triggers of failed epochs, before each cycle it starts |
| `NextEpoch` | `next_epoch`: batch of all due events, id, row `queued`; an id that is taken raises |
| `MarkRunning` | `mark_running` |
| `PortPersists` | the commit port's own terminal result |
| `FinishPersists`, `Consume`, `Reschedule`, `DeadLetterEvent`, `FinishReturns` | `finish`, one action per database transaction |
| `BackoffElapses` | the wall clock |
| `Stop`, `Start` | a crash anywhere, a close between calls; the constructor |

`Reconnects` chooses the configuration in which the loop survives its provider's
failures and releases triggers by itself. The triggers to release are noted in
the same step as the epoch's result, after which the loop calls nothing else
before it notes them; they are released before the next epoch is made.

A trigger is its event id. Backoff deadlines are a flag that time raises. A
database error inside `finish` is not modelled (it is a listed hazard).

### ExecutionAuthority

State: the revision number in its four places (`controller`, `missionPlan`,
`current`, `audit` / `activeAudit`), the execution table `durable`, the stored
situation `stored`, the transition and write locks, and a program counter per
thread with what each has read and not yet used (`cycle`, `report`,
`checkpoint` / `staged`, `saved`).

The planning thread: `Ingest`, `Revalidate` (before the lock),
`EnterTransition` (compares again), `Admit` / `NotAdmitted` (needs the
coordinator's lock), `Checkpoint` / `CheckpointRest`, `CompareActive`,
`InsertDraft` (takes the write lock), `CommitEpoch`, and the error paths
`CheckpointRaises`, `PortFault`, `AbandonCommit` / `AbandonRest`,
`RefuseAdvanced`, `FinishInvalid`, `BrainsFail`.

The physics thread: applying a cycle (`CycleDropped`, `SemanticProposed`, ...),
`DeploymentChanges` / `SynchronizeLifecycle`, `ObservationCycle`, the refresh,
the publication with its geometry handoff, and for every commit of the
coordinator `Propose` / `CopyController` (the rollback's copy), `Install` /
`InstallRest` (the apply; the engine's plan follows it in `Project`), `Project` /
`ProjectRest` (the projection onto the candidate), `Persist`, and the failures
`ApplyFails`, `ProjectionFails`, `PersistStale`, `PersistFault`, each of which
restores the controller (`Undo`, then `Preserve`).

`MissionController` has no lock. The port copies and restores it under the
transition, the coordinator copies, changes and restores it under its own lock,
and each does so attribute by attribute (`mission_controller.py:782-826`,
`1415-1441`). So every copy, install, restore and projection is two steps here,
the plan revision and the rest (`WithRest`: progress and geometry), and the steps
of the two threads interleave: the port may copy or restore half of a plan that
is being installed, a copy that meets a dictionary being changed raises
(`CheckpointRaises`), and an apply keeps the geometry of a region or replaces it
by the candidate's. What does exclude the port is the transition, and it excludes
the physical transitions (`AdvanceController`) alone.

Abstractions: the attributes other than the plan revision are one step, so two
plans may be mixed in one place only; the copy the engine takes for itself in an
apply is not kept apart from the coordinator's; a database error may occur
`MaxFaults` times; rejection rows
are left out; cycles without an epoch write nothing and are left out; the
controlled rebase, the rolling checks and the optimizer thread, which the loop
does not use, are left out. Scenarios start after the deterministic baseline.

### CarrierCycle

State: where the physics thread is inside `apply_background_cycle`, a step or
the drain; the latest `situation` and the one-place `mailbox`; the active
`cycle` with its result; the coordinator's `openEpoch`; registration, mailbox,
results and thread states of the local brains; the provider pause; `closing`.

| Action | Code |
|---|---|
| `ApplyLocals`, `NothingToApply` / `ApplyCycle`, `ScheduleLatest` | the critical sections of `apply_background_cycle` |
| `ObserveAndReturn`, `ObserveAndStart` | `on_situation`, with and without an early return |
| `Start` (`StartRefused`, `StartBehindCycle`, `StartPostponed`, `CycleStarts`) | `_start_background_cycle` |
| `DrainBegins`, `DrainStarts`, `DrainLooks`, `DrainCompletes`, `DrainTimesOut`, `DrainWaits`, `DeadlinePasses` | `drain_background_cycle` |
| `PlannerQueuesLocal` ... `PlannerGivesUp` | `_run_background_cycle`: the provider failure is marked before the result is left |
| `LocalFinishes`, `LocalHandsOff`, `HandoffStartsLocal` | `_run_local_brain_cycle` and the successor it registers, unlocks and starts |
| `Abort` | `abort`, and the first step of `close` |

The mode modelled is the UUV-only one that may reconnect to its provider.
Bootstrap planning, the synchronous mode and the resources that `close` frees
are not modelled; `close` appears as its first step, which is `abort`'s.

### RunLifecycle

State: a program counter of the main thread (`main`) with the close it is in
and what that close has read, the worker's (`worker`), the controller's `lock`,
who refers to the run (`bundle`), `aborted`, the bundle's `phase`, `stop`,
`errors` and `manifestStatus`, the file (`manifest`), the loop's `resources`
(clients and repositories), the `frameLogs` of its publisher and of the engine,
and one guarded `request`.

| Action | Code |
|---|---|
| `BuildFails`, `WorkerStarts`, `NoteWorker`, `Install`, `InterruptStart` | `start_run` and `_build_bundle`; the worker runs before it is noted in the bundle |
| `ReadRequest`, `MutatingRequest`, `Handle`, `Answer`, `RejectBody`, `Signal`, `ServerStops` | the event loop; the handler of a guarded request reads the run first |
| `EnterGuard`, `LeaveGuard` | `mutation_guard`, on threads of the pool |
| `EndLifespan`, `Unwind` | the end of the server's lifespan, the end of `_serve` |
| `AcquireForClose` ... `CloseComplete` | `close` and `_close_bundle`: read the phase, mark it, join, drain, write the manifest, release; a join that times out shuts the supervisor down, which closes the frame logs (`SupervisorShutdown`) |
| `PlanArrives` ... `RecordError` | the worker; it takes the lock to set a phase |

`close` comes three times: in the lifespan, at the end of `_serve`, and without
the lock for a start that was interrupted. Building is one step; the acceptance
fixture, the bootstrap retry and a second interrupt in the last close are left
out.

### DirectiveQueue

State: the queue's `jobs`, the executor's `tasks` and `running` threads,
`closed`, the `ledger`'s row of each text, the `pending` announcements and what
a cycle found of them (`missing`), the plan `version`, and a history of how
often a request was applied (`effects`).

| Action | Code |
|---|---|
| `Submit`, `SubmitAndEvict` | `submit`, `submit_assignment`, `_reserve_job_locked` |
| `Apply`, `Close` | `apply` (status and plan version are checked here), `close` / `abort` |
| `Begin`, `Finish` | the parts of `_run_preview` and `_run_apply` before and after the runtime call |
| `PreviewSaved`, `PreviewFails` | `preview_directive`, `preview_assignment` |
| `Applies`, `Rejects` | `apply_directive` with `_rejection_reason` |
| `CarrierCycle` | the directive node of the next cycle |
| `NewPlan` | a new plan version |

A directive is its text, because its id is a digest of it; whether a parse is
applicable is a choice, made again when it is applied.

### MemoryPipeline

State: the events (`log`) and the source `cursor`, the `work` item of each event
with status, attempts, holder, lease and backoff, the versions of `memories`,
the events that an episode holds (`told`), how many it may hold (`room`), whether
two workers were merging into it at once (`overlapped`), and what each `worker`
is doing.

| Action | Code |
|---|---|
| `PollSources`, `Enqueue`, `AdvanceCursor` | `_read_sources`, one action per transaction |
| `ReadEpisode`, `WriteEpisode` | the merge of one transition: the episode is read, then overwritten by what was read with the id added, cut at its limit (`MergeIds`); nothing holds the two together |
| `PollNothing`, `Claim` | `poll_once` and `claim_work`, which first degrades what has spent its attempts |
| `Decline`, `Decide`, `ProviderFails` | `_process`: the provider's answers |
| `CreateVersion`, `FindVersion`, `Conflict` | `create_memory_version` |
| `Complete`, `FailWork` | `complete_work`, `fail_work`: nothing happens for a worker that has lost its lease |
| `LeaseExpires`, `BackoffElapses` | the clock |
| `DeleteFamily`, `Archive` | the user's deletion, maintenance |
| `Interrupt` | a database error out of a poll, or a stop and a new start |

One user, one scenario, runtime events alone; conversations, embeddings, texts
and notifications are left out. The transitions are those of one episode, and
their simulation times are in the order of the log. A provider names the family
of the event, one that exists, or one of `Named`, which may be new to two
workers at once. The process starts one worker; the lease protocol is written for
several, so the model has a set of them.

## 3. The runs

Each configuration is small enough to be explored completely.

| Run | Bounds | Shows |
|---|---|---|
| `epoch_live` | 2 events, ceiling 2, 1 revision, 1 stop, forced retry or round of releases, fairness | a stop between any two transactions of a two-event `finish`, a release around any of its cycles: the active epoch keeps its triggers, results are final, every queued trigger is settled while there are ids for its epochs |
| `epoch_lives` | 1 event, ceiling 2, 2 revisions, 3 stops, forced retries or rounds of releases | `TriggerLedger` is implemented; memory and database agree; a dead letter survives a restart, can be retried and is left by a retry or a release alone; one commit per life |
| `authority` | revision, situation ≤ 3, progress ≤ 2, 2 cycles, 1 fault, fairness | tables and memory within one revision of each other, no rollback of a physical transition over copies that interleave, the revision ledger is implemented; every cycle ends and is applied, the physics thread always comes around |
| `carrier_cycles` | 3 observations, retry gap 2, fairness | no epoch, local work or offered event is left behind, cycles go forward and are applied, the drain ends unless it is refused |
| `lifecycle_close` | 2 pool threads, 2 requests, fairness | the manifest never overstates, nothing but the frame logs is closed under the worker and these only after a join in vain, a run does not complete under an admitted request, a run is forgotten only when released, the shutdown ends |
| `directive_jobs` | 2 texts, 3 requests, queue of 2, 2 threads, 2 versions, fairness | no task loses its job to eviction, a confirmation applies once, every job settles |
| `memory_work` | 2 workers, 2 events, batch 2, 2 attempts, room for 1 or 2 ids, 1 interruption, deletion or archiving, fairness | families are chains and one item makes one memory, the cursor skips nothing, every event settles, up to the three ways in which an episode loses a transition |

The remaining runs check one sentence of the repository's documents each, and
find it violated:

| Run | Sentence | What the code does |
|---|---|---|
| `authority_undone` | "rollback never restores across a committed transition" | the port restores a controller checkpoint taken before a coordinator commit of the other thread |
| `carrier_events` | no situation's pending events are dropped silently | `on_situation` has returns before the merge; the next situation replaces the events |
| `carrier_drain` | "a bounded timeout ... tail" | the drain restarts a refused mailbox without looking at its deadline |
| `lifecycle_guard` | "keeps request handling non-blocking" | the guard holds the controller's lock on a pool thread while the handler, on the event loop, waits for it |
| `directive_event` | the next cycle "re-plans with the directive" | a second preview of the same text takes the row of an applied directive back to `preview` before the cycle |

### Why the bounds are enough

* `PlanningEpoch`: `finish` treats its events one by one and independently, so
  two events show every partial order of settled and unsettled; a third only
  repeats one of them. A ceiling of two is the smallest with both a retry and
  an exhaustion. What gives a trigger a new life, a stop, a forced retry or a
  round of the loop's releases, has the one bound `MaxLives`: one of any of them
  beside two events, three of them in any order in `epoch_lives`, which trades the
  second event for them and for a second revision, on which the id of an epoch
  depends. Both runs have `Reconnects`, which takes no behaviour away.
  `TriggersSettle` is judged up to `IdsUsedUp`: the id that the next epoch would
  take is taken and the bound leaves no fresh revision for another.
* `ExecutionAuthority`: three revisions are a baseline, one that replaces it
  and one more, enough for a base that is stale when used; two situations can
  overtake each other and the third makes a refresh after that; two cycles let
  a second one start on what the first left. One fault at every place where
  one can occur.
* `CarrierCycle`: the first situation starts a cycle, the second waits in the
  mailbox, the third is merged into it or follows it. Two local threads run at
  once. A local mailbox filled behind two running threads needs a fourth
  situation, and is covered by the proof only. A retry gap of two is a retry
  interval above the observation interval, which the configuration admits; with
  the defaults, both 30 s, the gap is one, at which `carrier_events` is already
  violated; `carrier_drain` needs two.
* `RunLifecycle`: two pool threads so that a guard can be left by another thread
  than the one that entered it; two requests so that a read meets a guard. Start,
  closes and worker have no bound.
* `DirectiveQueue`: a queue of two with a third request is full, evicts and
  refuses; of three requests two share a text; two threads can hold a preview
  and an apply at once, also of one text; a second version makes a preview stale.
* `MemoryPipeline`: two workers read overlapping batches and take over each
  other's leases; a batch of two is read whole, or in part when it grows between
  the two reads; two items can compete for one family, one update each; two
  attempts are a retry and an exhaustion. Two transitions are enough for one merge
  to overwrite another; a room of one is the episode at its limit, of two one that
  holds both. An interruption, a deletion and an archiving share the bound
  `MaxDisturbances`: two of them at once are covered by the proofs only.

The constants whose name begins with `Max`, except `MaxAttempts` and `MaxJobs`,
are bounds: guards of the actions that count. No theorem depends on their values.

### Deadlock

The two runs over `PlanningEpoch` check it, for that module always has a step.
The others set `CHECK_DEADLOCK FALSE`: a run of the program really ends
(`physics = "ended"`, or `main = "done"`, with its threads finished), is ended by
an exception (`physics = "failed"`), is closed with nothing left to do (the
queue), and the bounds end the rest. That no thread waits for ever is stated as
liveness instead (`CycleEnds`, `StepsEnd`, `CyclesEnd`, `ShutdownEnds`,
`JobsSettle`, `EventsSettle`).

### Fairness

* `PlanningEpoch`: weak fairness of the calls that the carrier worker makes in
  every step (the loop's release, prepare, mark running, finish), of the
  transactions inside `finish`, of the clock and of a new frame. Not of requests,
  operator retries, the commit port or stops; nor of the provider's failures,
  which the rounds of releases follow.
* `ExecutionAuthority`: weak fairness of both threads, which the operating
  system schedules, and strong fairness of the port's acquisition of the
  coordinator's lock: the physics thread holds it for a part of a step only,
  and the port's thread is blocked on it, not polling.
* `CarrierCycle`: weak fairness per thread; a provider call ends by the
  client's timeout; the drain's deadline passes. Nobody is obliged to abort,
  which is why `DrainReturns` fails.
* `RunLifecycle`: weak fairness of the start, the loop's handlers, the guards,
  `close` and the worker; the join, the drain and an awaited plan end by their
  timeouts; an interrupted server leaves its loop. Nobody is obliged to send a
  request or a signal. A guard that is left on another thread than it was
  entered on keeps the lock for ever, so `ShutdownEnds` is stated up to that.
* `DirectiveQueue`: weak fairness of the executor's threads; a runtime call ends
  by the provider's timeout. Nobody has to confirm, close or plan.
* `MemoryPipeline`: weak fairness of each worker, which polls for ever, and of
  time. Nobody has to delete, and interruptions are bounded. `EventsSettle` says
  that the workers catch up with the log again and again; the log ends by its
  bound.

## 4. What is proved

Eight modules hold proofs, which TLAPS checks for every value of the constants:
the six whose name ends in `Proofs`, and `PlanningEpochLedger` and
`MemoryPipelineLedger`. The proofs use only the assumptions that the modules name:
`PlanningEpochAssumption` (finitely many events, a positive ceiling, natural
bounds), `ExecutionAuthorityAssumption` (natural bounds, the first three
positive), `CarrierCycleAssumption` (at least one observation, a positive gap),
`RunLifecycleAssumption` (a natural bound, a pool without the main thread),
`DirectiveQueueAssumption` (a positive limit, at least one thread and one text),
`MemoryPipelineAssumption` (positive limits, natural bounds and rooms, named
families among those of the events, kinds that are records of two flags). All proofs about a module share one inductive invariant,
`IInv`, from which its `TypeOK` follows (`TypeCorrect`); what needs more adds
conjuncts of its own to it. With that, every invariant and every action property
that a passing run checks is a theorem, and so are both refinements.

Some theorems state properties that no run lists, because they say why a
liveness property holds, or describe states that only larger constants reach.
They are defined in the proof modules, where they can be checked by TLC like
any other: they were, on the constants of section 3, before they were proved.

**PlanningEpoch.** Proved: `InFlightStaysQueued`, `RetryStateDurable`,
`DeadLetterRetryable`, `ResultsAreFinal`, `DeadLetterIsSticky`. They need each
other: that a settled event is not dead-lettered, and that its payload holds
its trigger, follow from `InFlightStaysQueued`; and that follows from the shape
of the active epoch (`ActiveWellFormed`: the running epoch is the reserved one,
its row exists, `finish` settles only after its result is persisted).

`CommittedOnce` counts rows that several processes leave in one table, and is
not inductive: it says nothing of what may still come. `BudgetInv` does. An event
has at most one commit ahead of it while it waits (queued or dead-lettered, and
not in an epoch that is committed already), one while the loop has not seen
it, and one while the loop has still to release it (`Coming`); these and the
commits it had make at most `Lives + 1` (`LifeBudget`), where `Lives` counts
stops, forced retries and rounds of the loop's releases. A commit uses up the
waiting, a request turns unseen into waiting, a release turns what is coming into
waiting or unseen, one of them at most, and only a stop, a forced retry and a new
round give a chance back, each of which raises the bound. The ordinary retry
of an operator gives none, because of `RowIsLive`: a row that can rebuild a
trigger belongs to an event that waits, is dead-lettered or is unseen.

`DeadLetterIsSticky` says who takes an event out of the dead letter: a
retry that an operator asks for or, where the loop survives its provider's
failures, the loop, of an event whose epoch has failed so. Restarts, requests,
finishes and the loop in the other configuration do not. That the loop releases
nothing else is the invariant `ReleasesFailed`.

`ImplementsTriggerLedger`: with `phase` and `tries` read off queue, active
epoch and retry rows, a request, an operator's retry or the loop's release is an
`Arrive`,
`NextEpoch` a `Claim`, each transaction of `finish` that takes an event out of
the batch a `Settle`, a stop a `Forget`, and the rest stutter. The subtle step
is the stop in the middle of a `finish`: what is claimed and not yet settled is
forgotten, what is settled stays so.

**ExecutionAuthority.** Proved: the five state invariants, `ProgressIsKept`,
`SemanticNeverRecovers`, and `ImplementsLedger`: every step of the two threads
is a step of `RevisionLedger` or a stutter. The invariant says what each
program counter knows while the other thread moves. `Admission`: from the
port's admission to the end of its transaction the active plan is the
coordinator's revision, *whoever has persisted meanwhile*, because the
coordinator persists both rows at once. `CommitInProgress` and `PhysicalState`:
what either rollback would restore has the progress of the controller, from the
second half of its copy on. `CycleBase`: while a committed cycle's base is still the newest
revision, the audit row above it is the epoch's. `CommittedIsSettled`: a
committed cycle leaves the controller on the coordinator's revision.

`ProgressKept` does not rest on a lock of the controller, which has none. The port
takes both halves of its copy and puts both back inside its transition, and the
transition keeps the physical transitions out; the coordinator's copy is taken
and put back within one commit, on the very thread that makes the physical
transitions. So whatever the halves interleave with, an apply, another rollback,
an install, none of those moves the progress, and each copy has the progress of
now (`AbandonKeeps`, `PreserveKeeps`, `CheckpointKeeps`). The plan revision and the
geometry are not kept so: that is what `authority_undone` and section 5 are about.

Three more concern what a failure leaves behind. `CopiesStayClose`: the engine's
plan, which no rollback restores, is at the coordinator's revision or one past
it, the controller's at most one past it; inductive with `RestoreWithinBounds`,
the same bounds for everything a rollback would write. `TransitionGivenBack`: the plan transition is
in progress exactly while the port has not answered, by whichever exit.
`NeverCircular`: the planning thread waits for the transition, then the
coordinator's lock, holding the transition; the physics thread waits for the
transition holding nothing, and for the write lock holding the coordinator's
lock. That the two never wait for each other follows because the port admits
before it prepares.

**CarrierCycle.** Proved: `EpochHasCycle`, `LocalMailboxIsWatched`,
`EventsKeptWhenOffered`, `CyclesMoveForward`. `Order` puts every revision the
loop holds in order: what was started is behind the mailbox, the mailbox not
past the latest situation, and a finished cycle not behind any before it. With
it the three callers of `_start_background_cycle` meet one contract (`Called`),
and one lemma (`StartFacts`) covers its four outcomes. `Offered` says a filled
mailbox holds the latest situation itself: the reason why nothing is lost, and
exactly what one early return breaks.

A second invariant, `KInv`, follows the threads. `CycleHasItsThread`: a cycle
without a result has its planner thread. `DrainLeavesNothing`: a drain that
reports completion leaves no cycle, mailbox, open epoch or planner thread;
it decides on a view that it took under the lock and released, and `SeenIsTrue`
says why the view still holds (the physics thread itself is the only one that
could start something). `LocalWorkWaitsOnce` and `LocalBrainsRunOnce`: though
two local threads can run at once (section 5), the work of one cycle waits in
one place and is run once at most; what is not serialized is the order of two cycles.

**RunLifecycle.** Proved: `ManifestNeverOverstates`, `ClosedAfterWorker`,
`GuardedRunIsOpen`, `ForgottenWhenReleased`. `ClosedAfterWorker` says what a
worker that outlives its join can still use: while it runs, the clients and
repositories are open, and its frame logs are closed only after it was told to
stop, once a close has begun and the server serves no more: in the code, when the
join has waited for it in vain. The invariant needs two things the
properties do not say. `LockOfClose`: the main thread holds the lock exactly
within a close, except the close of an interrupted start. `Outcome`: each of
the three copies of the outcome (the phase, what close has read of it, the
manifest status) says "completed" only of a worker that has done all its steps,
and "failed" only when there is an error; the manifest inherits it from
whichever copy was written last. `ReleasedForGood`: nothing that comes after a
complete close changes the run, its status or its manifest. `NoWorkerForgotten`:
the process is not done before it has told the noted worker to stop, also when
the join timed out and the last close finds no run any more.

**DirectiveQueue.** Proved: `TasksHaveJobs`, `AppliedAtMostOnce`. The first is
inductive with the types: a waiting or running task has a job whose status is
not terminal, so eviction cannot choose it. For the second, `AppliedIsSpent`: a
request that has applied its directive has a job that says so, or none, or a
thread about to record it; none of these can be applied again, though the row it
shares with other requests may be a preview again. `QueueBounded`: kept jobs and
running threads stay within their limits, which counts over an eviction and an
insertion in one call. `NothingStranded` is the converse of `TasksKept`: a job
that is not settled has a task or a thread to move it, and only closing the
queue takes a task away. `AppliedIsSaid`: a job says "applied" exactly when its
directive has taken effect and no thread is left to say otherwise.

**MemoryPipeline.** Proved: `FamiliesAreChains`, `NothingSkipped`. The cursor may
be moved by a worker that did not queue what lies behind it; what makes
`NothingSkipped` inductive is `ReadersHaveQueued`: a worker that reads finds
every eligible event up to its place queued, by itself or by another.
`FamiliesAreChains` is inductive with the types: the new version follows the
last one, which is still active in the same transaction.

`ImplementsMemoryLedger`: with the fate of an item (pending and processing are
both "open"), the history of versions and the families in use and erased read off
the tables, every step is a step of `MemoryLedger` or a stutter. The ledger has
no leases: that a worker which lost its lease may still write its version, and
that this is the item's only one, is what it says about them. Two invariants
carry it: an item that is handled has been queued, and the versions of a family
are deleted together.

`TransitionsReachEpisodes`: a tracking transition behind the cursor is in its
episode, or in a round that will still merge it, unless one of three things has
happened (`MayLose`): a round was interrupted, two workers were merging into the
episode at once, or the episode is at its limit of ids. Each of the three does
lose a transition, so none can be left out. Several workers may read one batch,
and the cursor is moved by the fastest; `RoundsTell` says the same of what lies
behind the place a reading worker will move it to, and `MergesAlone` that a merge
which nothing overlaps overwrites the episode with what is still in it.

**Only model-checked.** Liveness under fairness is out of this prover's reach, and
so is `ENABLED`: `TriggersSettle`, `CycleEnds`, `StepsEnd`, `CyclesEnd`,
`DrainReturnsOrIsRefused`, `ShutdownEnds`, `JobsSettle`, `EventsSettle` stay with
TLC. The safety part that each of them rests on is proved where it has one: that
nobody waits in a circle and no transition is kept (`NeverCircular`,
`TransitionGivenBack`, for `CycleEnds` and `StepsEnd`), that a cycle has its
thread (`CycleHasItsThread`, for `CyclesEnd`), that a job has its task
(`NothingStranded`, for `JobsSettle`), that an event has its item and a
transition its episode (`NothingSkipped`, `TransitionsReachEpisodes`, for
`EventsSettle`), that the worker has been told to stop (`NoWorkerForgotten`, for
`ShutdownEnds`), and that a trigger in flight stays queued
(`InFlightStaysQueued`, for `TriggersSettle`).

## 5. Deviations that no property judges

The models reach these, or were built to; no run is spent on them, because the
documents are silent, or because another property bounds their consequences.

Planning and execution:

* The third retry delay of 45 s is never used: a trigger is dead-lettered at
  its third failure (`planning_epoch.py:480`).
* The result of a failed epoch and the retry count of its triggers are separate
  transactions (`planning_epoch.py:319`): a stop between the two forgets a
  failure, where
  `docs/superpowers/plans/2026-08-22-planning-epoch-runtime-liveness-plan.md:269`
  says that a restart cannot reset the ceiling.
* Where the loop survives its provider's failures, it releases the triggers of a
  failed epoch itself before the next cycle, with `force_retry_event`
  (`cli.py:3009-3025`, `3445-3446`). That skips their backoff, takes them out of
  the dead letter again, and lets their attempts grow past the ceiling; the
  triggers stay noted until a result is applied, so that an epoch that fails
  permanently later is released as well. The docstring of `force_retry_event`
  (`planning_epoch.py:176-181`) calls it an explicit operator retry and says that
  "automatic retry backoff remains authoritative for transport failures".
  `DeadLetterIsSticky` and `CommittedOnce` are stated with the loop's releases.
* A plan version that advances between revalidation and commit is an internal
  failure, hence permanent, though it is a mere race
  (`mission_epoch_commit.py:122`).
* `MissionController` has no lock. The port's copy or restore may meet an apply of
  the physics thread half-way (`mission_epoch_commit.py:147`, `178`,
  `mission_controller.py:1415-1441`): the controller can be left with the plan
  revision of one plan and the regions of another, a dictionary that changes while
  it is copied fails the epoch, and a projection that meets a restored revision
  raises into `publish_latest`, which records the error (`cli.py:2959-2973`).
  `authority_undone` shows the least of it, a committed revision that is gone.
* A coordinator commit that fails after its apply leaves the engine's plan at
  the failed revision until the next commit (`execution_coordinator.py:411`),
  and the handler of a failed persist writes through the same database
  (`execution_coordinator.py:412`).
* A geometry handoff is refused as stale once a planning cycle has ingested a
  newer situation (`cli.py:2836`, `2895`, `plans.py:311`), and one that is
  accepted lifts a terminal status (`cli.py:2895`).
* A deployment change during a plan transition raises out of the physical step
  (`engine.py:3106`), where `scenario_transition.py:14-18` says that the lock
  cannot block physics.
* Two local-brain threads can run at once though a docstring says local work is
  serialized (`cli.py:3527`, `3550`).
* The entry points create a fresh run directory, so a restart over an old
  database, which `PlanningEpoch` explores because the coordinator is written
  for it, takes a caller that keeps the directory.

Run lifecycle:

* A second close after a join that timed out reads the phase `STOPPING` and
  records "stopped", also of a run that has completed or failed meanwhile
  (`run_controller.py:1106`). `ManifestNeverOverstates` forbids the other
  direction only.
* An interrupt between the start of the worker and its entry in the bundle closes
  the loop without a join (`run_controller.py:279`); `ClosedAfterWorker` names
  this exception.
* A join that times out shuts the supervisor down, which closes the frame logs of
  the publisher and of the engine while the worker still writes to them
  (`run_controller.py:1122-1128`, `1077-1084`, `process_supervisor.py:184-192`).
  A step that writes then raises, and a run that was only slow to stop ends as
  "failed"; a publication after the last step is only recorded, and the last frame
  is missing. The order in
  `docs/superpowers/specs/2026-08-22-live-demo-correctness-adversarial-closure-design.md:291-301`
  is to stop the physics worker before the frame loggers are closed.
  `ClosedAfterWorker` names this exception.
* A guard that is left on another pool thread than it was entered on raises
  instead of releasing the lock, which is then never free again; `ShutdownEnds`
  names this exception.

Directives and memory:

* A job that needs clarification is never evicted (`hub.py:165`): enough of them
  fill the queue until the process restarts.
* The plan version is checked when an apply is accepted, not when its task runs
  (`hub.py:327`): a plan that arrives while the task waits is not noticed.
* A tracking transition can be missing from its episode for ever, in three ways.
  A source round that is interrupted after its items are queued: queueing them has
  moved the cursor (`worker.py:685`). Two workers that merge into
  one episode: each reads it and overwrites it with what it read, so the later one
  erases the id of the earlier (`service.py:563-646`,
  `persistence/memory.py:800-855`). An episode with 128 ids: later ones are cut off
  (`service.py:1178-1179`). `EventsSettle` and `TransitionsReachEpisodes` name
  these exceptions (`MayLose`); the second needs two workers, where the process
  starts one.

## 6. Not modelled

* **Mission controller and group instances.** What other components see of them,
  one record with a revision, progress, a checkpoint and a restore, is in
  `ExecutionAuthority`. Inside, transitions of groups and vehicles are decided by
  distances, energy and coverage; a model that chose them freely would admit
  states the program has not.
* **Event monitor, active verification, group consensus.** Each is called by one
  thread and keeps its state to itself: thresholds, hold times and cool-downs on
  floating-point estimates; a deterministic machine of three states per contact;
  a linear graph of filter steps. No order of steps is left open, so tests reach
  what a model checker would. What they emit is an input of `CarrierCycle`.
* **Publishing of frames and the HTTP projection.** A latest-value mailbox per
  subscriber, and functions of one snapshot.
* **Agent graphs, prompts, LLM client.** The order of nodes is fixed; a model's
  answer is a choice here already: an outcome of an epoch, of a preview, of a
  memory decision.
* **Physics, tracking, prediction, planning algorithms.** Continuous dynamics and
  numeric functions, out of TLC's reach. They are the larger part of the source,
  which is why the modules cover a small share of its lines.
* **World model, verification harnesses, tools, configuration.** Rule tables,
  loaders and scripts without concurrent state.
* Within the modelled components: bootstrap planning and the synchronous mode of
  the agent loop; controlled rebase, rolling checks and the optimizer thread of
  the execution coordinator, which the loop does not use; conversations and
  retrieval of the memory service; the acceptance fixture of the run controller.

What could be added next: database errors inside `finish`, and two in a row in
the coordinator; a composition of `CarrierCycle` and `PlanningEpoch` over the
open epoch, of which the former knows only the cycle it belongs to.
