# TLA+ specifications of go-orca

go-orca takes a request through a pipeline of "personas" (calls to language models
with a role: director, project manager, matriarch, architect, pod, QA, finalizer) and
keeps all that a workflow has produced in one row of a database. The modules here
describe the parts of it that decide *what happens next*: who runs a workflow, when,
how often, in which order its tasks are executed, what a failure, a retry, a
cancellation or a crash leaves behind; and the services a run leans on: its files, its
model calls, its workspace, its delivery, the event stream that shows it to a client.
What models answer, and what build commands find, is a free choice in the models: a
property holds whatever they answer.

Paths below are relative to the repository root.

## The system

| Component | State | Operations | Interacts with |
|---|---|---|---|
| Scheduler `internal/workflow/scheduler` | buffered channel of jobs, worker goroutines, retry goroutines, `done` channel, context | `Enqueue`, `worker`/`runJob`, retry timer, `Shutdown` | API handlers and recovery enqueue; workers call `Engine.Run` |
| Engine `internal/workflow/engine` | a private copy of the workflow row for the length of a run | `Run`, `runPhases`, `runPersona`, `transition`, `checkControlState` | loads the row once, then saves all of it; polls the stored status between phases |
| Validation, QA and remediation loops `implementation_phase.go`, `remediation_helpers.go` | blocking issues, implementation gate, last validation, cycle counters | `runImplementationValidationLoop`, `runRemediationPlanning`, `tryAutoModeIteration` | call the architect, the pod and the toolchain again |
| Pod phase `pod_phase.go`, `pod_manager.go` | task statuses, active task, the gate | `runPodPhase`, `runPodTaskBatch`, `executePodTask` | goroutines share the workflow state and one context |
| Task dependencies `internal/state/task_deps.go` | none | `ResolveAndSanitizeTaskDependencies` | called on the architect's answer and on the merged graph |
| Storage `internal/storage` | the rows | `SaveWorkflow` (whole row), `UpdateWorkflowStatus` (status only), `GetWorkflow` | everybody |
| HTTP API `internal/api` | none between requests | create, cancel, resume, edit planning; uploads; event stream | reads a row, decides, writes it, in separate store calls |
| Recovery `cmd/go-orca-api/recovery.go` | none | sweep over running rows at start-up | store, scheduler |
| Ingestion and uploads `engine/ingestion.go`, `upload_session.go` | upload session, attachment rows, chunks, files on disk | upload, submit (consume), abort; extract, chunk, summarise; `read_input_document` | API, engine at the start of a run, store |
| Event streaming `internal/streaming`, `stream_workflow.go` | journal, broker topic, subscribers with bounded buffers, time of the last event sent | append, mirror, fetch, publish, subscribe, poll | journal, API |
| Persona executor `internal/persona/base`, `internal/provider` | the conversation of one call | tool rounds, structured call, slim retry, JSON extraction and repair | providers, tool registry |
| Model routing `model_routing.go` | stored provider catalogs, persona models | discovery, the Director's choice, resolution for each call | providers, configuration |
| Workspace `engine.go`, `implementation_phase.go`, `cmd/mcp-git` | directory on a shared volume, git repository, recorded checkpoints, gate | bootstrap, write artifacts, preflight, build, commit, push | MCP servers |
| Finalizer actions `internal/finalizer/actions` | GitHub's branches, files, pull requests; the pushed artifacts of an attempt | nine delivery actions, retried with the run | GitHub, webhooks |
| MCP registry and sessions `internal/mcp/registry`, `internal/tools/mcp` | connection state of each server, process-wide tool registry, one shared session for each server | connect, probe, resolve; call and reconnect | MCP servers, runs |
| Improvements `internal/improvements` | staged, active and disabled files, manifest, child workflows | normalise, route, check, stage, promote, roll back, launch | engine, disk, scheduler |
| Rate limiters | token buckets | admit or turn away a request | API |
| Customization, scopes, single persona runs, API shell, configuration, UI | see *What is not modelled* | | |

What makes the system hard: the row is written whole by a run that read it once, by
handlers that read it before they write, and by goroutines of a batch that share the
struct; none of them locks. A run's position in the pipeline is not stored: a retry
infers it from what the row contains. The queue is only in memory. Outside the
process, requests fail after they were served, servers forget their sessions, and other
workflows write to the same branch, directory or tool registry.

## Modules

| Module | Models | With |
|---|---|---|
| `JobPool` | what the scheduler promises (abstract) | |
| `Scheduler` | channel, workers, retry goroutines, `Shutdown`, restart | `SchedulerProps` (properties, refinement mapping), `SchedulerProofs` |
| `Lifecycle` EXTENDS `Scheduler` | API handlers, `Engine.Run` seen from the store, shutdown, recovery sweep | `LifecycleProps`, `LifecycleProofs`, `MC_Lifecycle` (symmetry) |
| `PodPhase` | the pod phase with its goroutines, stale copies and failing stores | `PodPhaseProps`, `PodPhaseProofs` |
| `TaskDeps` | dependency resolution and cycle breaking; properties in the same module | `TaskDepsProofs`, `MC_TaskDeps` (titles) |
| `Pipeline` | phases, validation loop, QA loop, auto mode, gates, delivery, retries | `PipelineProps`, `PipelineProofs`, `MC_Pipeline` (option sets) |
| `Attachments` | upload session, submission, ingestion, chunks | `ServiceProofs`, `MC_Services` |
| `EventStream` | journal, broker, hub, both transports of the stream | `ServiceProofs`, `MC_Services` |
| `McpRegistry` | connections of the MCP servers and registration of their tools | `ServiceProofs`, `MC_Services` |
| `McpSession` | the session that the tools of one server share | `ServiceProofs`, `MC_Services` |
| `RateLimiter` | both token buckets | `ServiceProofs`, `MC_Services` |
| `Improvements` | from a retrospective to active files and child workflows | `ServiceProofs`, `MC_Services` |
| `ModelOutput` | extraction and repair of JSON in an answer (operators) | |
| `PersonaCall` EXTENDS `ModelOutput` | `Executor.Run`, what providers put on the wire, tool dispatch | `WorkProofs`, `MC_Work` |
| `ModelRouting` | catalogs, the Director's choice, the model of each call | `WorkProofs`, `MC_Work` |
| `Delivery` | the finalizer's actions against GitHub | `WorkProofs`, `MC_Work` |
| `Workspace` | toolchain, bootstrap, build, commits, pushes, gate | `WorkProofs`, `MC_Work`, `MC_Gate` |
| `DataLemmas` | least and greatest numbers, induction with sets, ranks | used by `ServiceProofs`, `WorkProofs`, `TaskDepsProofs`, `PodPhaseProofs` |

`Lifecycle` composes with `Scheduler` action by action: each of its steps that
concerns a job *is* the scheduler's action conjoined with what happens to the row, so
that queueing, retries and shutdown are the same in both. `Pipeline` and `PodPhase` are
the inside of the one step `RunSave` of `Lifecycle`: `Lifecycle` sees saves and control
checks, `Pipeline` which phase they belong to, `PodPhase` the inside of one phase. Below
them are one persona call (`ModelRouting` chooses its model, `PersonaCall` makes it,
`ModelOutput` reads the answer), the implementation cycle (`Workspace`), the start
(`Attachments`) and the end of a run (`Delivery`, `Improvements`).

The six modules of `MC_Services` share no state with each other, and so do the four of
`MC_Work`: a behaviour of either run is a behaviour of one of its modules, the *focus*
chosen initially, so that the states are the sum of theirs and not the product.

### Scheduler

`queue` is the channel, `running` the `Engine.Run` calls in progress, `retrying` the
jobs that sleep or wait for the channel in a goroutine of `runJob`, `entering` the
`Enqueue` calls that are past their first `select`. Every accepted `Enqueue` gets a
ghost *ticket*, which makes "this job" a meaningful phrase over retries. Go's `select`
chooses among the ready cases, so `WorkerExit` and `TakeJob` may both be enabled, and
so may `RetrySend` and `RetryGiveUp`. Attempts are not counted when retries are
unlimited (they are only compared with the limit).

### Lifecycle

Only the `status` column of a row is kept. The atomic steps are store calls: a handler
is `Begin`, one read with its decision, one write, and possibly an `Enqueue` (two steps
of the scheduler). A run is a machine with the places of `Phases`; between `check` and
`work` it has read the control state, and `RunSave` overwrites the row, status included.
Once the scheduler's context is cancelled every store call of a run fails, and any store call of a run, a
handler or the sweep may fail by itself (`StoreFault`), with nothing written or with only the answer lost. `Run` drops the
error of storing `failed` and returns the errors of its other transitions; either way its outcome is not stored, and the
row goes on saying running (`ReturnUnsaved`; `unsaved` remembers the row until a later run of it, or a restart). A restart
clears everything but the rows (`NewProcess`), then the sweep visits the running rows.
`edited` remembers the rows into which a planning edit has put a status it had read
before somebody else changed it, `abandoned` the rows that were left when a sweep ended
because the channel was full or the store failed: they say running and nobody runs them.

### PodPhase

`status`, `wsStatus`, `active`, `gate` are the struct in memory, `row` the stored copy. A
`SaveWorkflow` of a goroutine is two steps, the copy (`snap`) and the upsert: the copies of a
batch may reach the store in another order than they were taken. The first failing
goroutine cancels the context of its siblings (`broken`): a sibling whose next store call meets it returns in the middle of its
task, which stays stored as running (`cut` remembers in which run). `Concurrency` is `workflow.max_concurrent_tasks`; its default is 50
(`config.go:462`), so that a batch is all the tasks that are ready, and the bounds have batches of two. Around the phase are the runs,
remediation (which appends tasks), the API's cancellation and a crash with what
recovery does to the tasks. The save of a planning edit, which can bring back the whole row it has read, is a part of `Lifecycle`
only, where it is the status it brings back. Data races of the Go memory model on the shared struct are
represented at the granularity of fields: a copy has each field's value at one moment.

### TaskDeps

Titles are sequences of letters because substring containment and length decide matches.
The state machine makes every answer of an architect within the bounds, resolves it,
appends a remediation's answer and resolves again; the algorithm (match, deduplicate,
depth-first search, drop an edge, repeat) is operators. The code's recursion (`visit`) and its
loop have no bound of their own; `firstDependencyCycle` and `breakDependencyCycles` are
recursive functions over as many steps as there are moves of the search and pairs of tasks,
which the proofs show to be enough. An ID is a number, and `IDText` its text as letters: a
reference that matches no ID falls through to the titles (`Target`), so that the ID of a task that was left out can match a title which is a
piece of it, as `fuzzyTitleMatch` would have it.

### Pipeline

`ws` is the run's copy, `row` the stored one; `pc` is the phase about to run. Each phase
action is the whole phase: the model's answer, what `applyOutput` makes of it, and the
save. `done` are the personas with a summary, which a retry skips. `blockers` are kinds of
blocking issues, not texts. `opts` are the options of the engine and are chosen initially.
An improvement workflow starts with the state `launchChildWorkflow` gives it.

### Attachments

`attRow`, `bound`, `disk`, `copies` are an attachment's row, its workflow, its file and its
chunks. `UploadFile` is the check of the session, the write of the file and the creation
of the row, three steps between which the session may be consumed or aborted.
Ingestion hands pending and failed rows to `IngestWorkers` goroutines, each of which extracts,
stores chunks and completes in separate store calls, whose status updates may be lost. Chunks are only ever
inserted: an attempt that fails after them leaves them there (`wasted` counts these attempts), and the next one inserts them
again. `splitIntoChunks` cuts text as the code does: at a
newline in the last fifth of a chunk when there is one, and at the size of a chunk
otherwise; `ReadInputDocument` puts the chunks together again. Interruptions (crash, shutdown) and
failures start the next run from the stored row.

### EventStream

Time is in ticks, of which some make a second: SQLite stores whole seconds, Postgres finer ones
(`Stored`). A goroutine takes `OccurredAt` when it makes an event and appends it later, so that the journal's
order need not be that of the times. The stream is a machine: the transport is chosen, a
snapshot or a listing read, the subscription made, and then polls or the channel of the hub.

### McpRegistry, McpSession

The registry's actors (start-up, probe loop, runs) release the lock while they connect, so each
decision is a read and a later write. `Register` panics on a known name: `crashed`. A connection that breaks half-way
leaves its tools registered (`partial`). A `sessionHolder` is read, used, and replaced
under its mutex; the server forgets all sessions when it restarts.

### RateLimiter

The clock, the refill and the taking of a token are three steps in
`internal/ratelimiter`; `lastRefill` may go back and `tokens` become negative.

### Improvements

`turn[w]` is where the dispatch of workflow `w` is; paths are known by the directory they fall into
and a file's content by the improvement that wrote it. The disk is shared by the workflows.

### ModelOutput, PersonaCall

An answer is a sequence of pieces (braces, strings, values, prose, fences); scanning,
balancing and repair are folds over it. `wire` is what the last request carried: each provider's `Chat` drops or
requires other parts of the conversation. The registry's tools may fail, be unknown,
or be called without an id.

### ModelRouting

`Facts` is what a catalog says of a model (tools, size, unstable native tool calling).
Catalogs are stored with the workflow; a restart may bring other exclusions and
defaults, and `since` remembers the configurations since discovery. A catalog's models are a set;
the code's order, by id, is `ModelOrder`, and `First` is the first of a set in it.

### Delivery

One action for each request to GitHub, which may fail before or after it is served. `DeliveryConfig`,
`ActionKey` and the inference of a repository are operators over the caller's order. A
file's sha is the file itself. `todo` are the artifacts still to be committed, `Turn` the order in which that happens.
A delivery that failed is not repeated by the scheduler's retry (`RetryDelivery`: the workflow goes on undelivered); what runs the
phase, and so the delivery, again is a run that was cut off before it had stored the finalizer's summary (`DeliveryCutOff`).

### Workspace

`disk` holds versions of what matters: code, code whose names the seeded `.gitignore` matches,
the Node manifest, `go.mod`, documentation. `git.log` is the sequence of commits, `remote` the one the pushed
branch is at. `DoCheckpoint(stop)` is mcp-git's checkpoint up to the step that
fails. `seesMod` is what the engine's NFS client sees.

## Runs

| Run | Question | Bounds and why they suffice |
|---|---|---|
| `MC_Scheduler` | Does the scheduler implement `JobPool`, keep each ticket in one place, count attempts, and stop? | 2 workers, 3 tickets, channel of 2, 1 retry, one restart at any time: a full channel with a waiting retry and a caller behind it occurs, and a second attempt reaches the limit. |
| `MC_Lifecycle` | Which statuses may a row go through under concurrent requests, runs, failing stores, crashes, and does a row that says running have a run? | 3 workflows, a channel of 1, 2 workers, 5 tickets, 3 requests one handler at a time, 2 failing store calls, 2 restarts, no scheduler retries (the default of `MaxRetries`). A workflow can be created, cancelled, resumed and edited; a run and the sweep after it can both fail to store; a recovery can find more rows than the channel takes, and can itself crash. |
| `MC_LifecycleLive` | Does every running row end? | 1 workflow, 2 workers, 1 retry, 1 failing store call, 1 restart, fairness. The two workers and the retry can meet on the one workflow, and a retry can take up a row whose run could not store its outcome. |
| `MC_PodParallel` | Does the order of stores in a batch endanger dependencies, are tasks lost, repeated or left out, does the phase end? | 3 tasks (2 planned, 1 by remediation), every acyclic graph over them, 2 at a time, 3 runs or remediations, 1 store fault at any save, crashes, fairness. Two siblings and a task that depends on one or both; a task cut off in one run is passed over in the next. |
| `MC_TaskDeps` | Is the graph acyclic with nothing but cycle edges removed? | titles `a`, `ab`, references `a`, `b`, `ab` (equal, containing, contained), 3 tasks with up to 2 entries, then 2 of a remediation with 1, any of which may be left out: two- and three-cycles, doubled titles, all kinds of match and references that dangle occur. The text of every other ID has the title `a` in it, so that a dangling one is also matched by accident. |
| `MC_Pipeline` | Does a completed workflow have everything it needs, does a run end? | 3 runs, five personas lists, three stacks, five option sets (default; unlimited validation retries; unlimited QA retries; auto mode without gate; no validation profile). Three runs are a failure, a retry that fails elsewhere, and a retry that completes. |
| `MC_Services` | Do the services around the engine keep their promises under concurrent callers and faults? | Each focus has two actors that meet: 2 files, 2 submissions, 3 ingestion runs with 2 faults (chunks stored twice and a third attempt that completes); 2 events, a channel of 1, 2 ticks a second; 1 server, 2 runs, start-up and probe loop, 3 outages; 2 calls, 2 restarts of the server; 2 requests, burst 2; 2 workflows with 4 improvements each. A fault or two in each. |
| `MC_Work` | Do model calls, routing, delivery and the workspace do what they should under cut-off answers, failing requests and retries? | 2 artifacts cut at several places, 2 tool rounds of up to 2 calls, 4 providers; 2 workflows delivering 3 and 1 artifacts to 2 repositories with 2 attempts and 1 fault or cut-off run, 8 orders; 3 models, 2 configurations, 1 restart; 3 toolchains, 2 writes, 1 remediation, 2 runs, 1 fault. |
| `MC_Gate` | A counterexample: the gate names an old commit. | 2 writes, 1 cycle repeated, no faults. |
| `MC_CancelTerminal` | A counterexample: a cancel is overwritten. | 1 worker, 2 requests. |
| `MC_CancelRetries` | A counterexample: a cancelled workflow is retried for ever. | 1 workflow, 1 worker, unlimited retries, create and cancel. |
| `MC_PipelineDelivery` | A counterexample: a failed delivery is not repeated. | 2 runs. |

Every counter that would grow without limit is capped in a guard by a constant marked
*bound* in the module: `MaxTickets`, `MaxRequests`, `MaxRestarts`, `MaxRuns`,
`MaxFaults`, `MaxPlans`, the `Max...` constants of the other modules, and the lengths of lists. `CHECK_DEADLOCK FALSE` appears where the
behaviours end because a bound is used up, or because every workflow has ended.

### What the properties say

*Scheduler.* `TicketInOnePlace`: requeueing never multiplies a job. `RetryBudget`: the attempt
number a job carries is the number of runs made, at most `MaxRetries + 1`.
`CleanShutdown`: nil from `Shutdown` means no run in progress. `ImplementsPool`: refinement.
`TicketSettles`, `ShutdownCompletes`: nothing hangs on the full channel.

*Lifecycle.* `SingleRun`, `CompletedStays`: without scheduler retries and with one handler
at a time no workflow is run twice at once, and a completed row is not run again.
`CancelledRowNotRevived`: only somebody who had read the row before the cancel can
overwrite it, and nobody joins them. `RunningRowHasRunner`: while the process serves, a row that says running
has a run that will write it again, unless its last run could not store its outcome, a racing edit put the status there
or a sweep abandoned it. `RunningEnds`: with the same exceptions a row does not stay running, and one that is unsaved only stays so when the
scheduler has no job for it left.

*PodPhase*, for any concurrency. `DependenciesStored`: a task is given to a model only when the completion of what
it depends on is in the *store*, although the stores of a batch race. `OnlyCutTasksStranded`: as long as the store works, a task
is left stored as running only
when it shared a batch with a task that failed. `CompletionKept`: a stored completion is
only taken back by an older copy of a sibling in the same batch, and a run that ends with a save that works has stored all it completed.
`RunnableAllRun`: as long as the store works, a phase that ends well has run all it could, but for the tasks cut off in an earlier run.
`IdleRowSettled`: as long as the store works, the row of a run that is over does not say running. `PhaseEnds`.

*TaskDeps.* `Acyclic`, `OnlyCyclesBroken` (an edge that is gone lay on a cycle),
`SecondPassKeepsGraph` (resolving the merged graph again drops the references to tasks
that were left out, and nothing else; only where the ID of such a task contains a title does it connect the reference's task with that title's).

*Pipeline.* `CompletedRanAll`, `FinalizedValidated`, `QABudget`, `FirstRunReviewed`, `RunEnds`.

*Services.* `DocumentsReadable`: when ingestion says completed, every document is processed and
the personas read it as it was uploaded, with each chunk repeated once for every attempt that had failed after storing the chunks.
`LossExplained`: the stream loses an event it took up only to its comparison of times, and
sends none twice. `Reconnects`: a server that stays up is connected in the end, or the process has
panicked for one of three named reasons (`PanicExplained`). `FailsOnlyIfDisturbed`: reconnecting once is enough for a tool call unless
somebody else takes the new session away; no session leaks. `AdmittedBounded`: a late refill
never admits too much. `ImprovementErrorsExplained`: workflows that write to one directory do not make
each other fail.

*Work.* `AnswerWhole`: what a persona accepts of an answer that is reported as whole is the artifact the model wrote, never a
fragment or another object. `ToolTurnsPaired`: every tool call on the
wire is followed by its result. `DeliveredWhole`, `FailureExplained`: a successful delivery is
complete, in a repository that the order names and on the branch of the configuration as `hydrateDeliveryConfig` leaves it, and a
failed one that met no fault of its own has one of five named reasons (the last: another workflow's order names the repository),
so that the branch and the files an interrupted
attempt left do not stand in the way of the run that delivers again; the pull request it had opened does. `RoutedModelFits`:
exclusions and needs for tools and size are respected
whatever the Director chose. `PushedOrTold`: when a cycle is judged, the pushed branch is at what the workspace
holds, or the failed push is a blocking issue.

Each of the small modules also states its type invariant next to its Init; runs check the type
invariants of the scheduler and the pod phase, which carry proofs, and `RateTypeOK` is part of
the inductive invariant of `RateLimiterAdmits`.

### Fairness

*Scheduler*: a worker at its `select` takes a job (weak); it notices a cancelled context
(strong: `select` picks at random, so a case that is ready again and again is chosen
eventually); a retry goroutine at its `select` gets a slot or leaves (strong, for the same
reason: the slot comes and goes); a run returns (weak), which the timeouts of the model
clients provide; `Shutdown` goes on (weak). Nothing makes a caller call.
*Lifecycle*: the same, and handlers, the sweep and the steps of a run go on. The end of the phases
(`RunPhasesReturn`) is strongly fair: the engine has finitely many phases, and a
save between two of them disables it only for a while. No store call is made to fail or to succeed.
*McpRegistry*: the start-up, the probe loop with its ticker, and a step of an actor that has begun, go on (weak); the
network calls have timeouts. Runs and outages are not made to happen.
*PodPhase*, *Pipeline*: the goroutine of a run, and those of a batch, go on (weak). No
fairness is assumed of failures, cancellations, crashes or of what models answer.

## Proofs

`SchedulerProofs` holds for any number of workflows, callers, tickets,
any channel capacity of at least one, any retry limit or none, and finitely many workers
(`SchedulerAssumption`; finiteness is needed for the cardinality in `JobPool`).

- `TypeCorrect`, `WorkersRunOneJob`, `ShutdownIsClean` are inductive given the type invariant:
  a worker's slot is empty when it takes a job, and it only exits with an empty slot.
- `TicketsAreUnique`: `TicketInOnePlace` is not inductive by itself, because the next `Enqueue` hands
  out the ticket `issued + 1`, which might already be somewhere. `OnlyIssued` says it is nowhere and has not run; the conjunction `TicketInv` is
  inductive. Each action moves one job from one place to another, and the lemmas `QueueSend` and
  `QueueReceive` say which tickets the channel holds afterwards.
- `RetriesAreBounded` adds that a job carries its number of runs, wherever it is, on top of
  `TicketInv` (a run of one ticket does not change the count of another).
- `SchedulerImplementsPool`: under the conjunction of these invariants each action maps to an action
  of `JobPool` or a stutter. `IdleWorkerIsRoom` is the one argument about sizes: an idle worker means
  fewer than `Concurrency` tickets running, since workers and running tickets are in
  bijection. A `RetrySend` is a stutter: the ticket waits before and after.

`LifecycleProofs` holds for any number of workflows, clients, workers, requests and restarts (`LifecycleAssumption`):

- `LifecycleUsesScheduler`, `LifecycleImplementsPool`: each step of the server is a step of the scheduler or leaves it alone
  (`SchedulerStep`), so that everything proved of `Scheduler` holds of the whole server, and it implements `JobPool`.
- `RunningRowsAreRun`: `LifeInv` says of each row that says running, and of each place where a handler, a run or the
  sweep may stand, who is going to write it (`EntryInv`, `RunnerInv`), for any number of failing store calls. It needs no
  condition on clients or retries; what it
excepts is named by the ghost variables `unsaved`, `abandoned` and `edited`.
- `CancelledRowsStay` is an action property over the type invariant: each writer of a cancelled row is one that had read it
  before.
- `WorkflowsRunOnce`, `CompletedRowsStay`: without scheduler retries a row has at most one *owner*: a handler that is going to enqueue
  it, the sweep, a job or a run (`OwnerInv`). Two resumes of one row that both read it before either writes would make two, which
  the code permits and the runs exclude by having one handler at a time; the theorems assume exactly this, `[]SerialResumes` (no two
  handlers are resuming one row), and `OneClientRunsOnce` shows that one client satisfies it.
- `SmallSweepsFinish`: a sweep of no more workflows than the channel holds abandons nothing as long as no store call fails (a
  cardinality argument over the channel
  and the rows still to be swept).

`PodPhaseProofs` holds for any number of tasks, any concurrency and any bounds:

- `TypeCorrect` is inductive as it stands.
- `DependenciesAreStored`: `DependenciesStored` speaks of the stored row, which a goroutine replaces by a
  copy taken some time before. `DependencyInv` strengthens it: what the tasks of the batch depend
  on is complete in memory *and in every copy under way to the store*, and no task
  still to be executed is complete, so that nothing takes a completion back while the batch
  lasts. All steps of a goroutine do one thing to this invariant (`BatchMove`,
  `MoveKeepsDependencies`); `TaskStepMoves` shows it for each of them. Outside a batch
  no goroutine exists and there is nothing to show (`NothingUnderWay`). The proof does not need
  the graph to be acyclic.
- `IdleRowsSettle`: as long as the store works, a run that is over left its row failed or cancelled. `RunStatusInv` follows
  the status through memory, the copies under way and the row.
- `OnlyCutTasksAreStranded`, `CompletionsAreKept`, `RunnableTasksAreRun` follow from one invariant, `PhaseInv`. Its new parts: what the
  store has as complete, or is about to, the run knows, and a goroutine is about to store its own outcome (`KnownInv`); a batch
  that does not run in goroutines has one task, whose copy is the state in memory (`AloneInv`); once the row is found cancelled
  nothing is stored before the run ends (`CancelInv`); a task that says running is in hand or was cut off (`StrandedInv`).
- `PhasesShrink`, for any concurrency: `PhaseRank` adds up, over the tasks, the steps of `executePodTask` each has before it (8 for an
  open task that is not queued, 0 for all of these once there is an error), and the way to the next batch. Each step lowers it, only
  `ApiCancels` leaves it as it is, and it is at most `24 * NumTasks + 5`. It needs that every batch has a task
  (`NextBatch` has the first runnable one) and that a task past its execution has an outcome (`ProgressInv`). A sum over the tasks
  is not within the provers' reach; `Total` counts instead how many tasks have at least 1, 2, ... 8 steps (`TotalFalls`).

`PipelineProofs` holds for any options, any lists of required personas, any stacks and any number of
runs, with failures and crashes after any phase (`PipelineAssumption`). The record of the workflow is taken
apart first: one lemma per update says what it leaves of the other fields, and one per action (`QAEffect`,
`PodPhaseEffect`, ...) what it does to each; the invariants are then proved from these alone.

- `TypeCorrect` is inductive as it stands.
- `FinalizesValidated`: `FinalizedValidated` says nothing of a failure that a run leaves in the store for the
  next one. `ValidationInv` says of the row as well as of the copy that a failed validation has a
  toolchain and that either QA is required or the Pod is and the gate is closed (`FailureIsSeen`), so a later run
  meets the validation loop or QA again; behind either there is none. It follows that the run is not at
  the gate before the finalizer with a failed validation: `EnforceValidationGate` is a second line of defence, whose
  refusal `FinalizerGateEffect` still describes.
- `CompletesAll`: `CompletionInv` says for each place of a run which phases lie behind it (`Behind`) and that
  the gate is open and the blockers gone where they have to be; that a retry skips a phase with a summary is
  what makes this hold over several runs.
- `ReviewsFirstRun`: `FirstRunInv` says that QA's summary only exists, in a first run, within QA's loop and behind it,
  so that the shortcut of a retry past QA is closed. It needs `CompletionInv` for the status.
- `AsksWithinBudget`: `BudgetInv` counts the definitions auto mode has used (`Extra`): QA at its budget goes on only by
  using another one up.
- `RunsShrink`: when both retries are bounded, every step of a run lowers `RunRank`, which begins at no more than `RunLimit`. The rank is
  lexicographic: the turns of QA that the retries and auto mode leave, the cycles left to the validation loop, the place in it.
  `StepLeads` lists how a step may lead on (`Closer`), `RankFalls` shows that each of these ways lowers the rank; `RankInv` (a loop that goes on
  has cycles left) and `QABudget` keep the counters where the rank needs them. A failing step or a crash ends the run.

`ServiceProofs` holds for any number of callers, workflows, files, events, requests and bounds, each part under the assumption of its module:

- `SessionsReplaced`: `SessionInv` says that the holder never keeps a session it has closed, that all others it had are closed, and that
  a caller nobody has disturbed since it reconnected holds the session the holder has and the server knows.
- `ImprovementsDoNotDisturb`: `StagingInv` follows the files of one improvement through the shared directory: those up to the one being staged
  are there under the workflow's own name, which no other workflow removes.
- `IngestionProcessesAll`: a file's row is completed only by its job or an earlier one, after its chunks were stored (`JobInv`), its text is
  on disk as uploaded (`UploadInv`), and a session that was consumed has one owner (`OwnerInv`).
- `IngestedIsReadable` adds what the tools read: the chunks of a document are listed in order, each as often as it was
  inserted (`copies`, which is `wasted + 1` for a completed one), so that every k-th row is one whole copy (`CopiesAreChunks`).
  `splitIntoChunks` is a recursive function over positions of the text. `ChunkingExists` shows
  that it is defined by its equation, for every text (a chunking of the end of a text extends by one letter, since
  `Cutoff` goes forward); `ChunksArePieces` that the chunks are what lies between increasing cuts of the text, by the last
  position of which this is not so; `PiecesJoin` that the community modules' `FlattenSeq` puts such pieces together again.
- `StreamLosesOnlyByTime`: `StreamInv` says that `lastEventTime` is the time of an entry that was written, as it was stored or as it was
  made, and while the database is polled the latest stored time of all that were; cutting times to seconds keeps their order
  (`WholeSecondsKeepOrder`), so what the comparison drops is overtaken in the journal as well. `ListingIsWhole` shows that the listing has each
  entry once, in order: in a total order of n elements each rank below n is taken by one of them (`RanksAreTaken`).
  `PollCatchesUp` goes through the loop of a poll by induction over the listing.
- `RateLimiterAdmits`: `AdmittedBounded` compares what was admitted with the clock, but what a step admits depends on the bucket and on
  `lastRefill`, which a late refill sets back. `Accounted` says that what is left in the bucket and what was admitted are at most the burst and the
  worth of the time up to `lastRefill`, wherever it stands: a late refill takes away as many tokens as the next one
  gives back. `ClocksPast` (no reading is later than the clock) turns it into `AdmittedBounded`.
- `PanicsAreExplained`, `ConnectionsAreBacked`, `ResolvedIsRegistered`: `RegistryInv` says that a tool is only registered for a server that is
  connected, that a connection broke on, or that somebody is connecting to (`RegistrationExplained`), that an entry's claims are backed
  (`EntriesBacked`), and that nobody runs beside the loader (`LoaderFirst`), so that at start-up only a broken connection is left as a reason.

`WorkProofs` holds for any answers, toolchains, files, providers, models, configurations, workflows, orders, failing requests and bounds:

- `WorkIsPushedOrTold`: nearly inductive; what it takes is what a checkpoint does in each case of a fault (`CheckpointPushesOrTells`).
- `ToolTurnsArePaired`: the conversation is a list that grows, and a provider drops parts of it. `TurnInv` says of each call in the
  conversation that it is answered in its place or is one of those being dispatched, which come in order behind the message that made them;
  `ChatPaired` shows that each provider's rewriting keeps a paired conversation paired.
- `AnswersAreWhole`, `WholeAnswersAreAccepted`: `findMatchingClose` and `lastJSONObject` are compared with a definition of a JSON object by
  counts of braces (`Depth`, `ObjectAt`), independent of the code's recursion: `MatchingClose` shows that the search for the closing brace finds
  the object's end (`CountsAreDepths`: what the code counts are depths, by induction over positions), `LastObject` that the scan, which jumps
  behind each object, hands out the last one at depth zero, `FencesStripped` and `ProseIsPreamble` what precedes it. `AnswersAssumption` says how
  a model that was not cut off writes: prose alone, or an artifact whose braces balance, in fences or not, with no object at depth
  zero that ends after it has begun but its own parts. An object written *after* the artifact is excluded, since the code then takes that one.
  A cut answer is not restricted at all.
- `PersonasAreRouted`: `RoutingInv` says that, as long as the configuration is the one of the discovery (`since = {setting}`), a catalog has
  nothing that is excluded (`CatalogFits`) and what the Director's answer was normalised to fits each persona
  (`PersonaFits`); after a change of configuration, that only a stored default can be excluded.
- `DeliveriesAreWhole`: `PlacingInv` says of an attempt under way that the last artifact of each path is still to be committed or is in the
  file, unless another workflow has written it since. An attempt that starts puts all of them on the list (`StartsAllPending`), a
  PUT that is answered takes one off (`PutDone`), and whatever else happens on the branch only adds to it (`GitHubMove`, `PlacedStays`).
- `FailuresAreExplained`: the reasons hold when the attempt fails and are not undone afterwards (`ReasonsCarryOver`). A PUT can only be refused in
  an attempt without faults when somebody else moved the file between GET and PUT, and who touches a repository names it in
  its order (`Names`, `OthersKeepInv`).

`TaskDepsProofs` holds for any titles, references and sizes of any number of Architect outputs (`TaskDepsAssumption`). The
invariant (`IInv`) says that the tasks refer by ID
alone, once each and never to themselves, to IDs that were handed out (`Tidy`), that no IDs collide and that there is no cycle.
The algorithm is proved first:

- `SearchInv` is the invariant of the depth-first search: the gray tasks are the stack and the stack is a path (`StackIsPath`); what a task's
  position has passed is black or the next on the stack (`LookedAt`); the black tasks are free of cycles and lead to black ones only
  (`BlackIsDone`). Each step does one more of the finitely many moves (`StepKeeps`), so when they are used up the search has found a
  circle or coloured every task black: `SearchFinds`, a cycle is found exactly when there is one.
- `RoundBreaks`: a round drops one edge of the circle found, from whose end the circle leads back to its beginning (`CycleLeadsBack`). Edges
  are at most as many as pairs of tasks, so the rounds suffice (`BreakingWorks`).
- `ResolvedIsClean`, `ResolvedAgain`: what resolution leaves, of any answer and of what it left before. `Picked` (some entries of a list, in
  order) is shown to be that by `PickedPlaces`, again by ranks.
- `NeverCyclic` then needs that an output refers to itself alone (`AppendedTasks`) and that a part of an acyclic list is one (`PartOfList`);
  `SecondPassKeeps`, that the second pass resolves each reference to a task that is there to that task (`ResolvedMore`), so that
  new edges come from accidents only, and that without an accident it meets no cycle and is resolution alone.

`DataLemmas` are three facts about numbers, stated with sets instead of operators, since the provers cannot instantiate the library's induction
theorems: a set of numbers has a least element (from `WFMin` of `WellFoundedInduction`), a bounded one a greatest, and what holds of 0 and
of each next number holds of all; and `RanksAreTaken`, used for listings and for picked entries. With them a recursive *function*
can be reasoned about; the proofs above do so.

Only model-checked:

- Liveness: `TicketSettles`, `ShutdownCompletes`, `RunningEnds`, `PhaseEnds`, `RunEnds`, `Reconnects`. The prover has
  no fairness and no ENABLED. Of `PhaseEnds` and `RunEnds` the safety half is proved (`PhasesShrink`, `RunsShrink`: only finitely many
  steps, with the bound); that a step is enabled and taken is left to TLC. Of `Reconnects` the part about panics is.
- `SingleRun`, `CompletedStays` are proved under the stated condition on concurrent resumes, and false without.
- The four properties of the runs that expect a violation.

## Where code and documentation differ

Four runs show a difference as a counterexample:

1. `MC_CancelTerminal`. `docs/workflow-engine.md:317`: "A cancelled workflow is terminal and cannot
   be resumed." A run that checked the control state before the cancel was stored saves its whole row
   after it, and the workflow goes on to complete or fail.
2. `MC_PipelineDelivery`. The comment at `engine.go:853` keeps the finalizer's summary so that a
   retry repeats the delivery only; but `transition` clears the error message by which
   `deliveryRetryNeeded` recognises such a retry, which then completes without delivery.
3. `MC_CancelRetries`. `docs/configuration.md:284`: `run_until_success` "Enables continuous retries until
   completion/cancel", and `go-orca.yaml:161` says the same. It sets `MaxRetries` to -1 (`main.go:258`). `Run` returns an
   ordinary error for a row that is cancelled (`engine.go:315`), after which the scheduler retries (`scheduler.go:169`): a workflow that is
   cancelled while its job waits or its retry sleeps is taken up and refused for ever.
4. `MC_Gate`. `prompts/personas/qa.md:37` tells QA that the gate's checkpoint is the latest iteration; the cycles after the
   first are called `implementation-remediation-N`, which `shouldPersistExecutionCheckpoint`
   (`engine.go:2220`) does not record, and the gate falls back on the first cycle's commit.

Others seen while modelling; the models follow the code:

- A project blocked by the matriarch (`prompts/personas/matriarch.md:44`) is let through by a
  retry: the matriarch has left a summary.
- A retry after a failure inside QA's remediation completes without QA
  having seen the revision (`README.md:30`); `FirstRunReviewed` is about first runs.
- `assertImplementationReadyForQA` accepts the gate of an earlier cycle after a failed validation
  (`implementation_phase.go:206`).
- A task of a batch whose sibling fails is left stored as running when its next store call meets the cancelled context, and
  `runPodPhase` passes over it from then on (`pod_phase.go:97`), so that a later run may pass the phase without it, although
  `runPodPhase` is said to run "every runnable task" (`RunnableAllRun`). Only a crash in a later run, whose
  recovery resets running tasks, brings it back.
- The failed store of a failure is ignored (`engine.go:335`), and the row stays running until a retry or a restart
  (`RunningRowHasRunner`).
- `Shutdown`'s comment (`scheduler.go:99`) says it drains the queue; it does not.
- Creation reports a failed enqueue as resumable (`handlers.go:239`); resume takes only
  paused and failed workflows (`handlers.go:378`).
- `docs/api.md:430` allows cancelling pending and running workflows only; the handler also
  accepts failed and paused ones.
- With unlimited retries of the validation loop only its stagnation test ends it; a model that
  fails in a new way each time keeps it going. `RunEnds` assumes bounds.

- `hydrateDeliveryConfig` (`engine.go:991`) hands on `repo` and `branch` only: the `head_branch`, `base_branch`, `title`, `body`, `path` and
  `token` that `docs/finalizer-actions.md:80` and `actions.go:400` document for `github-pr` are dropped, and a pull request
  always comes from the workflow's own branch, to main, with the default token. `DeliveredWhole` measures what is delivered by the
  configuration that is left.
- Ingestion calls itself idempotent and says that partial progress is resumed (`ingestion.go:19`). A document whose summary fails
  after its chunks were
  inserted has them inserted again by the next run, and `read_input_document` returns it with each chunk twice
  (`DocumentsReadable` says how often).
- A push that fails becomes a blocking issue, which the end of the same implementation cycle replaces or
  clears (`implementation_phase.go:104`): `PushedOrTold` speaks of the moment the cycle is judged.
- The seeded `.gitignore` lists binaries by names that directories of source share
  (`Tracked` in `Workspace`): what is in them is built but never committed.
- mcp-git answers the string `HEAD` for the commit of a repository without commits; a checkpoint of it is
  recorded (`Unborn`).
- A connection that breaks after its tools were registered makes the next attempt panic on a name that is
  known, also at start-up, where `LoadServers` means to go on without the server (`Reconnects` names it).
- Copilot's provider does not say that an answer was cut off, so a repaired fragment is accepted
  (`executor.go:556`); `AnswerWhole` leaves it out. Anthropic's provider announces tool calling and drops the tools.
- `docs/api.md:364` describes a stream that polls the journal every second and pushes what is new; events
  of one stored second that are written after a poll are never pushed (`LossExplained` bounds the loss).
- An attachment whose ingestion was interrupted, or whose last status update was lost, stays `processing`, which no later run takes up: the
  workflow fails at `finalizeIngestion` on each retry (`ingestion.go:74`): that progress is not resumed.
- Two workflows that promote a skill of several files at once can leave one with files of both.
- A child workflow of an improvement is stored before it is enqueued; when the queue is full its row stays pending
  and recovery does not look for pending rows (`workflow_launcher.go:88`).

## What is not modelled

- Text: prompts, personas' answers beyond what decides control, handoff context, summaries, rendered
  documents, guidance. No control state depends on it.
- Pure lookups over data that does not change while workflows run: customization overlays, scope and tenant resolution, template
  catalogues, configuration, MCP policy. A model would be the same comparisons again.
- Stateless wrappers: the toolchain, filesystem, workspace and container servers other than mcp-git's checkpoint, the built-in HTTP
  and clock tools, HTTP decoding in providers. The models see success, failure, or an answer that is lost.
- Single persona runs: one executor call for a request, with nothing stored.
- The rest of the API: routing, authentication, queries, request validation, metrics.
- Postgres apart from its resolution of times and its consumption of a session: the operations of SQLite in another dialect; migrations are schema.
- The user interface, deployment and test drivers.

Within the modelled parts: several
clients of one event stream and the broker's readiness; the branch of a checkpoint; the checkpoint path of the engine without an MCP
registry, which `main` never uses; negative (unlimited) retries of the implementation loop in `Workspace` (`Pipeline` has
them); the scoring of model names by their text, for which `Facts` stands.
