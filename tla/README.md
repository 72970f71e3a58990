# Verification of Nexus

TLA+ models of the parts of this repository whose correctness depends on
interleavings, failures and time; TLC runs that check them on small instances;
and proofs, checked by TLAPS, of what matters most for every instance.

Nexus is two systems in one repository, and a memory they are developed with:

- **A. The task tracker** (`src/app`, Bun and TypeScript): a dashboard, one API
  process with its background jobs, Postgres and Redis.
- **B. The orchestrator** (`src/nexus-broker/src/broker`, Python): a broker that
  dispatches work to coding agents, with one resident daemon per project and a
  conductor that executes DAGs of tasks.

- **C. The memory** (`src/.memory`, Python): a script, `log.py`, that every agent calls to
  record decisions and lessons in one SQLite file, with a vector index beside them.

They share no state at run time: agents of B reach A only through its API
(`src/mcp-server`).

## 1. Inventory

Status: **M** modelled, **P** partly, **–** not (yet) modelled. The full list of
components with their sources is in `PROJECT.json`.

### A. Task tracker

| Component | State | Operations | What is hard about it | What makes it correct | |
|---|---|---|---|---|---|
| Recurring tasks: `jobs/src/jobs/tasks/create-recurring-task-job.ts`, `jobs/src/init.ts`, `trpc/routers/tasks.ts` | `recurring` and `recurringJobId` of the task row; timers in memory | create, update, delete of a task; a timer fires; the run reads the row, creates the occurrence, schedules the next run, writes the link | every database call is an await; requests, runs and timers interleave; timers are lost with the process | the row and the timers agree; one chain of runs per task; in the end it goes by the cron of the row; nothing is scheduled for ever for a stopped task | P |
| Recurrence dates: the same files, `utils/src/recurrence.ts` | next date, timer | next date after a reference, delay, lateness | a process that sleeps; 31-bit timers; a cron that never matches | an occurrence is never early, double or skipped | P |
| Agent execution: `jobs/agent-jobs/execute-agent-task-job.ts`, `queries/task-executions.ts`, `queries/agent-triggers.ts` | the `task_executions` row, the chat of the task | triggers (comment, assignment, checklist item); the job; the agent loop and its steps | two triggers at once; a row read a dozen awaits before it is used; a time-out that does not stop the loop; a chat longer than the agent remembers; jobs in memory | no comment is lost; a row says "executing" while its job works, or for ever if the job was cut off | M |
| Job runtime: `jobs/src/init.ts` | job registry, current run (one global), crons | `registerCron`, `enqueue`, `cancel`, `getDb` | the global is saved and restored around async code | a run uses its own connection | – |
| Task mutations: `queries/tasks.ts` and dependencies | sequence numbers, labels, subscribers, columns | create, update, comment, move | read-modify-write outside transactions | unique numbers, no lost subscriber or label | – |
| Intake, inbox, import | intake rows, pending inbox items | accept, deliver, import | check-then-act on deliveries that may repeat | one task per item | – |
| Templates, notifications, digests, follow-ups, reviews | – | crons that select rows and call services | outside services | – | – |
| API, dashboard, desktop, site, shared packages, MCP server | – | one query per request, rendering, adapters | – | – | – |

### B. Orchestrator

| Component | State | Operations | What is hard about it | What makes it correct | |
|---|---|---|---|---|---|
| DAG conductor: `conductor/dag.py`, `conductor/checkpoint.py` | ready queue, in-degrees, results (memory); the journal (file) | start, resume, worker threads, journal, merge, return | threads; a crash between any two steps; a torn journal line; exceptions that end a thread | no result is lost, no node is dispatched twice or before its dependencies, the run ends | M |
| Daemon lifecycle: `daemon/server.py` (`serve`), `pidfile.py`, `ensure.py`, `client.py` | flock, pidfile, socket file | serve from start to exit; ensure, call, spawn, reap, unlink | processes that race; crashes, hangs, upgrades; check-then-unlink | one live daemon, always to be found; a late exit spares its successor; ensure repairs any state | M |
| Ready set: `daemon/ready_set.py`, `conductor/ready_set_client.py` | the queue of a run in the daemon, a mirror of it in the client | pull, complete, invalidate, fall back | lost answers; the daemon ahead of the mirror | serves what the conductor alone would have; implements the same DAG execution | M |
| Telemetry: `daemon/telemetry_store.py`, `daemon/fallback.py`, `client.py` | buffer, batch, tables, the shadow event log | record with retries and direct write, flush, stop | a time-out of a call that was served; a flush that empties the buffer before it writes | a row accepted is stored; the shadow log has as many rows as the table | M |
| Event store: `daemon/event_store.py` | `event_log`, `_next_seq`, projections | append, reopen, replay | redelivery across restarts; a crash behind the INSERT | every event once, in order; replay equals what happened | M |
| Event bus: `daemon/bus.py` | a queue per subscriber | publish, wait, reap | full queues; a subscriber reaped while it waits | events in order, every drop counted, the freshest kept | M |
| Vault queue: `vault/jobs.py`, `vault/writer.py` | `jobs` rows, a file lock | enqueue, claim, handle, mark; start and exit of the writer | a crash between claim, effect and mark; a second writer | one writer; no job twice; every queued job is claimed | M |
| Node contract: `node_contract.py` | – | `validate_dag` | its cycle check is the only guard against a DAG on which the conductor waits for ever | the cycle check refuses exactly the documents with nodes that never can run | P |
| Broker files: worktree registry, `broker_state.json` | small JSON files | read, change, replace | several processes | no lost grant | – |
| Governance, verify matrix, ramp, packets and ownership, capability tokens, deny and advisory handlers | – | decisions on one input | stale evidence | as written | – |
| Worker pool | one subprocess per attempt | run, time out, retry | effects of an attempt that timed out | bounded retries | – |
| Broker server, registry, vault search, plan validation, observability, hooks | files and SQLite | requests, batches | mostly sequential | – | – |

### C. Memory

| Component | State | Operations | What is hard about it | What makes it correct | |
|---|---|---|---|---|---|
| Bi-temporal memory: `.memory/log.py`, `.memory/schema.sql` | `decisions` and `lessons` with their closed versions, `vec_memory`, `embed_provenance`, `embed_outbox`, `vec_memory_deadletter` | add, supersede, retire, recall, `vec backfill` | a write is two transactions and the second needs a model server; several processes; a new model | no version is lost (its status is), the chain of versions can be walked, no row is unknown to both index and markers | P |

### How they interact

- A request or a job of A reads and writes rows; between two database calls any
  other handler or timer of the process may run. That is why the modules of A
  have one action per database call.
- A comment or an assignment calls the trigger, the trigger enqueues the job, the
  job runs the agent, and the agent's tools write comments as the agent, which
  trigger nothing.
- Threads of the conductor share queue and counters under one lock and write the
  journal outside it; the journal is all a resumed process has.
- `validate_dag` is what keeps DAGs with a cycle from the conductor. The conductor may take its nodes from the
  daemon's ready set instead of its own queue; the client of the ready set keeps a mirror, with
  which it goes on alone after the first call that fails.
- Hooks hand a telemetry row to the daemon, or write it themselves if the daemon does not answer;
  the daemon buffers it for its next flush and at once appends an event to its log.
- Readers insert vault jobs; the writer, which launchd keeps alive, drains them.
- Processes that run `log.py` meet only in SQLite's transactions.
- Clients of the daemon meet it, and one another, only through the flock, the
  pidfile and the socket file. That is why the module has one action per system
  call on them.

## 2. Modules

| Module | Models | Extends or uses |
|---|---|---|
| `RecurringTasks` | requests, runs and timers of recurring tasks, without time | – |
| `MCRecurringTasks` | its symmetry for TLC | `RecurringTasks` |
| `RecurrenceClock` | the dates of one recurring task, with time, handlers atomic | – |
| `MCRecurrenceClock` | three crons: frequent, rare, one that never matches | `RecurrenceClock` |
| `AgentExecution` | triggers, jobs and agent loops of one task | – |
| `DagExecution` | what a conductor promises: a DAG is executed once, in order | – |
| `DagConductor` | `run_dag` with threads, journal, crash, resume | `DagExecution` (refined) |
| `MCDagConductor` | every DAG of three nodes, the diamond, five edited DAGs | `DagConductor` |
| `DaemonLifecycle` | daemons and clients of one project | – |
| `MCRecurringSchedules` | handlers in turn, or overlapping, in one state space | `MCRecurringTasks`, `RecurringTasks` |
| `MemoryLedger` | decisions, their index and its markers, by several processes | – |
| `ReadySet` | the ready set of a run and the client's mirror | `DagExecution` (refined) |
| `TelemetryDelivery` | a telemetry row from the hook to the table | – |
| `EventLog` | the event log and its replay | – |
| `VaultQueue` | the vault's jobs and the processes that drain them | – |
| `CycleCheck` | the cycle check of a DAG document, node by node | – |
| `EventBus` | subscriptions of the daemon's bus and their queues | – |
| `MCServices` | eight components side by side, with their instances | `MCRecurrenceClock` and the seven above |
| `RecurringTasks_proofs`, `RecurrenceClock_proofs`, `AgentExecution_proofs`, `DagConductor_proofs`, `DaemonLifecycle_proofs` | theorems about the module they are named after | that module (the first one also the regimes of `MCRecurringSchedules`), `TLAPS` |
| `Plans_proofs` | theorems about the two modules that read a plan, and the lemmas about folds | `CycleCheck`, `ReadySet`, `TLAPS` |
| `Stores_proofs` | theorems about what the broker keeps | `MemoryLedger`, `VaultQueue`, `EventLog`, `TelemetryDelivery`, `EventBus`, `Plans_proofs` |
| `Services_proofs` | theorems about the components side by side | `MCServices`, `RecurrenceClock_proofs`, `Stores_proofs` |

### RecurringTasks

`task[t]` is the row, `run[r]` a timer or the run it started, `edit[e]` a create
or update request in progress. One action per awaited call: `UpdateRead`,
`UpdateWrite`, `EditSync` (the synchronous part of `syncRecurringTaskSchedule`:
cancel the old timer and arm the new one), `EditLink` or `EditUnlink` (the write of
`recurringJobId`), and for the run `Fire`, `RunRead` (with the check that skips a
stale run), `RunCreate`, `RunSchedule`, `RunLink`, `RunUnlink`. `TaskDelete` is one
statement. `RunFail`, `EditFail` are a database call that throws, `Restart` the
end of the process. `Overlap` says which handlers of one task may interleave:
`"edit/edit"` two requests, `"edit/run"` a request and a run, `"fire/link"` a timer
that fires before the handler that armed it has written its id to the row. All three happen in the
code; the constant tells what each property depends on.

### RecurrenceClock

One task; a cron expression is the set of dates it matches, time is a number.
`Sync` is `syncRecurringTaskSchedule`: next date, delay, `setTimeout`, row; a cron
with no further date throws after the old timer is cancelled. `Run` schedules from the
date it was for, not from the present (that is how a late process catches up).
`Tick` lets time pass without running what is due: a sleeping laptop.

### AgentExecution

`execution` is the row, `job[j]` a run of the job from trigger to end, with what
it read (`hasAssignee`, `found`, `context`) until it is used and what its agent was given (`memory`), `loops` the agent
loops that still take steps, also after `generate` has timed out. Comments and messages are numbered as they are created, so
that the newest are those with the largest numbers; `chat` holds rows, one per message and job that saved it, because nothing
keeps two jobs from saving one comment. The three lengths are in the model: a page of 20 activities
(`Recent`, `Newest`), the 100 messages `getChatById` returns (`ChatPage`), and the last 20 of them that
`agent.ts:94` gives the agent (`Latest(Recent, chat)` in `Prepare`). `GetTask`, `GetActive`, `Insert`, `GetActivities`, `SaveMessages` are
`getTaskExecutorContext`; `GiveUp`, `Yield`, `Execute`, `Prepare`, `Reply`, `Close`, `Fail`
the body of the job and its catch; `PrepareStep` the hook that is called before each
step of the loop; `LateLoopEnds` the loop that outlives its time-out. The unique
constraint on `task_id` is in `Insert`. `execution.by` is history: the job that last set "executing".

`Faults` says what may fail: a call before the `try` (`"context"`), the activity beside the update that sets "executing"
(`"starting"`, line 120), `"tools"`, `"model"`, `"timeout"`, what is saved of the conversation (`"conversation"`), a call of the
closing (`"closing"`), the update of the catch itself (`"catch"`, line 262), and the end of the process (`"restart"`): jobs are
in its memory (`init.ts:147`), and the next process resumes none. After `"starting"`, `"catch"` or `"restart"` the row may say
"executing" for ever; the job is then in `Abandoned`, and the properties say of which job that is true.

Abstractions: `prepareStep`'s refresh is one action (no state enters it: that is `agent_stale_context`); a reply keeps the time of
its message, without the 500 ms that are added for the assistant's row; the copies of one message have one time; of an update and
an activity that run together (`Close`, `Execute`), the update lands, or not, before what the other's failure leads to;
a task without team or system user is left out.

### DagConductor and DagExecution

`run` is the process, `checkpoint` what `load_checkpoint` would return, `torn` whether
the file ends in a partial line, the other variables the locals of `run_dag` and of
its threads. `Start` is everything up to the threads: cached results, in-degrees,
first ready nodes. `Take`, `PollEmpty`, `PollDecide` are the queue; `Finish` the
dispatch with the lens gate, `Report` telemetry and journal, `Merge` the block under the lock.
`SinkRaises` and `AppendRaises` are exceptions outside the `try`, which end the
thread. `Crash` may tear the line being written; the next `Start` may get an edited DAG.
`DagExecution` has one variable, the results, and one action: a node whose
dependencies have results gets one. The refinement maps them to the journal, so that it
speaks about all the processes of one run id together.

### DaemonLifecycle

`daemon[d]` is where process `d` is in `serve()`, `lock` who holds the flock, `pidfile`
the pid in the file (`Nobody` while it is truncated), `socket` the listener the path
leads to, `client[c]` where a client is in `ensure()` or `call()`. Startup is `Acquire`, `AlreadyServing`,
`Truncate`, `WriteOwner`, `Clear`, `Bind`; exit `CheckOwner`, `ExitUnlink`, `Release`. A client
pings, heals a stale socket (`Check`, `Unlink`), probes the lock by taking it
(`Probe`, `ProbeRelease`) or reads the pid (`ReadHolder`), decides, reaps (`Terminate`, `Reaped`), unlinks,
calls, spawns and polls. `Killed`, `Hang`, `Upgrade`, `Idle`, `Launch` are the
environment: a dead process, a blocked event loop, new sources on disk, the idle watchdog, a start by
launchd or from a shell. Daemons in `Legacy` are from before the pidfile: they hold no lock and
unlink without a check.

Abstractions: pids are not reused (an `ensure` that reads the pid of a dead owner
between `acquire` and `write_owner` of its successor finds nobody alive); SIGKILL always
succeeds (`reap` may return "survived"); a poll is long enough for a daemon that is starting (3 s); the
clients of `closing` daemons do not keep it from closing.

### MemoryLedger

One action per transaction. `AddNext` and `AddExplicit` are the first transaction of `decision add`
without and with `--id`: the current row is renamed to `id@time` and its status overwritten with "superseded" (`Closed`; log.py:331-332), the new one takes the
bare id and names what it supersedes (`NewRow`), and a marker goes to the outbox. `EmbedRow`,
`EmbedFails`, `EmbedSkipped` are the second one. `Retire` puts a tombstone on the bare id, which is the
primary key: an add on it fails. `BackfillBegin` reads the index, `BackfillRead` the outbox, in
SQLite's snapshot or after it took the write lock; `BackfillCommit` is its three steps with any subset of
the blobs embedded. `Recall` enqueues what another model embedded. A text stands for the columns that are embedded and for their
blob, a status for what `--status` gives; an add of what the current row says already, in both, does nothing. Lessons are written by the same functions.

### ReadySet

`daemonSet` is the store of the run in the daemon, `mirror` the client's, `reachable` its `daemon_available`.
`PullFast`, `PullAlone`, `PullFallsBack` are `pull` answered, without daemon, and with a call that fails: refused, or carried
out and its answer lost. `InOrder` is the loop that appends nodes in the order of the DAG file. `CompleteFast`, `CompleteAlone`, `CompleteFallsBack` likewise. `DaemonRestarts` forgets the run. The
module maps to `DagExecution` as the conductor does.

### TelemetryDelivery

`caller[r]` is `record_telemetry` of one row: it calls, waits, calls again after a time-out while its
deadline lasts, and writes itself in the end. `Serve` is a request read, buffered and logged in one turn of
the event loop; `FlushDrain` swaps the buffer for an empty one, `FlushEnds` commits or loses the batch; while a batch is
written nothing is served. `Stop` flushes, `Crash` does not.

### EventLog

`AppendEvent` may be repeated for any event; `StoreOpens` takes the next number from the table. `live` is what the
producers of the events have done, applied as they happened; the replay folds the table, whose rows `ReadEvents` puts in
the order of their numbers. Both use the same folds, so that what is checked is which events reach them and in which
order, not the fold of an event. The folds of
tasks (with a re-keyed task) and sessions (with a reset) are modelled.

### VaultQueue

`EnqueueStamp` and `EnqueueInsert` are the two steps of `enqueue`. `Claim`, `Handle`, `MarkDone`, `MarkFailed` are the turns of
the writer's loop; `MarkDoneRaises` and `Dies` its failures; `StartDrainer` takes the lock, which the operating
system frees with the process. The effect of a job is its descriptor: `ingest_repo` returns normally when the orchestrator is missing,
times out or fails (writer.py:206-232), so that "done" says that the descriptor was written, not that anything was fetched.

### CycleCheck

`_check_cycles` alone: one action per node that Kahn's algorithm takes off its queue, in any order. Dependencies on nodes that
do not exist do not count for it. `validate_dag` refuses more: those dangling edges (node_contract.py:318), edges that one side does
not know of, orphan leaves and unordered writers of one path (338-395). So a document that passes this check may still be refused,
and one that passes `validate_dag` passes this check.

### EventBus

`sub[s]` is a `Subscription`: whether `_subscribers` has it, whether it is alive, its queue, its counter of
drops; `since` and `until` are history, the events it was there for. `Publish` is the whole fan-out, which does not await.
`Receive` and `Received` are `receive` on either side of its await, over which it holds the subscription, reaped or
not. `ReapDead` takes any set of subscriptions for idle. The branches of `_enqueue` for a queue that another thread changes
are left out: on one event loop nobody does.

## 3. Runs

| Run | Instance | Shows |
|---|---|---|
| `recurring_schedules` | two regimes: two tasks, two requests, handlers of a task in turn, fair; one task, two requests, edit/edit and fire/link overlap | `SerialScheduleMatchesRow`: when nothing of a task is in progress, its row names its only timer, armed for its own cron. `SerialKeepsRecurring`: a recurring task keeps getting occurrences. `OneChain`, in both: two runs of a task are never both past the stale check |
| `recurring_overlap` | one task, one request, two crons, edit/run and fire/link overlap, a failure or restart, fair | `StoppedTaskDrains`: the chain of a deleted or stopped task ends. `LastCronWins`: in the end nothing of a task runs by another cron than the one its row has |
| `recurring_restart` | a restart; expected violation | after a restart a recurring task gets no more occurrences |
| `recurrence_overflow` | timers of 3 ticks; expected violation | a next date further away than a timer can wait fires at once |
| `agent_overlap` | two triggers, a comment that triggers nothing, an agent that remembers two messages of a page of three, every fault but `"conversation"`, fair | `NoSilentLoss`, `ExecutingHasOwner`, `AnswersItsTrigger`, `RunEnds` |
| `agent_stale_context` | two triggers, no failure; expected violation | a stale context is never refreshed |
| `conductor_resume` | every DAG of three nodes and the diamond, three threads, crashes and exceptions | `ResultsDurable`, `NeverRedispatched`, `DispatchedAfterDeps`, and the refinement `ExecutesDag` |
| `conductor_edited` | five DAGs, edited at a crash, torn lines, fair | `ReturnedComplete`, `RunFinishes` |
| `conductor_torn_line` | a torn line; expected violation | the first result after a torn line is glued to it and lost |
| `daemon_lifecycle` | three daemons, one of them old, two clients, two faults of any kind, fair | `HolderIsNamed`, `LoneEnsureSucceeds`, `ExitSparesOthers`, `EnsureReturns` |
| `ledger_next_id` | two ids, one writer; expected violation | the id that `_next_id` allocates may belong to a tombstone |
| `services` | eight components that share no state, one state space; fair | see below |

The run `services` is eight instances under one roof. `MCServices` composes them with a variable, `focus`, that
names the one that moves; the others keep a fixed initial state. No variable is shared, so the states
are the sum of the eight state spaces, and each property speaks about its own component.

| Component | Instance | Shows |
|---|---|---|
| `RecurrenceClock` | three crons, 8 ticks | `NeverEarly`, `NeverTwice`, `NoneSkipped`, `ArmedWhileRecurring` |
| `MemoryLedger` | one id, one text with two statuses, two models, two writers and a backfill, three writes, one dead letter | `ChainWalkable`: every closed version is superseded by exactly one row. `NoSilentGap`: a decision is in the index or marked. `VersionsKept`: no step loses a version, or anything of one but its status |
| `ReadySet` | the DAGs of four nodes with at most two dependencies each | `SameSequence`: every node served is the one the mirror alone would serve, and is new. `ExecutesPlan`: the refinement. `PlanFinishes` |
| `TelemetryDelivery` | two rows, two attempts, one crash or failed write | `RowsConserved`: no row is lost but by a crash or a failed flush, and none is stored more often than it was sent. `ParityHolds`: the shadow log and the table agree. `AcceptedIsStored` |
| `EventLog` | five events of a task, or of a session; two restarts | `EventLogDense`: numbers without gap or repetition. `ReplayIsLive`: the replay gives the tables the events made, each applied once, in order |
| `VaultQueue` | three jobs, two processes, one crash | `InFlightOwned`: one process past the lock; what is in flight is its, or a dead one's. `EffectOnce`: no descriptor is written twice for a job, and one marked done has its own. `QueuedIsClaimed` |
| `CycleCheck` | every document of three nodes, with edges to a fourth that does not exist | `VerdictExact`: no error exactly when it has no cycle; otherwise the nodes named are those that never can run |
| `EventBus` | a subscriber to everything, one to one kind; queues of two, three events | `BusKeepsItsWord`: a subscription has got, or has queued, or has counted as dropped, each event it was there for, in order, and keeps the freshest |
| all | | `ServicesTypeOK`: each keeps to the values its code stores |

The type invariants of `RecurringTasks`, `AgentExecution`, `DagConductor` and `DaemonLifecycle` are in no run: they are proved
(section 5), for every instance, as is `ServicesTypeOK`.

Each property of a passing run has a mutant beside the definition it changes (a
comment says "Mutant"): a plausible slip in the code that the property refutes.

### Bounds, and why they are enough

- *RecurringTasks*: four or five run ids, recycled when nothing refers to them, so
  that chains have any length; the bound is on runs alive at once (`MaxAlive` limits when a
  request may start, so that an id is always left for it). The hazards are races of two handlers, for which one task
  and two requests suffice; a second task shows that tasks do not disturb each other.
  One fault: each property is about the state one fault leaves.
- *RecurrenceClock*: eight ticks hold two dates of the rare cron, six of the
  frequent one, a change to and fro, and lateness across several dates. A timer can wait for longer than
  there are ticks, so that the overflow does not occur here; `recurrence_overflow` has it.
- *AgentExecution*: two jobs, because the row is shared by pairs; the theorems are for any number. Two messages remembered and a page of three stand for 20 and 100: two comments and
  the prompts and answers of two jobs exceed both. A loop takes any number of steps. `"conversation"` (less is saved) is left out
  for the size of the run; the theorems hold with it.
- *DagConductor*: three nodes give every shape a dependency race needs, the diamond
  adds a join of two branches, and so does the edit of `Apart` to `Rejoined`; three threads are one more than such a race has; two faults
  are a crash and a crash during the resume. The theorems are for any DAG.
- *DaemonLifecycle*: two clients race; one spawn each is always possible (`Room`); two faults
  reach a hung daemon after an upgrade, a killed one beside a launched one, and so on.

- *MemoryLedger*: a key has one chain, so one id shows every order of add, supersede, retire and
  backfill on it; three writes close two versions, so that a chain can fork or break. One text is enough, since no
  property tells two apart; two statuses make versions differ. Two writers and two models are the races there are (an older write that embeds after a newer one, a
  swap between the two transactions). The theorems are for any number of each.
- *ReadySet*: four nodes give the chain, the join and the diamond; the client falls back once, for good.
- *TelemetryDelivery*: two rows share a batch; two attempts are one time-out that races its answer.
- *EventLog*: each type of event that changes a table occurs, in an order producers may deliver, with every
  delivery repeated at will.
- *VaultQueue*: three jobs and two processes; the theorems are for any number.
- *CycleCheck*: cycles of one, two and three nodes, nodes behind a cycle, dangling edges; the theorem is for any document.
- *EventBus*: the third event overflows a queue of two, so that it matters which of the two goes and in which order the rest is received; two subscriptions show that one does not disturb the other.

### Deadlock

Every run has `CHECK_DEADLOCK FALSE`: users, timers and faults are bounded, and a system with no
request, no timer and no node left has stopped rightly. Liveness properties say
where it must not stop.

### Fairness

Weak fairness only, and only on steps the program takes by itself: a handler whose await has
settled is resumed and a timer that is due runs (event loop); a thread that is not
blocked is scheduled; a process runs; the daemon's loop serves and flushes; a conductor that lives pulls, and a node it
runs ends; launchd starts the vault writer again (`launchd/writer.plist.template:11,43`, `RunAtLoad` and
`KeepAlive`). `MCServices` states each with the focus, so that a component out of focus owes nothing, and of several nodes, callers or processes only
that some one goes on. Nothing is assumed of users, failures,
clock ticks, or of which of two racing processes wins.

## 4. What the runs found

| Where | What |
|---|---|
| `jobs/src/init.ts:86` (`recurring_restart`) | Timers live in memory and nothing arms them again; the row keeps its `recurringJobId`, so that no later update repairs it |
| `jobs/src/init.ts:122` (`recurrence_overflow`) | A delay over 24.8 days fires after 1 ms: a monthly task is repeated at once, and again and again |
| `execute-agent-task-job.ts:163` (`agent_stale_context`) | `prepareStep` leaves out `teamId`; the query finds no row, and no step ever refreshes a stale context |
| `conductor/checkpoint.py:65` (`conductor_torn_line`) | A result appended after a torn line is lost, though every node that finished before a crash is said to be durable |
| `.memory/log.py:187` (`ledger_next_id`) | `_next_id` looks at current rows only; after the newest decision is retired its id is allocated again, but the tombstone keeps the primary key: every later `decision add` without `--id` fails |

Known, refuted by TLC on the same modules, without a run of their own:

- `KeepsRecurring` fails with `"edit/run"` (a run that read a row without recurrence clears the link of the run a request armed since,
  create-recurring-task-job.ts:55) and with `"fire/link"` (a run due at once finds the row not yet linked, line 169).
- `OneAgent` (AgentExecution): two agent loops work on one task when two jobs read the row before
  either sets "executing", or when a timed-out loop goes on; schema.ts:1153 says "Only one active execution per task".
- A row may say "executing" for ever: if the update of the catch throws (execute-agent-task-job.ts:262), if the activity beside the
  update of line 121 fails, before the `try`, or if the process ends. Nothing starts such an execution again: each later trigger reads "executing",
  marks it stale and leaves (line 92). `ExecutingHasOwner` and `RunEnds` except those rows (`Abandoned`) and show that there are no others.
- The history of a decision is not lossless, against docs/MEMORY.md:58 and :220 and the docstring at log.py:325: supersession and retirement overwrite the status the
  closed version was given (log.py:331-332), which is one of the columns that are hashed as its payload (log.py:248). `VersionsKept` says that
  nothing else is lost.
- `NeverRedispatched` fails with crash and edit: a cached node whose dependencies changed is dispatched again when the last of
  them is merged (dag.py:463), against dag.py:383 ("NEVER re-dispatched"). With four nodes `DispatchedAfterDeps` fails too: the
  node is taken off the in-degree of its dependents for its cached result and again for the second one, so that one of
  them is dispatched before another dependency is done. In `MCEdited`, d is dispatched before c. What holds all the same is that
  the run ends, with every node (`conductor_edited`, `Complete`).
- `RunFinishes` needs the threads to live: after an exception in the telemetry sink or the journal
  (dag.py:450, outside the `try`) the other threads poll for ever.
- `UnlinkSparesLive` (DaemonLifecycle): a client checks the owner and then unlinks; a daemon that binds in between
  loses its socket (pidfile.py:197 says this can never be). It lives on without one, and is what
  `LoneEnsureSucceeds` shows the next `ensure` to repair.
- Two `ensure` calls at once: the second may pair the old daemon's answer with the new daemon's pid and reap it; a probe that holds the
  lock for an instant may make a starting daemon leave. Both end (`EnsureReturns`), one of them
  perhaps with `DaemonUnavailable`.

- `MemoryLedger`: the index may keep an old version for ever. An older write that embeds late, or a drained dead letter,
  clears the marker of the newer one (log.py:1026, 3973), and a backfill clears a marker if its key is in the index in any version
  (log.py:3934), against docs/MEMORY-LOGGING.md:672 ("Re-embeds any rows that failed or were missed"). For the same
  reason a model swap embeds nothing again, against docs/MEMORY.md:28. What is never lost is the key: that is `NoSilentGap`.

Read in the source, without a property:

- log.py: recall also finds retired and superseded rows, which stay in `vec_memory`.
- telemetry: `client.call` sends a request again that may have been served, so that a row may be stored twice; each delivery gets a fresh
  `event_id` (server.py:329), so that the event log does not see that it is the same. `RowsConserved` allows as many
  copies as requests. A row that violates a NOT NULL constraint fails its whole batch. Rows written directly reach no event log.
- vault: a job whose writer dies stays in flight: `requeue_stale_in_flight` (jobs.py:141) has no caller, and with
  its lease of 300 s it would run twice a handler that may take 900 s.
- event store: `append` checks no payload, so that a replay may raise what the append accepted.
- ready set: a truncated answer raises `JSONDecodeError` out of `pull`, which catches other errors.
- node contract: the docstring (line 311) says that what is left over is on a cycle; nodes behind one are left over too.
- event bus: a subscriber that waits without a timeout is reaped as idle and waits for ever.

## 5. Theorems

All for every value of the constants, under the assumptions the modules name.

| Module | Theorems | Argument |
|---|---|---|
| `RecurringTasks_proofs` | `TypeCorrect`; `AtMostOneChain` (`OneChain`, when requests do not overlap runs); `RowAndTimersAgree` (`ScheduleMatchesRow`, when handlers of a task run in turn and nothing fails); `SerialRegimeAgrees` (`SerialScheduleMatchesRow`, the same beside the other regime, as the run composes them) | `OneChain` is not inductive: what keeps a second run out is the row. `ChainInv` adds that a run past the check is the one its row names, or has armed the one it will name (`ChainedIsLinked`), that every armed run was born of a task (`Born`), and that requests exclude runs. `SerialInv` says, for each step of a request and of a run, which timers the task has at that point; a step is about one task, so that the others keep what they have (`AboutOneTask`) |
| `RecurrenceClock_proofs` | `OccurrencesNeverEarly`, `OccurrencesNeverTwice`, `OccurrencesNoneSkipped`, `RecurringIsArmed`, under `DelaysFit` (every delay fits in a timer); `ClockTypeCorrect`, without | `NextDateFirst`: `NextDate` is the least later date (well-foundedness of the naturals). `ClockInv` says that every date from the armed one on is untouched, and every date between the start of the recurrence and the armed one is done |
| `AgentExecution_proofs` | `TypeCorrect`; `RepliesAnswer` (`AnswersItsTrigger`); `NoCommentLost` (`NoSilentLoss`); `ExecutionOwned` (`ExecutingHasOwner`); for any faults | lemmas on pages say that of any message either it is among the last n of a chat or n newer ones are, and that this stays so while rows are added (`LatestReaches`, `GrownReaches`, `SavedReaches`). `StepMoves` says what any step may do to the fields of a job; the invariant `AgentInv` carries each comment from the job that was woken to the chat to the memory of an agent, and, for a job lost to the unique constraint, to the one that inserted the row |
| `DagConductor_proofs` | `TypeCorrect`; `DurableResults`, `AtMostOnce`, `InOrder`, `Refines` (no torn line, no edit); `Complete` (`ReturnedComplete`, whatever fails) | `ConductorInv` relates the five places a node may be in (done, journaled, held by a thread, queued, waiting) to in-degrees and `remaining`: a node is in one of them, and is queued once, exactly when its last dependency is merged. `CompleteInv` needs less: in-degrees never count too much, a node whose in-degree is down to zero is served, and the last thread to find the queue empty leaves it empty |
| `DaemonLifecycle_proofs` | `TypeCorrect`, `HolderFound` (`HolderIsNamed`), `LateExitSpares` (`ExitSparesOthers`), `LoneEnsure` (`LoneEnsureSucceeds`) | exclusion by the flock: a daemon past `Acquire` holds it until it dies, a probe between two steps only, old daemons never start again; so only the holder writes the pidfile and binds. `Holders` adds what the holder wrote, for each place in `serve()`. `LoneInv` says for each place of an ensure that nothing comes between what it knows: whether what it saw of socket and lock is still so (`Seen`, `Known`), that every daemon but the one it reaps is at rest (`Settled`, `SettledBut`), and that the one it spawned is on its way and meets neither lock nor socket (`Coming`) |
| `Plans_proofs` | `CheckExact` (`VerdictExact`), `ContractTypeCorrect` | `KahnInv`: the counter of a node is the number of dependencies not yet taken; the queue holds the nodes that wait for nothing; what was taken is in no set of nodes that wait for each other. When the queue is empty, what is left is such a set |
| `Plans_proofs` | `SequenceKept` (`SameSequence`), `PlanExecuted` (`ExecutesPlan`, the refinement), `ReadyTypeCorrect` | `ReadyInv`: what was handed out and what the mirror has ready are, together and without repetition, the nodes whose dependencies are finished, and an in-degree counts the others; while the client asks the daemon, the two queues are equal. A node handed out is hence new, and one that completes has had all it waits for |
| `Stores_proofs`, ledger | `ChainHolds` (`ChainWalkable`), `NoGap` (`NoSilentGap`), `HistoryKept` (`VersionsKept`), `LedgerTypeCorrect` | `LedgerInv` adds that no row names a time to come, so that the time of a close is new, and that what a backfill takes for embedded is in the index. `RowStep` says what a write does to the rows, `IndexStep` what every other step may do. Dead letters have bounded numbers, so that there is a last one |
| `Stores_proofs`, vault | `OneWriter` (`InFlightOwned`), `AtMostOnce` (`EffectOnce`) | `VaultInv` adds where the effect shows: none before the claim, none while the handler has not run, one when the process marks. A process past the lock is alone, so a step on its job disturbs nothing else |
| `Stores_proofs`, event log | `LogDense` (`EventLogDense`), `ReplayExact` (`ReplayIsLive`) | `LogInv`: the counter of an open store is the number of its rows. A row's rank is then its number, and an append puts the new event behind those before, so that the replay of the longer log is the replay of the shorter one with the event applied |
| `Stores_proofs`, telemetry | `NoRowDropped` (`RowsConserved`), `ShadowParity` (`ParityHolds`) | `TelemetryInv`: both, with the type; together they are inductive once the requests are known to be finitely many. Each step moves a request, a buffered row or a batch from one place where it counts to another |
| `Stores_proofs`, event bus | `BusKept` (`BusKeepsItsWord`) | `BusInv` says of each subscription that what it got, followed by its queue, is increasing and within the events it was there for, that the drops make up the rest, and that nothing dropped is later than what is queued. `TotalInv`: the counter of the bus is the sum of theirs |
| `Services_proofs` | `SideBySide`, `ServicesTypeCorrect` (`ServicesTypeOK`) | a behaviour of the composition is one of each component, because a step moves the component in focus and leaves the variables of the others; so every theorem above about one of the eight holds in the run `services` as well |

The theorems rest on the assumptions on constants that the modules name, and on nothing else. Those say
what the code gives: a queue size is at least one, a plan is a DAG over finitely many nodes in some order, the
subscribers of a bus are finitely many (`BusConstants`), and so on; `TLC` evaluates each on the runs.

Loops over a sequence or a set (the order of the ready nodes, the replay, the sum of the
drops) are folds, which the community modules define as recursive functions on the subsets of a finite set. The prover
cannot instantiate an induction theorem, so the lemmas at the head of `Plans_proofs` and those that use them look for a least
counterexample instead: the numbers for which such a function does not exist, or is not what is claimed, form a
set of naturals, and a non-empty one has a least element (`LeastOf`). The least one is not zero and its predecessor is
no counterexample, which is the step of the induction.

Model-checked, and proved, is now every invariant and every action property of a passing run, with the refinements. A theorem
holds under a condition where the property needs one: `OneChain` without `"edit/run"`, the row
and the timers in the serial regime and without faults, the dates under `DelaysFit`, the conductor's first four without torn lines and edits. Each condition is also that of the run, and
the runs that expect a violation, or section 4, show what happens without it.

Only model-checked: the liveness properties (`SerialKeepsRecurring`, `StoppedTaskDrains`, `LastCronWins`,
`RunEnds`, `RunFinishes`, `EnsureReturns`, `PlanFinishes`, `AcceptedIsStored`, `QueuedIsClaimed`). They need
fairness and ENABLED, which are beyond the installed prover.

## 6. Plan

Done: the modules above, and a theorem for every invariant and action property of a passing run. Left, in this order:

1. **IndexFresh**, the property of `MemoryLedger` that section 4 says is violated, with the violations that have
   no run of their own.
2. **Edited DAGs**: what of `DispatchedAfterDeps` survives an edit, as an invariant of `DagConductor` to check and to prove.
3. **TelemetryDelivery** with several tables and rows that violate a constraint.

## 7. Not modelled

- *Task mutations* (sequence numbers, labels, subscribers), *Intake and inbox*, *Job runtime* (the current run as one global),
  *Broker files* (worktree registry, `broker_state.json`): each is a read and a write, or a check and an act, with nothing
  between them that guards against a second caller. A model would show that two callers collide, which the source
  shows as well; no property holds that the code could be credited with, and no document promises one. The
  hazards list them at their lines.
- *Recurrence editor*, *capability tokens*, *governance*, *plan validation*, *packets*: functions of one input that keep no
  state, with unit tests over their tables of cases.
- *Worker pool*, *handlers and watchers of the daemon*, *hooks*: one subprocess or one query per call.
- *User interface, e-mail, adapters, routers that are one query*: no state of their own.
- *Language models, tools and coding agents*: environment, any outcome at any time. *Postgres, Redis, SQLite, DuckDB and the file
  system* below the level of one statement, transaction or system call.

By lines, most of the repository is of the last kinds: of its 139,000 lines, the dashboard, the component library, the
site, the routers and the translations are by far the larger part, and the modules map what keeps state that more than one actor
can reach.
