# Verification of OpenScout

TLA+ models of the parts of OpenScout (a fork of DocsGPT: a Flask/ASGI server,
Celery workers, Postgres and Redis) whose correctness rests on the order of steps
taken by several processes, TLC configurations that check them on small
instances, and theorems checked by TLAPS.

## 1. The system

| component | state it keeps | operations | hard behaviour | what makes it correct |
|---|---|---|---|---|
| Scheduler (`api/user/scheduler_dispatcher.py`, `scheduler_worker.py`, `schedules/routes.py`) | rows of `schedules` and `schedule_runs`, Celery messages | dispatcher tick, enqueue, run, sweep, create/edit/pause/resume/cancel/delete/run-now | overlapping runs, lost enqueues, killed workers, redelivery, PATCH racing the tick | one active run; an agent starts once per slot; every run ends; a one-time task fires |
| Task idempotency lease (`api/user/idempotency.py`, `sources/upload.py`) | `task_dedup` rows with owner, lease and attempts | claim, lease, heartbeat, finalize, release, poison guard, sweep | duplicate deliveries, crashes, lease expiry under a live body | one body at a time; finished work is not redone; a poison message stops |
| Message lifecycle (`conversation_service.py`, `repositories/conversations.py`, `repositories/reconciliation.py`) | message rows, `pending_tool_state`, `tool_call_attempts` | reserve, heartbeat, pause, resume, finalize, sweep | a sweep against a slow but live stream, resume twice | a message ends once; a swept message is not overwritten |
| Chat stream journal (`streaming/`, `repositories/message_events.py`) | `message_events` rows, Redis channels | batched append, publish, snapshot and tail replay | publish before or after the snapshot, dropped publish, batch failure | a reader sees each event once, in order, to the terminal one |
| `/v1` idempotency (`api/v1/idempotency.py`) | `task_dedup` rows of requests | claim or replay, finalize, release | two requests with one key, crash before finalize | one body per key; replay is the stored answer |
| Device broker (`devices/broker.py`) | Redis queues, tickets, invocation records | dispatch, poll, chunk, result, cancel | result after timeout, device disconnect | a result reaches only its own invocation |
| Device pairing (`api/devices/pairing.py`) | codes in Redis, `devices` rows | start, approve, redeem, poll | two redeems of one code, expiry | a code yields one device |
| Sandbox manager (`sandbox/manager.py`) | session table, in-use counts | open, attach, exec, close, reap | reap against exec, capacity | no session is closed under a running exec |
| Intelligence sync (`intelligence/sync_service.py`, `repositories/intelligence.py`) | records, chunks, missing counts, cursor of a project | list, store, confirm missing, complete | overlapping syncs, a source or a transaction that fails, a listing that is not complete | the cursor never passes data that was not stored; the index follows the rows |
| Ingest progress (`parser/embedding_pipeline.py`, `ingest_chunk_progress.py`) | chunk counters per source and attempt | init, record chunk, resume, sweep | retry while the old attempt still runs | no chunk is lost or counted twice |
| Guardrail stream (`guardrails/stream.py`) | held text, verdict | feed, check, release, finish | verdict later than text | nothing leaves before its check |
| Wiki pages, artifact versions | version numbers | optimistic update, append | two editors | no lost update |
| User events (`events/publisher.py`, `api/events/routes.py`) | Redis stream, channel and counter of a user, cursor of a tab | publish, connect, replay, deliver, disconnect | publish, subscribe and replay by different clients; limits; an expiring counter | a tab is sent every event in order; the cap of streams holds |
| Workflow engine (`agents/workflows/`) | workflow state, step count | execute node, branch, stop | cycles, failing node | the step limit stops every graph |

How they interact.  An HTTP request or the dispatcher creates a Celery task; the
task claims its `task_dedup` lease, runs an agent or an ingest, writes message
rows and journals its stream; the reconciler, a periodic task, looks at every
table for rows that nobody is working on; browsers follow the journal and the
user event stream.  RedBeat (one lock in Redis) fires the periodic tasks.

Not modelled, and why: LLM providers, parsers, retrievers, vector stores and
speech adapters (third-party protocols, no state of their own); user, team, SCIM
and administration records (one statement per request); the OIDC login (an
external protocol); the agent loop itself (its choices are a remote model's; what
it writes is the message lifecycle); the frontend, extensions and deployment.
`PROJECT.json` lists each of them.

## 2. The project

| module | models | composed with or proved in |
|---|---|---|
| `Scheduler` | dispatcher, workers, sweeps and API of one schedule | `MCScheduler`; implements `JobQueue`; `SchedulerProofs` |
| `JobQueue` | abstract: what the runs of a schedule promise | instantiated by `Scheduler` |
| `TaskLease` | one key of `task_dedup`: HTTP claim, deliveries, sweep | `MCReconciler`; implements `BoundedLock`; `TaskLeaseProofs` |
| `BoundedLock` | abstract: what a lease promises the body of a task | instantiated by `TaskLease` |
| `MessageLifecycle` | the turns of one conversation, their streams, tools, pauses and sweeps | `MCMessageLifecycle`, `MCReconciler`; implements `AnswerLedger`; `MessageLifecycleProofs` |
| `AnswerLedger` | abstract: what the tables of a conversation promise | instantiated by `MessageLifecycle` |
| `StreamJournal` | writer, Redis channel, replaying reader and client of one message | `MCStreamJournal`; implements `ReplayLog`; `StreamJournalProofs` |
| `ReplayLog` | abstract: what the journal promises a client that reconnects | instantiated by `StreamJournal` |
| `SandboxManager` | registry of sessions and the kernels of the gateway | `MCServices`; `ServiceProofs` |
| `DeviceBroker` | one device and its calls | `MCServices`; `ServiceProofs` |
| `DevicePairing` | one pairing code | `MCServices`; `ServiceProofs` |
| `IngestProgress` | the checkpoint of one source | `MCServices`; `ContentProofs` |
| `WikiPages` | one page, its edits and its index | `MCServices`; `ContentProofs` |
| `CompletionKey` | one `/v1` idempotency key | `MCServices`; `ServiceProofs` |
| `IntelligenceSync` | the GitHub sync of one project | `MCServices`; `SyncProofs` |
| `UserEvents` | the notifications of one user | `MCServices`; `ServiceProofs` |
| `GuardrailStream` | the output guard of one answer | `MCServices`; `GuardrailProofs` |

The rows of these tables are keyed (by schedule, task key, message, code, source,
page, user), every statement names its key, and none of the modelled components
calls into the transaction of another.  So each module models one key, and what
composes is the sequence of steps inside it.  Where two components do share a row
they are in one module: the reconciler's sweeps are actions of `Scheduler`,
`TaskLease`, `MessageLifecycle` and `IngestProgress`, and the pause of a turn, its
tool calls and its message are all in `MessageLifecycle`.

An MC module whose instances share nothing (`MCReconciler`, `MCServices`) lets an
initial state pick one of them and keeps the others as they are, so one run checks
their sum and not their product.

Four components have an abstract specification of what they promise, each about a
page, without the machinery that keeps the promise.  The refinement mapping is
the `INSTANCE ... WITH` at the end of the component's module; that the component
implements it is a property of a run and a theorem.

What is left to do: the incremental re-ingest with its retries.

## 3. Scheduler

### State and actions

`Scheduler` models one row of `schedules`: every statement of the code is keyed
by `schedule_id`, so schedules do not interact.  Each action is one committed
transaction, or one step of a worker or request between two of them.

| variable | code |
|---|---|
| `now` | `datetime.now(utc)`; one clock for the processes |
| `sched` | `status`, `trigger_type`, `next_run_at`, `run_at`, `end_at`, `consecutive_failure_count`; status "deleted" stands for no row |
| `runs` | `schedule_runs.status` of every possible run; "none" stands for no row |
| `outbox` | ids in a local list of the dispatcher (or of Run-Now) after the commit |
| `broker` | messages in the Celery queue |
| `wk` | a worker: where it is in `execute_scheduled_run_body`, its run, and the schedule status it read |
| `patch` | a PATCH request between its read and its update |
| `execs`, `appended` | history, read by properties only |

A cron run is named by its slot, because the unique index
`(schedule_id, scheduled_for)` allows one row per slot; a manual run has the
microsecond of the click, here a number of its own.

The dispatcher holds the schedules row with `FOR UPDATE SKIP LOCKED` from the
select to the commit, and Run-Now holds it from the overlap test to the insert,
so `SkipMissed`, `SkipOverlap`, `FireSlot` and `RunNow` are single steps.
`Enqueue` and `LoseEnqueue` come after the commit.  A worker takes `LoadRun`,
then `RefuseRun`, `FailMissingAgent` or `ClaimRun`, then `FinishRun` and
`AppendTurn`: between any two of them others may act and the worker may crash.
`PatchRead` and `PatchWrite` are two steps because the PATCH handler reads
without a lock.  So does PUT (`schedules/routes.py:392`), but what its update writes
depends on the row only through its trigger, which never changes, and on the cron; so
`Edit` is one step, in which the clock does not tick.

Abstractions: the run's output, errors, tokens and events are left out; the
quotas and the validation of crons are left out; `croniter` is the constant
`NextCron`; the ages in the two sweeps are dropped.  A pending run may be swept at
any time, which includes a message that is only late.  A running run is swept only
when no worker executes it: theorem `StuckAgeExceedsHardLimit` shows that the
sweep's age is larger than the hard time limit of the task for every setting.
A failed final transaction of a run is the same as `WorkerCrash`.  `LoadRun` reads
run and schedule in one step.  Two PATCH requests at once are not modelled.

### Runs

The instances have two workers, a clock of two or three units with a slot in each,
one Run-Now and `end_at` in {none, 2}, for one-time and recurring schedules.  That is
enough for two slots in flight with a manual run between them, a misfire (grace 1),
the last slot before `end_at`, an autopause (two failures) and two deliveries of one
message.

| run | question | answer |
|---|---|---|
| `Scheduler_safety` | under Run-Now, pause, resume, delete, lost enqueues, crashes and redelivery: can two runs be active, an agent start twice for a run, a turn be appended twice, or a finished run come back? does the runs table implement `JobQueue`? | no; yes |
| `Scheduler_live` | without Run-Now, resume and redelivery: can two agents work at once, a one-time schedule be stranded, or completed without having fired? does every run end, and every due one-time schedule settle? | no; yes |
| `Scheduler_overlap_strands_once` | `OnceNotStranded` with Run-Now | a one-time slot that comes due during a manual run is lost |
| `Scheduler_last_slot_refused` | is a slot up to `end_at` executed? | the last one never is: its own transaction completes the schedule and the worker refuses it |

`JobQueue` is what the rest of the system relies on: a queue of jobs of which at
most one is unfinished, where a job is submitted once and never revived.  Its
variables are mapped to the row of the schedule (`open`), to `runs` (`status`) and to
`execs` (`starts`); dispatcher, broker, workers, the late verdicts of sweeps and the
unconditional writes are steps of the queue or stutters.

The last two are violations that TLC finds and `PROJECT.json` explains under
"findings", with the comment of the code each contradicts.

Faults and operations are constants (`Ops`, `Faults`), so each run names those it
enables.  What the second run leaves out would break its properties, and enabling it
in the configuration shows how: with Run-Now, a manual run swept as stuck
completes a one-time schedule early (`_terminal_flip_once_schedule` does not look
at `trigger_source`); with cancel and redelivery together, `RefuseRun`, which updates
the run unconditionally, overwrites the status of a run that is executing with
"skipped"; a cancel while a one-time run executes is overwritten by "completed".
The hazards of `PROJECT.json` name the lines.  Deadlock is not checked: with the
clock at its bound and no work left the system stops.

Each property of a passing run has a mutant in `PROJECT.json`: a plausible bug
(a dropped compare-and-set, a sweep that is missing, a grace applied to the wrong
trigger) that makes TLC find the property violated.

### Fairness

`FairSpec` assumes weak fairness of the dispatcher tick, of the sweep of each run,
and of the end of each agent run.  RedBeat fires the first two again and again and
each is one short transaction; the soft and hard time limits of the task
(`tasks.py:476-486`) end the third.  Nothing is assumed of the broker, of a worker
picking up a message, or of the user: the liveness properties hold although every
message may be lost.

### Proofs

`SchedulerProofs` proves for every number of workers, every bound, cron and
`end_at`, and every set of operations and faults:

* `TypeCorrect`: `TypeOK` always holds.
* `OneActiveRunHolds`.  `OneActiveRun` with `TypeOK` is inductive: only `FireSlot`
  and `RunNow` create an active run and both test `HasActiveRun` under the row
  lock; every other write moves a run that is already active, or ends it.
* `AgentRunsOnceHolds`.  `AgentRunsOnce` is not inductive: a pending run whose agent
  had started would be claimed again.  `RunsOnceInv` adds that a run that is absent or
  pending was never executed.  A hard delete makes runs absent again; the
  invariant therefore speaks of absent runs only while the schedule exists, and
  nothing creates a run for a schedule that does not.
* `FinishedStaysFinishedHolds`: the action property from the type invariant.
* `JobQueueImplemented`: `Spec => Jobs!Spec`.  Each action is one step of the queue
  under the mapping, or leaves the three mapped variables alone.  The type
  invariant suffices, as the overlap test of `FireSlot` and `RunNow` is `Submit`'s guard.
* `TurnAppendedOnceHolds`, under all operations and faults.  `AppendInv`: the worker
  that executes a run, or is about to append its turn, is the only one that ever did, and
  has appended nothing.  It stands on `RunsOnceInv`: a second claim would be a second
  execution.
* `AgentsNeverOverlapHolds`, for all operations and every fault but redelivery.  The
  overlap test of the dispatcher looks at rows and not at workers, so the proof has to
  tie them together: `HeldOnce` says that a run is named by at most one of the outbox,
  the queue and the workers, and `RunningRow` that the row of an executing worker is
  running.  Two executing workers then have one active run and so are one.  With a
  message delivered twice the second worker may refuse the run that the first
  executes and free the schedule for another; so the hypothesis is needed.
* `OnceNotStrandedHolds` and `OnceCompletedFiredHolds`, without redelivery and with cancel,
  delete and edit as operations; the run and the notes above show why the others
  break them.  `OnceInv` says that the row of a one-time schedule has at most the run of
  its slot, which is inserted by the step that takes the slot from the schedule
  (`OnceRow`), and that a worker refuses that run only when the schedule is over
  (`OnceWorkers`); so whatever ends the run completes the schedule.  The induction uses
  `OneActiveRun` of the state before.
* `StuckAgeExceedsHardLimit`: arithmetic about the settings, used above.

Only model-checked: the liveness properties, which TLAPS does not reach.

## 4. Task idempotency lease

### State and actions

`TaskLease` models one key of `task_dedup`: every statement is keyed by
`idempotency_key`.  An action is one statement on the row (each is a transaction of
its own) with what the wrapper `with_idempotency` does with its result.

| variable | code |
|---|---|
| `row` | `status`, `attempt_count`, `lease_owner_id`, `lease_expires_at`; `stale` when `created_at` is 24 hours old |
| `dv` | a slot per message in flight: where its execution is, `request.retries`, the countdown left |
| `http` | an upload request between its claim and its enqueue |

The clock is not a variable.  `row.lease` is the time left in heartbeat intervals of
30 s, so `LeaseTTL` = 2 and `Grace` = 2 are the code's 60 s; older than `Grace` makes
no difference, and `NoLease` is NULL.  The owner is a fresh uuid per execution: here
the slot, and `Gone` once that execution is over without having cleared it, so that
a later execution in the same slot is never mistaken for it.  `attempt_count` is
counted up to one more than the maximum.

| action | code |
|---|---|
| `HttpClaim`, `HttpEnqueue`, `HttpReject`, `HttpKill` | an upload: `claim_task`, `apply_async`, `_release_claim`, death between the two |
| `Click` | the endpoints that send a task under a key without claiming it (re-ingest, convert to wiki, graph extraction, keys made from `source_id`) |
| `Start`, `TryClaim`, `Defer`, `Poison` | the wrapper up to the body: lookup, claim, retry with countdown, poison guard |
| `Succeed`, `Fail`, `Heartbeat` | the body's end, and the beat of its thread |
| `Crash`, `Duplicate`, `Outage` | worker lost, visibility timeout, Postgres away |
| `Tick`, `Sweep`, `Expire`, `Cleanup` | time, reconciler Q5, 24 hours, cleanup task |

A deferral and an autoretry share Celery's counter, each with its own limit.
`Tick` waits for a heartbeat that is due and for the two statements of the poison
path, unless the fault "stall" is enabled.

Abstractions: results, the poison hooks (they publish events) and `webhook_dedup`
(one upsert) are left out; an enqueue either happens or is a `HttpReject` before it,
so a publish whose outcome the request cannot tell is not modelled; a body that
returns None (its completed row does not answer the lookup) is not modelled.

### Runs

The run `Reconciler` picks one of four sides; three are keys of this module and the
fourth is the turn of section 6.

| side or run | instance | question | answer |
|---|---|---|---|
| `Reconciler`, race | 3 messages; click, crash, kill, duplicate, error; limits 3/1/4 | do two bodies run, is a success lost, is a live lease taken? (`OneBodyRuns`, `SuccessRecorded`, `LiveLeaseNotStolen`) does the lease implement `BoundedLock` (`ImplementsLock`)? | no; yes |
| `Reconciler`, stall | 2 messages; all operations, nine faults; limits 2/1/3 | does a late write change a first outcome, or take a live lease from its body? (`StalledStaysLate`) | no |
| `Reconciler`, alone | 1 message; upload, crash; the code's limits 5/3/10 | can a pending key be left with nothing to end it (`LonePendingIsHandled`)? does the message end (`LoneMessageEnds`)? | no; yes |
| `TaskLease_abandoned` | 1 message; upload, error; 5/3/10 | the first of these, when bodies fail | after the last retry the key stays pending for 24 hours |

The limits are `MAX_TASK_ATTEMPTS`/`max_retries`/`LEASE_RETRY_MAX`.  The scaled ones
keep the order of the code's: more attempts than autoretries plus one in the race,
and deferrals beyond autoretries.  With 3 messages there is one running, one
claiming and one deferred at once; poison and sweep are reached.

`BoundedLock` says what a task may rely on: one body at a time, at most
`MaxAttempts` of them, none once the key is completed or failed, and a failure only
when the attempts are used up.  Its `holders` are the slots whose body runs, its
`grants` the row's attempts up to the limit, its `verdict` the row's final
status.  Messages, deferrals, owners, heartbeats, the clock and the HTTP claim are
stutters.

`OneBodyRuns`, `ImplementsLock` and `SuccessRecorded` are checked with clicks and
without stalls.  With a stall two bodies may run, which the code accepts
("the damage from a brief overlap window is unavoidable",
`repositories/idempotency.py:233-234`).  With uploads TLC breaks them as well, in
ways the hazards name: `_release_claim` of a refused upload deletes the
pending row even when an old message has leased it, so a second body starts; and a late
poison write, which does not check the owner, fails a key that a new upload has just
claimed, so that its success is not recorded.  `PendingIsHandled` and `MessageEnds` are
checked with one message, `LonePendingIsHandled` with the death of workers (`crash`) as
the only fault: with a duplicate deferred ten times while the first copy
works, the last copies may all be dropped on a dead owner's lease; and a
client that uploads again after each poisoned attempt resets the attempts.

A click within 24 hours of a completed re-ingest is answered from the cached row
and never runs, since the key `reingest-source:<owner>:<id>` does not change with the
source (`sources/routes.py:494`); that is `Start` of this model and no property.  The
same kind of key is checked for wiki pages in section 7.

The comment of `LEASE_RETRY_MAX` says "10 x 60s = 5 min"; it is 10 minutes.
Deadlock is not checked: with nothing dispatched and the row at rest there
may be nothing left to do.

### Fairness

`FairSpec` assumes weak fairness of time, of the sweep, of the wrapper's own
statements (a worker is free to take the next message), of heartbeats, and of the
end of a body: it returns, raises or takes its worker down.  Nothing in the code
bounds a body, so that one is an assumption about the tasks.

### Proofs

`TaskLeaseProofs` holds for any number of messages and any limits.

* Under all operations and faults: `TypeCorrect`; `FirstOutcomeKeptHolds`, as every
  write tests the status it replaces; `LiveLeaseNotStolenHolds`, as a claim needs an
  expired lease and a release needs its owner.
* `OneBodyRunsHolds`, `ImplementsLockHolds` and `SuccessRecordedHolds` assume
  `LeaseOnly`: clicks with crashes, kills, duplicates and errors, that is the runs
  above without what they are known to fail with.  `OneBodyRuns` is not inductive:
  `LeaseInv` adds that a running body owns the row, that the row is pending with its
  attempts within the limit, and that its lease is live.  Preserving it across `Tick`
  is the reason for heartbeats; across `Sweep` it is the reason for the expired
  lease in the sweep's condition; across `TryClaim` on a failed row it needs the
  third conjunct, that a failed row has used up its attempts.
  `ImplementsLockHolds` is the refinement.  Under `LeaseInv` a claim that gets the
  lease finds no body at work and a row that is not completed: it is a `Grant`, or a
  stutter when the attempts are used up (that message goes on to `Poison`).  `Poison` and
  `Sweep` are `GiveUp` because a claim beyond the limit, or a lease long expired, excludes
  a body.
* `PendingIsHandledHolds` assumes one message (uploads and clicks alike), worker deaths
  and stalls only, and limits as in the code, `MaxAttempts` no larger than
  `LeaseRetryMax`.  The danger is a message that is deferred until its retries are
  used up while the lease it waits for belongs to nobody.  `LoneInv` says that this
  cannot be: each wait outlasts the lease it began with, so a message is deferred at most
  once more than the row was claimed (`Paced`), and the poison guard comes first.
  `LonePendingIsHandled` of the run is this property on the side with one message.

Only model-checked: `MessageEnds`.  The type invariant is a theorem and in no run.

## 5. Chat stream journal

### State and actions

`StreamJournal` models one message: the table and the channel are keyed by
`message_id`, and readers do not write, so one message and one client suffice.

| variable | code |
|---|---|
| `st[p]` | stream `p` (0 the first POST, 1 its continuation): place in `complete_stream` (`pc`), `sequence_no`, the writer's `_buffer` and `_parent_missing`, the flush under way (`io`, `batch`, `retry`), the frames it still has to publish |
| `wire[p]` | frames yielded to the POST |
| `journal` | `message_events`: number to event |
| `row` | status of the `conversation_messages` row; "gone" when it was deleted |
| `saved` | a `pending_tool_state` that can be claimed |
| `cl` | the client (`mode`, `cursor`, reconnects) and the coroutine that serves it (`subscribed`, `loaded`, `inbox`) |
| `left` | the faults still allowed |
| `seen`, `lost`, `overlap`, `st[p].dropped` | history, read by properties only |

An event is its stream, its place there and whether it is terminal; payloads are
left out.  A flush runs in the generator's thread, so the generator waits for it
(`Ready`), and an event whose `record` flushes is on the wire only when the flush
has returned (`Held`).  `flush` is one statement, then one publish at a time;
after a collision it is one INSERT at a time, each with a lookup and a retry that
others may come between.  `Snapshot` reads the rows and hands them over in one step:
nothing else touches the lines in between, and a connection that drops among them
is `SnapshotCut`.  The 100 ms of the batch interval are a choice in `Emit`.

`with_sse_keepalive` drains the generator after its client has gone, so a lost
connection (`LiveDrops`) does not stop the stream and `GeneratorExit` is not raised.
The client follows `conversationHandlers.ts`, with two reconnects instead of one:
other clients of the endpoint may try again.  A message pauses at most once.
`Raise` always fails the row; the code logs a finalize that fails there too
(`base.py:1477-1481`) and leaves the row pending to the reconciler of section 6.

Faults (`Faults`, at most `MaxFaults` of them in a behaviour): the process dies,
the agent yields an error and goes on, the generator raises, a publish is lost, a
statement fails (batch, fallback, snapshot, paused state), Redis refuses or breaks a
subscription, a living stream looks stale, the message row is deleted, a client
resumes before the first stream has written its last batch.  `ResumeUnseeded`, a
failed lookup of the seed, is not counted: only together with another fault does it
meet free numbers.

### Runs

| run | instance | question | answer |
|---|---|---|---|
| `StreamJournal_replay` | one agent event per stream (so 4 or 3 events with what the route adds), batches of 2, two reconnects, any one fault | does the journal implement `ReplayLog` (`ImplementsReplayLog`)? does a reader see a frame without a row, reconnect past a row it was not given, lose an event to a number that is taken, hear of an end before the row is finished, or wait for ever? | yes; no |
| `StreamJournal_early_end` | two agent events, batches of 3, one reconnect, no fault | does a client that was told the end have all that was journaled? | no: the watchdog can end it before the last flush |

With four events and batches of two a stream has a full batch, a partial one and one
flushed by time; two reconnects let a cursor from a tail be used for a snapshot.

`ReplayLog` is the endpoint as the client sees it: a log to which rows are
only added, and a client that follows a stream until it loses it (`Leave`).  From then on
it is given every row beyond its cursor up to some row (`Replay`), or one row beyond it
(`Tail`), so each once and in their order, and nothing after a terminal one.  Its log
is what was ever committed; the rows that go with a deleted message are read by nobody any
more, and stay in it.  Batches, renumbering, publishes, inboxes, the dedup
floor and the faults are `Write`s and stutters.  It lets a `Tail` skip rows: that it does
not, but for what a fault took, is `CursorPassesNothing`.

`CursorPassesNothing` has three exceptions, each a loss the code accepts or does not
handle, and each is needed: without it TLC finds a counterexample.  A publish that is
lost while later ones arrive leaves a hole the cursor has passed.  A batch that was
never written leaves numbers the client knows and the continuation uses again.  Two
streams that write at once may publish in either order.  The `end` of a first stream
and an agent's `error` event close a reader although the message goes on; the
properties about ends (`EndAfterFinalize`, `ReaderEnds`) promise nothing else.

`JournalKeepsOrder` holds because a collision moves an event behind the latest row
and so behind its predecessors; it would fail after a dropped batch followed by an
unseeded continuation, whose events fill the hole, and is stated without that.

Deadlock is not checked: a finished stream and a client at rest have nothing to do.

### Fairness

`FairSpec` assumes weak fairness of each generator, of its flushes and of the
reader's loop: threads and a coroutine that run until they return, with polls and
statements that time out.  Nothing is assumed of the client, of the user who resumes,
or of faults.

### Proofs

`StreamJournalProofs` holds for every batch size, every number of events and
reconnects, and any number of faults of every kind.

* `TypeCorrect`: `TypeOK` always holds (the runs do not list it).  Three facts beyond the
  types carry it: a
  flush has a non-empty batch (else the head of the batch that falls back to single
  rows is undefined), a non-empty journal has a last row (else `Latest` is), and the
  limit on connections.
* `FrameHasRowHolds`.  `FrameHasRow` is not inductive: between the commit and the
  publish a frame waits in the writer, so `JournalInv` says of these frames too that
  they are committed (`StreamOK`).  The numbers in a buffer and in a batch go up, so
  the bulk INSERT gives each frame the row with its own event (`WithCommits`); and
  no step changes or removes a row that is there (`Kept`), so what was committed
  when it was published still is when a reader takes it.
* `ImplementsReplayLogHolds`, the refinement.  `Snapshot` and `SnapshotCut` are
  `Replay`s, as they read above the cursor, and `TailFrame` is a `Tail` because it tests
  it (`Fresh`) and because a frame in the inbox still is a row of the log (`JournalInv`).
  No step takes back what was sent (`Grows`): a frame that is held while its flush runs
  is not sent yet (`OnWire`).  That a continuation begins with an empty connection, so
  that its start sends nothing, is `WireTold` of `CursorInv`.
* `EndAfterFinalizeHolds`.  An `end` reaches the client from its POST, from a frame, from
  the snapshot or from the watchdog, and waits in a buffer, a batch, the journal or the
  inbox before that.  `EndInv` names all these places: an `end` in any of them, or a
  generator that is past its finalize, means that the row is no longer open or that the
  stream has put its pause on the wire.
* `JournalKeepsOrderHolds`.  `OrderInv`: as long as no event was given up and the message
  is there, the journal has no gaps (`Placement`), and of every living stream what
  is not yet written is the rest of its wire, with consecutive numbers of which the
  first is at most the end of the journal (`Holds`), while the journal has all that came
  before, in order, and nothing else of that stream (`Wrote`).  A number that is free is
  then the next one, and a number that is taken is moved behind the last row; both put
  the event behind its predecessors.  Without gaplessness a stale number could be free in
  the middle, which is why a batch that was given up, and the rows that go with a deleted
  message, are excepted.
* `CursorPassesNothingHolds`.  What a reader is given depends on the whole way of an
  event, so `CursorInv` has a part for each stretch of it.  The numbers of a POST's
  events are consecutive from its client's base (`Numbered`).  A number still to be
  written lies behind all rows, or belongs to the continuation and is taken by a row or
  by an event that the first stream has sent (`OpenFrom`).  Frames wait in line in rising order
  but for the excused ones (`LineTold`).  A tailing reader still gets every row beyond
  its cursor, or the row was lost on the way (`TailTold`); up to the cursor it was given
  each row, and the numbers beyond all rows it was given from a wire (`CursorTold`).
  The parts after `Numbered` hold only while the message exists and one stream writes
  (`Single`): the excuses of the property are the cases in which a part breaks.

Only model-checked: `ReaderEnds`, which needs fairness.

## 6. Message lifecycle

### State and actions

`MessageLifecycle` models one conversation: its rows are keyed by message, but a
truncation removes several of them and `pending_tool_state` has one row for all.

| variable | code |
|---|---|
| `msg` | `conversation_messages`: status, the kind of its error, the `reconcile_attempts` of the sweep, `retry` (a resume raised and may be tried again), `cleared` (the approval was revoked) |
| `pts` | the `pending_tool_state` row: pending or claimed, its message, its age |
| `tool` | `tool_call_attempts`, one call per message |
| `stream` | a generator with its heartbeat ticker |
| `retiring` | the state the janitor has deleted and not yet failed the message of |
| `resumes` | resume requests so far |
| `silent`, `lost`, `taken` | history, read by properties only |

| action | code |
|---|---|
| `Ask` | `save_user_question`: truncate from an edited turn, reserve the row, start |
| `Resume`, `ResumeRefused` | the claim of a paused state, with a stream or with a request that ends before one starts |
| `Heartbeat`, `TickerCeiling` | the ticker, and its end |
| `ToolStart`, `ToolReturn`, `ToolRaise` | the journal of tool calls around a call |
| `Pause`, `PauseUnsaved` | the paused state is saved, or not |
| `FinalizeAnswer`, `FinalizeEmpty`, `DropState`, `Raise`, `FinalizeError`, `Abandon`, `Crash` | the ends of a stream |
| `SweepMessage`, `SweepTool` | reconciler Q1 and Q2, Q3 |
| `Janitor`, `Retire`, `JanitorCrash` | the expired paused state, and its message |

The clock is not a variable: `RowAges` (5 min without a heartbeat), `ToolAges` (5 and
15 min), `ClaimAges` (10 min) and `StateExpires` (30 min) set a flag of their row, at any
time.  Status "open" stands for `pending` and `streaming`: no statement here tells them
apart.  A ticker may stop at any time, which covers a database that refuses its
heartbeats.  Left out: a `release_claim` that raises, titles, stateless pauses,
and `GeneratorExit`, which a disconnect does not raise (section 5).  The first of these
(`base.py:1443-1448` logs the error) leaves a failed row that is not marked as one to try
again beside a claim that stands: a further way, beyond those that
`LostAnswerExplained` names, in which the answer of a later resume is refused.  The stamp
of a first chunk that comes after the ticker's ceiling is left out as well; it could
only keep a row from being swept.

### Runs

| run | instance | question | answer |
|---|---|---|---|
| `MessageLifecycle` | 2 turns, one with a tool; 2 streams, 2 resumes; two sweeps fail a row; crash, failed save, failed delete | is a row swept that is only slow, an answer refused without a reason, a turn continued by two streams? do the tables implement `AnswerLedger` (`ImplementsLedger`)? | no; yes |
| `Reconciler`, turn | 1 turn, same faults | does every reserved answer end (`EveryTurnSettles`)? does every claim on a paused turn (`ClaimReturns`)? | yes |

Two turns let an edit remove a row under its stream and a paused state outlive its
message; two streams and two resumes let a claim be taken from a stream that is alive.
The streams are symmetric in the first run, which has no liveness property.

`AnswerLedger` is what a reader of the conversation relies on: turns are opened in
order, an edit removes the turns from its own on, an answer ends once, a failed one may
still be completed unless its approval was withdrawn, and a tool call that ended
stays as it is and is confirmed only by the write that ends its message.  It is mapped to the
statuses of the rows and of their calls and to the `cleared` marks.  Streams, heartbeats,
claims, pauses and the ages are stutters; the late finalize of a stream, of a second
resume or of the janitor is a `Settle` or nothing.

`ClaimReturns` is about `ResumeRefused` and `Crash`: a claim that has no stream is
released by nobody but the janitor, and while it stands no request can resume the turn.

`LostAnswerExplained` and `OneContinuation` name their exceptions.  One is a
disagreement between the ages: a claim counts as abandoned after 10 minutes while its
stream may still run, and the writes that take it (`release` by the sweep, the
`DELETE` at the end of another stream) name no claim.  `taken` marks exactly these.

### Fairness

`FairSpec` assumes weak fairness of the sweeps, the janitor and its second step, the
ages and the ticker's ceiling: beat runs the reconciler every 30 s and the janitor
every 60 s.  Nothing is assumed of streams, tools and users: they may hang for ever.
A janitor that dies between its two steps leaves the row to the reconciler.

### Proofs

`MessageLifecycleProofs` holds for any number of turns, streams, resumes and sweeps
and all faults: `TypeCorrect` (the type invariant is in no run),
`SweptOnlyWhenSilentHolds`, `OneContinuationHolds`, `LostAnswerExplainedHolds` and
`ImplementsLedgerHolds`.  The invariant `LifecycleInv` adds to the
types:

* `Assigned` and `Reserved`: a stream at work has a message, and that message exists.
* `RowsTold`: the columns of a row agree with its status, and its counter is no
  larger than the number of silent sweeps.
* `ClaimHeld`: the stream that continues a turn holds the claim on it, unless it was
  taken.  `OneContinuation` follows, because there is one row to hold.
* `FreshAlone`: the stream that reserved a row is the only one on it.
* `FailuresTold` and `LostTold`: what a failed row and a refused answer say about how
  they came about.

The refinement of the ledger needs the first two: every write of a stream hits a
message of the conversation (`Assigned`), and a row may be reclaimed only when its
approval was not withdrawn (`WritableTold`, from `RowsTold`, which says that a row whose
approval was withdrawn is not marked as one to try again).

Only model-checked: `EveryTurnSettles` and `ClaimReturns`.

## 7. Services

Nine services that share no state.  `MCServices` picks one in the initial state
(`UserEvents`, `IntelligenceSync` and `WikiPages` in two parts) and checks `AllTypes` and one promise of each.
The constants are in `Services.cfg`; the members of `{x, y}` are interchangeable.  The
variables of the services that do not run keep their first values, so the `VIEW`, the
service and its own variables, tells the same states apart and is faster to compare.

| property | instance |
|---|---|
| `SandboxSafe` | 3 threads, 2 sessions, a registry of 1, 2 kernels |
| `DeviceSafe` | 1 call, 2 connections, 2 chunks |
| `PairingSafe` | 3 redeems, 2 name tries |
| `IngestSafe` | 2 tasks, 2 workers, 2 chunks in batches of 1 or 2, both kinds of store |
| `WikiSafe` | 2 editors, 2 texts; 2 versions with their tasks, or 3 of which no task is sent |
| `RunsOnce` | 3 requests, each of which may retry |
| `SyncSafe` | 1 record of any kind with 2 revisions; syncs one at a time with every fault, or 2 at once with every fault but a failed listing |
| `EventsSafe` | the stream of one tab with 3 events, a backlog of 2, replays of 1; or the seats of 2 tabs under a cap of 1 |
| `GuardSafe` | answers of 5 characters in chunks of 1 or 2, window 2, ceiling 3, all 32 configurations |

Each promise names its exceptions as history variables that the model sets where the code
falls short of it.  They are as narrow as TLC allows: without one of them it finds a
counterexample, told below.  Nothing is assumed fair, as nothing is promised to
end; deadlock is not checked.

### SandboxManager

Threads of one process open, use, close and reap sessions under a lock, and make
the slow calls of the gateway outside it.  The promise: the cap holds, code that runs
keeps its kernel, and no kernel is left without an owner.  `crossed` marks the
kernels for which this fails: one that an idempotent open handed to a second owner; one
that was closed by its session id although a newer session has that id; one declared
dead by a user while others run code in it; and one that a user runs in without being
counted for it.  That happens because `_enter` counts the user under the lock and
`_get_kernel` looks up the kernel of the session id later, without it.  In between another
user may have invalidated the session and somebody opened it anew, so that the
count went with the old entry: the busy-session guard of `close` and `_reap_locked`
(`sandbox/manager.py:288`, `:400`) does not see the user, and a close, a reap
or an eviction deletes the kernel under its code.  Or the kernel found is one that an open
still under way has made and not bound, which deletes it if its slot is gone by then.
A file operation that times out deletes the kernel like an `exec` does but leaves the entry
of its session; users then find no kernel until the entry is closed or reaped.
The LRU order of victims is open, `kernels.pop` and the DELETE that follows are one
step, `attach` (never called) and the quarantine of kernels that could not be deleted
are left out.

### DeviceBroker

One device and the calls to it, through the Redis commands of `devices/broker.py`:
the hash, the command list, the ticket and the output stream of an invocation; the SSE
handlers of its connections, which a new connection replaces; the drain of the caller
with its deadline.  Every method logs an error of Redis and goes on, and each action has
the outcomes of that: an `HSET` and an `RPUSH` of which the first, both or none took
effect before the error, and an undo that fails too (`Send`, `UndoSend`); a read that
ends the drain (`DrainFails`); a hash that reads as absent (`Consult`, `CheckReaped`,
`Post`); a clean-up that stops half way (`DeleteState`, `Unqueue`); a popped envelope that
is lost with the answer of `BLPOP`; and a post of which the chunk or the mark is lost
(`PostFails`).  `submit_output` does not tell the device of the last one
(`session.py:223`), so its program goes on, and the chunk is gone.

The promise: a call that ends in time returned every chunk that was put on the
stream, and a command runs once and not after its call is over.  Two exceptions.  `cut`
marks a call whose `XREAD` raised: `drain_output` returns (`broker.py:483-485`) like at
the end of the stream, and `_collect_result`, which then finds completed=1, reports "done"
with chunks missing.  `loose` marks commands that were not taken back when their call
gave them up: a handler had them in its hands, or Redis failed the delete of the hash
(`:297-302`, `:538`), so that the handler still finds the invocation and delivers it.

Assumed: a command that raises takes effect at most once.  A process that has no Redis
client at all sends and pops nothing and is left out.  Commands that no other process can tell apart are one
step.  So are the `LLEN`, `GET` and `SET` of a poll: two polls at once may each set a
ticket, of which the later one is valid; the other connection is refused and polls again.

### DevicePairing

One code: two keys with a TTL, the Lua claim, the transaction that creates the device
under a name that may be taken, the report, the release and the owner's cancel.  A
commit that succeeds and still raises is left out.  The
promise: a code pairs at most one device, and a dead code stays dead.
`revived` marks the codes that a failed redeem handed back after they were
cancelled or had expired; `_release_pairing` then writes a record without an expiry.

### IngestProgress

The checkpoint row of one source, and tasks that embed its chunks into a store that
commits each batch or into faiss files, die, and are delivered again.  A faiss save
replaces `index.faiss` and then `index.json` (`faiss.py:342-356`); the backend replaces a
file atomically, but the worker may die between two.  The promise: a
task that succeeds leaves its chunks in the index and nothing else, with a mapping that
belongs to it, and the source is
not shown as failed.  `adrift` marks what breaks it: two deliveries at work on one
source; an `init_progress` that failed, after which the rows of the same attempt are
resumed though the index was started anew; a faiss seed recorded before the first save;
and a death between the files of a save.

The last one is not what the docstring of `_save_to_storage` says (`faiss.py:345-348`), that an
older sidecar "stays consistent because the ids and row order are preserved".  That is
so while nobody appends.  The retry loads both files, and `_append` adds its rows behind
those of the index but numbers them from the length of the mapping (`:206-213`), so
that each later chunk is found under the vector of another; it saves the two, and the
task reports success.  `sidecar` = "skewed" stands for such a pair, and for one that is
about to be made whole.

`lapsed` marks a sweep that hit a task at work.  A chunk stored twice counts
once (so a save that was retried is not told from one that was not), attempts have the
same chunk list, `index.pkl`, which is written last and read only when there
is no `index.json`, and the incremental re-ingest are left out.

### WikiPages

One path: versioned writes of the agent's tool and of people, deletes, and the re-embed
tasks.  The promise: a checked write replaces only the text that its editor had read, and
the index holds the page once edits and tasks have come to rest.  The exceptions: a page
deleted meanwhile, whose versions start again; and `outdated`, a task that was answered by its
idempotency key, was lost or given up, or ran beside another.  The first is a flaw of
the key, which the docstring of `_reembed` says "guards each edit independently"
(`agents/tools/wiki.py:204-209`): it is the hash of the text, so that an edit, its undo
and the same edit again within a day send a task that is answered from the first, and
the index keeps the text of the undo.  A delete sends the key of the text it deletes: a
page deleted within a day of its last edit stays in the index.  `WikiSafe` excuses both
and so does not catch them; they are what TLC shows without the exclusion.
`DeletePage` takes the lookup and the delete of the page, two statements, as one: a write
between them would go with the page, and the task carry the key of the text before.  Rename, conversion and directories are left out.

### CompletionKey

One `Idempotency-Key` of `/v1/chat/completions`.  The promise: one agent at a time,
and one billed answer while the row is kept.  `stolen` marks a claim dropped under a
request at work: after 300 s, or by `release`, which is not scoped to its owner; and an
end that could not be saved.

### IntelligenceSync

`run_incremental` of one project: four listings since the cursor,
each followed by a transaction that also writes the vector index, the confirmation of
what a listing did not show, and the cursor.  Syncs may overlap, GitHub changes
meanwhile, and a listing, a transaction or the worker may fail.  The promise: the index follows the
rows, and the cursor passes no update that is not stored.  `torn` marks the rows whose
chunks were changed by a transaction that rolled back (the store commits for itself;
`get_records_for_retrieval` filters what has no row).  `missed` marks what a capped
listing or a file that failed to load left out, as the cursor moves on all
the same, and what an overlapping sync overwrote with an older revision.

Run `IntelligenceSync_windowed` checks `PresentStaysActive` and shows, without any fault,
that an issue nobody touches is taken out of the index by the second and third sync: the listings
of issues and releases are windowed, and what is not in the window counts as
missing.  The design says otherwise
(`docs/superpowers/specs/2026-09-14-openscout-ai-design.md:164`).

Assumed: the stamps of GitHub are not older than the worker's clock, and the end of a
window is open.  Left out: records of comments, the status of runs and project (a
transaction that fails for good leaves the run "running"), edits of a release, which no
listing shows again, and stores that save a whole file.

### UserEvents

The backlog and channel of one user, the counter of connections, and the stream of one
tab: subscribe, probe, replay, live frames, each with the cursor the browser keeps.  The
promise: the cursor passes no event that was not sent, a stream at rest has sent everything, none
twice, and the cap of streams holds.  The exceptions: `slips`, events kept from the tab by
a failed publish, a failed replay, a trim between the probe and the read, or publishers that
append in one order and publish in another; `cut`, events a full replay left out;
`lapsedSeats`, a counter that expired an hour after the last connect with
streams open, after which it is negative and the cap is exceeded.  A tab without a cursor
starts with live events, and the promise is about what comes after: a tab that comes
back without a cursor, because it was never given an event or was told to drop it, is
promised nothing of what it missed in between.  "None twice" is said of one stream: after a reconnect an event may come again.

Run `UserEvents_behind` checks `ReplaysCatchUp` and shows, without any fault, that a tab
further behind than one replay loses the rest: the first live event moves its cursor past
them.  The comment of the route and the runbook (`docs/runbooks/sse-notifications.md:178-182`)
say that the next connection resumes there.

The reader's seat and its stream are checked in two instances whose state spaces add: with one
tab the counter is exact, with two tabs nothing is published.

### GuardrailStream

`feed` and `flush` over characters: a letter, a terminator (which may be inside a word,
as in an address), a blank, and "=" for a name with the sign that assigns to it.  The
detector matches whole words by one pattern of the four kinds that `checks/patterns.py` has:
"short" ones, that fit the window; those known by their "prefix" however long they get;
the "value" behind a name; and those "closed" by their end.  The judge passes or blocks
whole segments.  The promise: no character of a match that the guard can see to its end
before it has to let go of its front goes out clear; an answer that was not blocked goes
out to its end; and what is held back is bounded.

`unscanned` marks a check that failed under `fail_open`.  Two more exceptions need no
fault, and the docstring of `_safe_release` (`stream.py:264-270`), which pulls the release
back "so no masked span is cut in half", foresees neither:

* `GENERIC_SECRET` reports its value only (`checks/patterns.py:64-67`, `:132-140`).  The
  span begins behind the sign, so the name may be released and the value held; what is held
  is scanned again without the name, matches nothing, and goes out clear.  `severed` notes the names
  that went out first.
* A pattern that needs its end is no match until that has come.  An `EMAIL`, a `JWT`
  or a link longer than the window, and a `PRIVATE_KEY` block longer than the 8192 characters that its
  check declares (the pattern adds its two lines to them), lose their front before.

Not promised: that the chunks do not change what is masked.  A cut in front of the
rest of a word lets a pattern that begins at a word boundary match there,
which it does not in the whole answer.  Left out: matches that overlap (for which
`_safe_release` has its loop), so one pattern at a time; the opening line of a `PRIVATE_KEY` reported
alone; the mode `monitor_only`.  A replacement is a mark per character, whatever its
length.

### Proofs

* `ServiceProofs`:
  * `PairingSafeHolds`, for any number of redeems and retries.  `PairingInv` says that one
    request owns the code and, because the record is not pending while it does, nobody
    else can claim it; and that a dead code with a record that is not revived was
    reported by a request whose device exists.
  * `RunsOnceHolds`, for any number of requests.  `KeyHeld`: unless the claim was stolen, a
    request at work owns the pending row, and whoever has answered is about to save
    that or has saved it.
  * `DeviceSafeHolds`, for any number of calls, connections and chunks.  `DeviceInv`
    follows one command through the places it may be in, the list and the
    hands of a connection: it is in at most one (`OneEnvelope`), and in none before it
    is sent or after it has run (`SentOnce`).  What a connection may deliver belongs to a
    living call or is marked (`HeldTold`), because a call that gave its command up and is
    not marked has no hash, and nothing brings back the hash of a command that never ran
    (`RunTold`).  What the stream of a living call has is what the device has put on it, and a call
    that found its end without an error has read all of it (`StreamTold`, `CallTold`).
  * `SandboxSafeHolds`, for any threads, sessions and kernels and any cap.  `SandboxInv`:
    a session has at most one running kernel, the one the gateway knows
    (`KernelsTold`); a kernel that did not cross has one holder, the thread that is about to
    bind or close it or the session it is bound to, and only users of that session run
    in it (`HeldOnce`); the users of a bound session, from `_enter` on, are what its counter says
    (`HoldsCounted`), so a session with a count of 0 is popped with nobody in its kernel;
    and the kernel of every session has somebody who will close or bind it
    (`OwnersTold`).  Without the count or the single holder an eviction could not
    know that nobody runs in the kernel it takes.
  * `EventsSafeHolds`, for any events and tabs and any backlog, replay budget and cap.
    `EventsInv` splits the events at the cursor and at the floor, the last event of the
    replay: those behind the cursor were told (`BehindTold`), those up to the floor were
    told or are lines still to send (`FloorTold`), those beyond were told, are not
    published yet or wait in the connection (`AheadTold`).  Lines and messages go up and
    beyond what was heard (`LinesTold`, `InboxTold`, `HeardOnce`), so none is
    sent twice.  `SeatsInv` counts the requests that hold a seat.
* `ContentProofs`:
  * `WikiSafeHolds`, for any number of editors, texts and versions.  A version names one
    text while the page lives (`VersionsTold`, `TextsTold`), so a checked write replaces
    what its editor read; and unless `outdated`, a page whose index is behind has a task
    that will embed its present text (`IndexDue`), with one task at work (`OneEmbeds`).
  * `IngestSafeHolds`, for any number of tasks, workers, chunks and batch sizes and both
    kinds of store.  `IngestInv`: unless `adrift` one task is at work on the source, and what it
    has embedded, what the index holds and what the row counts agree, chunk by chunk, at
    each place in the embed loop where the task may die (`Told`, `RowTold`); and no faiss
    index stands beside the mapping of another save (`Paired`) but while one is being
    written or the first one is due.
* `SyncProofs`: `SyncSafeHolds`, for any number of records, syncs and revisions and any
  faults.  `Ordered` keeps times and revisions in their order, `MissingOnce` the counter,
  and `Covered` is the strengthening of the cursor's promise: what changed since a
  sync at work began to list is stored, in its batch, or still to be listed.
* `GuardrailProofs`: `GuardSafeHolds`, for any window, segment, ceiling and chunks.
  `Uncut` is the reason: the release point lies inside no promised match of what was
  fed, nor of any continuation of it, because it is a window away from the end.  So the matches that reach into what is held lie in it whole
  (`HeldIsRest`), where the next scan finds them: all but a value whose name is out, and that is
  noted (`Told`).  `Segmented` bounds what a judge holds back.

Only model-checked: `AllTypes`, whose bounds are those of the instance.  The types without
them are parts of the invariants above.

## 8. What is proved and what is not

A theorem holds for every value of the constants under the named ASSUME of its module,
which TLC evaluates on its instances.  Liveness under fairness and ENABLED are beyond
TLAPS and are checked by TLC only, as is anything that would need induction over a
recursive definition; the modules declare no recursive operator, and the few folds (`Max`) are
reached through facts about greatest elements.

Every property of a passing run has a mutant in `PROJECT.json`, a plausible bug of the
code that violates it; the mutants `..._something` stand beside the definitions they
change.

## 9. Not modelled

* The workflow engine: a sequential interpreter with a step limit, whose state nobody else
  reads.  The response cache, quotas and session denylist: single keys and counters.
* `webhook_dedup` and artifact versions: one statement each, atomic in Postgres.
* The incremental re-ingest: it edits an index in place and its outcome depends on the
  parser's chunks; a result cached under its key is told in section 4.
* Stateless `/v1` pauses, which keep no message row.
* Providers, parsers, retrievers, stores, speech, the record-keeping APIs and the
  frontend: they transform data or are one statement per request, and make up most of the
  lines of the repository.  A state machine of them would restate the code.

Hazards that are listed in `PROJECT.json` without a property say why: the label of a
cancelled one-time schedule is overwritten by a late flip; a refused upload deletes a row
that an older message has leased (section 4); the key of a re-embed is answered from an
earlier edit (section 7).  Others are parts of a
property's exception: a lost publish and a batch lost with its process
(`CursorPassesNothing`), the snapshot of a paused message (`EndAfterFinalize`), and the
age of the stuck-run sweep, which is a theorem (`StuckAgeExceedsHardLimit`).
