------------------------------ MODULE Scheduler ------------------------------
(***************************************************************************)
(* Scheduled agent runs: one row of `schedules`, its rows of               *)
(* `schedule_runs`, the dispatcher tick, the Celery workers that execute   *)
(* runs, the reconciler's two schedule sweeps and the user's API calls.    *)
(*                                                                         *)
(* Schedules do not interact (every statement is keyed by schedule_id), so *)
(* one row is modelled.  Every action below is one committed transaction,  *)
(* or one step of a worker or request between two transactions.  A run is  *)
(* named by what its unique index (schedule_id, scheduled_for) holds: a    *)
(* cron run by its slot, a manual run (whose scheduled_for is the          *)
(* microsecond of the click) by a number of its own.                       *)
(***************************************************************************)
EXTENDS Integers

CONSTANTS
  Workers,            \* Celery worker processes
  MaxTime,            \* bound: the clock stops here
  MaxManual,          \* bound: number of Run-Now clicks
  NextCron,           \* external: croniter, slot -> the next fire time after it
  EndTimes,           \* the end_at values a user may set; may hold NoTime
  Triggers,           \* the trigger types checked, a subset of TriggerTypes
  Ops,                \* the user operations enabled in this instance
  Faults,             \* the faults enabled in this instance
  MisfireGrace,       \* SCHEDULE_MISFIRE_GRACE, in clock units
  AutopauseFailures   \* SCHEDULE_AUTOPAUSE_FAILURES, 0 switches it off

TriggerTypes == {"once", "recurring"}
UserOps      == {"pause", "resume", "cancel", "delete", "edit", "run_now"}
FaultKinds   == {"lose_enqueue", "crash", "redeliver"}
NoTime       == -1                       \* SQL NULL in a timestamp column
Time         == 0..MaxTime
RunId        == ({"cron"} \X Time) \cup ({"manual"} \X (1..MaxManual))
RunActive    == {"pending", "running"}
RunTerminal  == {"success", "failed", "timeout", "skipped"}
RunStatus    == {"none"} \cup RunActive \cup RunTerminal
SchedStatus  == {"active", "paused", "completed", "cancelled", "deleted"}

ASSUME SchedulerAssumption ==
  /\ MaxTime \in Nat
  /\ MaxManual \in Nat
  /\ MisfireGrace \in Nat
  /\ AutopauseFailures \in Nat
  /\ NextCron \in [Time -> Nat]
  /\ \A t \in Time : NextCron[t] > t
  /\ EndTimes \subseteq (Nat \cup {NoTime})
  /\ Triggers \subseteq TriggerTypes
  /\ Ops \subseteq UserOps
  /\ Faults \subseteq FaultKinds

VARIABLES
  now,       \* wall clock, shared by Postgres and the dispatcher
  sched,     \* the schedules row
  runs,      \* the schedule_runs table: status of every possible run
  outbox,    \* runs committed by a dispatcher or Run-Now, not yet enqueued
  broker,    \* runs with a message waiting in the Celery queue
  wk,        \* per worker: program counter, message held, schedule as read
  patch,     \* the PATCH request in flight between its read and its update
  execs,     \* history: how often the agent was started for each run
  appended   \* history: how often a turn was appended to the conversation

vars == <<now, sched, runs, outbox, broker, wk, patch, execs, appended>>

Idle    == [pc |-> "idle", run |-> <<"cron", 0>>, seen |-> "active"]
NoPatch == [op |-> "none", next |-> NoTime, runAt |-> NoTime]

TypeOK ==
  /\ now \in Time
  /\ sched \in [status : SchedStatus, trigger : TriggerTypes,
                next : Nat \cup {NoTime}, runAt : Nat \cup {NoTime},
                endAt : Nat \cup {NoTime}, fails : Nat]
  /\ runs \in [RunId -> RunStatus]
  /\ outbox \subseteq RunId
  /\ broker \subseteq RunId
  /\ wk \in [Workers -> [pc : {"idle", "refuse", "claim", "running",
                               "append"},
                         run : RunId, seen : SchedStatus]]
  /\ patch \in [op : {"none", "pause", "resume"}, next : Nat \cup {NoTime},
                runAt : Nat \cup {NoTime}]
  /\ execs \in [RunId -> Nat]
  /\ appended \in [RunId -> Nat]

-----------------------------------------------------------------------------
(* Reads of the tables.                                                     *)

Exists == sched.status # "deleted"

\* list_due: an active row whose slot has come and is not past end_at.
Due ==
  /\ sched.status = "active"
  /\ sched.next # NoTime
  /\ sched.next <= now
  /\ sched.endAt = NoTime \/ sched.next <= sched.endAt

\* Mutant: the guard looks for queued runs only.
HasActiveRun_pendingOnly == \E r \in RunId : runs[r] = "pending"

HasActiveRun == \E r \in RunId : runs[r] \in RunActive

\* _compute_next: the next slot, NULL once it would pass end_at or without a cron.
ComputeNext(after) ==
  IF \/ sched.trigger = "once"
     \/ sched.endAt # NoTime /\ NextCron[after] > sched.endAt
    THEN NoTime
    ELSE NextCron[after]

\* Mutant: the grace applies to one-time schedules too.
Misfired_anyTrigger == MisfireGrace > 0 /\ now - sched.next > MisfireGrace

Misfired == /\ sched.trigger = "recurring"
            /\ MisfireGrace > 0
            /\ now - sched.next > MisfireGrace

(* Writes of the tables.                                                    *)

\* INSERT ... ON CONFLICT (schedule_id, scheduled_for) DO NOTHING.
Insert(r, status) ==
  runs' = IF runs[r] = "none" THEN [runs EXCEPT ![r] = status] ELSE runs

\* Mutant: an upsert, which brings back a run deleted with its schedule.
UpdateRun_upsert(r, status) == runs' = [runs EXCEPT ![r] = status]

\* ScheduleRunsRepository.update: unconditional on the row's status.
UpdateRun(r, status) ==
  runs' = IF runs[r] = "none" THEN runs ELSE [runs EXCEPT ![r] = status]

\* What an UPDATE of the schedules row leaves: nothing when it was deleted.
SchedRow(new) == IF Exists THEN new ELSE sched

Bumped == SchedRow([sched EXCEPT !.fails = @ + 1])

\* Mutant: a status the schedules_status_chk constraint does not know.
Advance_expired(next) ==
  sched' = [sched EXCEPT !.next = next,
                         !.status = IF next = NoTime THEN "expired" ELSE @]

Advance(next) ==
  sched' = [sched EXCEPT !.next = next,
                         !.status = IF next = NoTime THEN "completed" ELSE @]

-----------------------------------------------------------------------------
(* Init: what create leaves, for each trigger type and end_at.              *)

Init ==
  /\ now = 0
  /\ \E tr \in Triggers, e \in EndTimes :
       sched = [status |-> "active", trigger |-> tr, next |-> NextCron[0],
                runAt |-> IF tr = "once" THEN NextCron[0] ELSE NoTime,
                endAt |-> IF tr = "once" THEN NoTime ELSE e, fails |-> 0]
  /\ runs = [r \in RunId |-> "none"]
  /\ outbox = {} /\ broker = {}
  /\ wk = [w \in Workers |-> Idle]
  /\ patch = NoPatch
  /\ execs = [r \in RunId |-> 0]
  /\ appended = [r \in RunId |-> 0]

Tick ==
  /\ now < MaxTime
  /\ now' = now + 1
  /\ UNCHANGED <<sched, runs, outbox, broker, wk, patch, execs, appended>>

-----------------------------------------------------------------------------
(* The dispatcher.  The schedules row is locked FOR UPDATE from the select  *)
(* to the commit, so its decision is one atomic step.                       *)

\* A recurring slot found later than the misfire grace is recorded, not run.
SkipMissed ==
  /\ Due /\ Misfired
  /\ Insert(<<"cron", sched.next>>, "skipped")
  /\ Advance(ComputeNext(now))
  /\ UNCHANGED <<now, outbox, broker, wk, patch, execs, appended>>

\* The overlap guard: a run is active, so the slot is skipped.
SkipOverlap ==
  /\ Due /\ ~Misfired /\ HasActiveRun
  /\ Insert(<<"cron", sched.next>>, "skipped")
  /\ sched' = [sched EXCEPT !.next = IF sched.trigger = "recurring"
                                       THEN ComputeNext(@) ELSE NoTime]
  /\ UNCHANGED <<now, outbox, broker, wk, patch, execs, appended>>

\* Mutant: a plain INSERT, and the id is enqueued without looking at the row.
FireSlot_noDedup ==
  /\ Due /\ ~Misfired /\ ~HasActiveRun
  /\ runs' = [runs EXCEPT ![<<"cron", sched.next>>] = "pending"]
  /\ outbox' = outbox \cup {<<"cron", sched.next>>}
  /\ Advance(ComputeNext(sched.next))
  /\ UNCHANGED <<now, broker, wk, patch, execs, appended>>

\* The dedup insert, the advance of next_run_at, and the id kept for enqueue
\* when the insert returned a row.
FireSlot ==
  /\ Due /\ ~Misfired /\ ~HasActiveRun
  /\ LET r == <<"cron", sched.next>> IN
       /\ Insert(r, "pending")
       /\ outbox' = IF runs[r] = "none" THEN outbox \cup {r} ELSE outbox
  /\ IF sched.trigger = "recurring"
       THEN Advance(ComputeNext(sched.next))
       ELSE sched' = [sched EXCEPT !.next = NoTime]
  /\ UNCHANGED <<now, broker, wk, patch, execs, appended>>

\* apply_async after the commit; it may fail, or the process may die first.
Enqueue(r) ==
  /\ r \in outbox
  /\ outbox' = outbox \ {r}
  /\ broker' = broker \cup {r}
  /\ UNCHANGED <<now, sched, runs, wk, patch, execs, appended>>

LoseEnqueue(r) ==
  /\ "lose_enqueue" \in Faults
  /\ r \in outbox
  /\ outbox' = outbox \ {r}
  /\ UNCHANGED <<now, sched, runs, broker, wk, patch, execs, appended>>

-----------------------------------------------------------------------------
(* execute_scheduled_run on a worker.                                       *)

\* A cron run of a schedule that is over is refused; a manual run is not.
Refused(r) == /\ sched.status \in {"cancelled", "completed"}
              /\ r[1] # "manual"

\* Reads the run, then its schedule.
LoadRun(w, r) ==
  /\ wk[w].pc = "idle"
  /\ r \in broker
  /\ broker' = broker \ {r}
  /\ wk' = IF runs[r] # "pending" THEN wk
           ELSE [wk EXCEPT ![w] = [run |-> r, seen |-> sched.status,
                                   pc |-> IF Refused(r) THEN "refuse" ELSE "claim"]]
  /\ UNCHANGED <<now, sched, runs, outbox, patch, execs, appended>>

Return(w) == wk' = [wk EXCEPT ![w] = Idle]

RefuseRun(w) ==
  /\ wk[w].pc = "refuse"
  /\ UpdateRun(wk[w].run, "skipped")
  /\ Return(w)
  /\ UNCHANGED <<now, sched, outbox, broker, patch, execs, appended>>

\* The agent is read after the schedule.  Deleting it deletes the schedule too
\* (foreign key), so it is missing only when the schedule went in between.
FailMissingAgent(w) ==
  /\ wk[w].pc = "claim"
  /\ ~Exists
  /\ UpdateRun(wk[w].run, "failed")
  /\ sched' = Bumped
  /\ Return(w)
  /\ UNCHANGED <<now, outbox, broker, patch, execs, appended>>

\* Mutant: mark_running without its compare-and-set.
ClaimRun_blind(w) ==
  LET r == wk[w].run IN
  /\ wk[w].pc = "claim"
  /\ UpdateRun(r, "running")
  /\ execs' = [execs EXCEPT ![r] = @ + 1]
  /\ wk' = [wk EXCEPT ![w].pc = "running"]
  /\ UNCHANGED <<now, sched, outbox, broker, patch, appended>>

\* mark_running: compare-and-set on status = 'pending'.
ClaimRun(w) ==
  LET r == wk[w].run IN
  /\ wk[w].pc = "claim"
  /\ IF runs[r] = "pending"
       THEN /\ runs' = [runs EXCEPT ![r] = "running"]
            /\ execs' = [execs EXCEPT ![r] = @ + 1]
            /\ wk' = [wk EXCEPT ![w].pc = "running"]
       ELSE Return(w) /\ UNCHANGED <<runs, execs>>
  /\ UNCHANGED <<now, sched, outbox, broker, patch, appended>>

\* Mutant: nobody completes a one-time schedule after its run.
AfterRun_noFlip(w, status) ==
  [sched EXCEPT !.fails = IF status = "success" THEN 0 ELSE @ + 1]

\* The schedules row after a run ended with `status`: the failure counter,
\* the autopause, then the terminal flip of a once-schedule, which tests the
\* status read when the run was loaded.
AfterRun(w, status) ==
  LET counted == IF status = "success" THEN [sched EXCEPT !.fails = 0]
                                       ELSE [sched EXCEPT !.fails = @ + 1]
      pauses  == /\ status # "success"
                 /\ AutopauseFailures > 0
                 /\ counted.fails >= AutopauseFailures
                 /\ sched.trigger = "recurring"
                 /\ sched.status = "active"
      flips   == /\ sched.trigger = "once"
                 /\ wk[w].run[1] # "manual"
                 /\ wk[w].seen = "active"
  IN  CASE flips  -> [counted EXCEPT !.status = "completed", !.next = NoTime]
        [] pauses -> [counted EXCEPT !.status = "paused", !.next = NoTime]
        [] OTHER  -> counted

\* The agent returned, failed or hit the soft time limit: one transaction.
FinishRun(w, status) ==
  /\ wk[w].pc = "running"
  /\ status \in {"success", "failed", "timeout"}
  /\ UpdateRun(wk[w].run, status)
  /\ sched' = SchedRow(AfterRun(w, status))
  /\ wk' = [wk EXCEPT ![w] = IF sched.trigger = "once" /\ status = "success"
                               THEN [@ EXCEPT !.pc = "append"] ELSE Idle]
  /\ UNCHANGED <<now, outbox, broker, patch, execs, appended>>

\* A successful one-time run appends its answer to the conversation.
AppendTurn(w) ==
  /\ wk[w].pc = "append"
  /\ appended' = [appended EXCEPT ![wk[w].run] = @ + 1]
  /\ Return(w)
  /\ UNCHANGED <<now, sched, runs, outbox, broker, patch, execs>>

\* SIGKILL, OOM or the hard time limit: the unacknowledged message returns.
WorkerCrash(w) ==
  /\ "crash" \in Faults
  /\ wk[w].pc # "idle"
  /\ broker' = broker \cup {wk[w].run}
  /\ Return(w)
  /\ UNCHANGED <<now, sched, runs, outbox, patch, execs, appended>>

\* The broker's visibility timeout hands out a message that is still held.
Redeliver(w) ==
  /\ "redeliver" \in Faults
  /\ wk[w].pc # "idle"
  /\ broker' = broker \cup {wk[w].run}
  /\ UNCHANGED <<now, sched, runs, outbox, wk, patch, execs, appended>>

-----------------------------------------------------------------------------
(* The reconciler's sweeps.                                                 *)

\* In seconds, for a SCHEDULE_RUN_TIMEOUT of T seconds: the hard time limit of
\* execute_scheduled_run, and the age at which a running run counts as stuck.
AtLeast(low, x) == IF x < low THEN low ELSE x
HardLimit(T)    == AtLeast(30, T) + 60
StuckAge(T)     == 60 * AtLeast(15, (T \div 60) + 5)

\* Mutant: the sweep leaves the schedule of the run alone.
FlipOnce_forgotten == Bumped

\* _terminal_flip_once_schedule, after bump_failure_count.
FlipOnce ==
  SchedRow(IF sched.trigger = "once" /\ sched.status \notin {"completed", "cancelled"}
             THEN [Bumped EXCEPT !.status = "completed", !.next = NoTime]
             ELSE Bumped)

\* Q6.  The hard time limit has killed the worker of a run this old (theorem
\* StuckAgeExceedsHardLimit), so no worker still executes it.
SweepStuckRunning(r) ==
  /\ runs[r] = "running"
  /\ \A w \in Workers : ~(wk[w].pc = "running" /\ wk[w].run = r)
  /\ UpdateRun(r, "timeout")
  /\ sched' = FlipOnce
  /\ UNCHANGED <<now, outbox, broker, wk, patch, execs, appended>>

\* Q7.  A pending run may be this old because its message was lost or because
\* the queue is long: a worker may yet pick it up.
SweepStuckPending(r) ==
  /\ runs[r] = "pending"
  /\ UpdateRun(r, "failed")
  /\ sched' = FlipOnce
  /\ UNCHANGED <<now, outbox, broker, wk, patch, execs, appended>>

-----------------------------------------------------------------------------
(* The user's operations.  PATCH reads the row without a lock and updates   *)
(* it in a later statement; the others are one statement or hold the lock.  *)

Allowed(op) == op \in Ops /\ Exists

PatchRead(op) ==
  /\ Allowed(op) /\ op \in {"pause", "resume"}
  /\ patch = NoPatch
  /\ sched.status \notin {"cancelled", "completed"}
  /\ \/ /\ op = "pause"
        /\ patch' = [NoPatch EXCEPT !.op = "pause"]
     \/ /\ op = "resume" /\ sched.trigger = "recurring"
        /\ patch' = [NoPatch EXCEPT !.op = "resume", !.next = NextCron[now]]
     \/ /\ op = "resume" /\ sched.trigger = "once"
        /\ \E t \in Time \cup {sched.runAt} :
             /\ t > now        \* a new run_at, or the stored one, in the future
             /\ patch' = [op |-> "resume", next |-> t, runAt |-> t]
  /\ UNCHANGED <<now, sched, runs, outbox, broker, wk, execs, appended>>

PatchWrite ==
  /\ patch # NoPatch
  /\ sched' = SchedRow(
       IF patch.op = "pause"
         THEN [sched EXCEPT !.status = "paused", !.next = NoTime]
         ELSE [sched EXCEPT !.status = "active", !.next = patch.next, !.fails = 0,
                            !.runAt = IF patch.runAt = NoTime THEN @ ELSE patch.runAt])
  /\ patch' = NoPatch
  /\ UNCHANGED <<now, runs, outbox, broker, wk, execs, appended>>

\* The agent tool's soft cancel.
Cancel ==
  /\ Allowed("cancel")
  /\ sched.status \notin {"cancelled", "completed"}
  /\ sched' = [sched EXCEPT !.status = "cancelled", !.next = NoTime]
  /\ UNCHANGED <<now, runs, outbox, broker, wk, patch, execs, appended>>

\* Hard delete; the foreign key cascades to the runs.
Delete ==
  /\ Allowed("delete")
  /\ sched' = [sched EXCEPT !.status = "deleted", !.next = NoTime]
  /\ runs' = [r \in RunId |-> "none"]
  /\ UNCHANGED <<now, outbox, broker, wk, patch, execs, appended>>

\* PUT with a cron or timezone, an end_at, or both.
Edit(newEnd, cronGiven) ==
  /\ Allowed("edit")
  /\ sched' = [sched EXCEPT !.endAt = newEnd,
                            !.next = IF cronGiven /\ sched.trigger = "recurring"
                                       THEN NextCron[now] ELSE @]
  /\ UNCHANGED <<now, runs, outbox, broker, wk, patch, execs, appended>>

\* Run-Now holds the schedules row FOR UPDATE across check and insert.
RunNow(n) ==
  /\ Allowed("run_now")
  /\ sched.status # "cancelled"
  /\ ~HasActiveRun
  /\ runs[<<"manual", n>>] = "none"      \* a fresh microsecond
  /\ Insert(<<"manual", n>>, "pending")
  /\ outbox' = outbox \cup {<<"manual", n>>}
  /\ UNCHANGED <<now, sched, broker, wk, patch, execs, appended>>

-----------------------------------------------------------------------------
Dispatch == SkipMissed \/ SkipOverlap \/ FireSlot

WorkerStep(w) ==
  \/ \E r \in RunId : LoadRun(w, r)
  \/ RefuseRun(w)
  \/ FailMissingAgent(w)
  \/ ClaimRun(w)
  \/ \E s \in {"success", "failed", "timeout"} : FinishRun(w, s)
  \/ AppendTurn(w)

\* Mutant: there is no sweep of pending runs.
Reconcile_runningOnly(r) == SweepStuckRunning(r)

Reconcile(r) == SweepStuckRunning(r) \/ SweepStuckPending(r)

User ==
  \/ \E op \in {"pause", "resume"} : PatchRead(op)
  \/ PatchWrite
  \/ Cancel
  \/ Delete
  \/ \E e \in EndTimes, c \in BOOLEAN : Edit(e, c)
  \/ \E n \in 1..MaxManual : RunNow(n)

Next ==
  \/ Tick
  \/ Dispatch
  \/ \E r \in RunId : Enqueue(r) \/ LoseEnqueue(r)
  \/ \E w \in Workers : WorkerStep(w) \/ WorkerCrash(w) \/ Redeliver(w)
  \/ \E r \in RunId : Reconcile(r)
  \/ User

Spec == Init /\ [][Next]_vars

(* Fairness: RedBeat fires the dispatcher and the reconciler again and      *)
(* again (each tick is a short transaction), and the soft and hard time     *)
(* limits end every agent run.  Nothing is assumed of the broker, of a      *)
(* worker picking up a message, or of the user.                             *)
Fairness ==
  /\ WF_vars(Dispatch)
  /\ \A r \in RunId : WF_vars(Reconcile(r))
  /\ \A w \in Workers : WF_vars(\E s \in {"success", "failed", "timeout"} :
                                  FinishRun(w, s))

FairSpec == Spec /\ Fairness

-----------------------------------------------------------------------------
(* Properties.                                                              *)

\* The overlap guard and Run-Now's row lock: whatever the interleaving of
\* dispatchers, workers, sweeps and clicks, a schedule has at most one run
\* that is pending or running.
OneActiveRun ==
  \A r1, r2 \in RunId :
    runs[r1] \in RunActive /\ runs[r2] \in RunActive => r1 = r2

\* execute_scheduled_run is not retried because a second execution would
\* double the agent's side effects: lost, repeated and late messages, crashes
\* and a resume that re-arms an old slot start the agent of a run at most once.
AgentRunsOnce == \A r \in RunId : execs[r] <= 1

\* A finished run stays finished: no late worker and no redelivered message
\* makes it pending or running again (it may be deleted with its schedule).
FinishedStaysFinished ==
  [][\A r \in RunId : runs[r] \in RunTerminal => runs'[r] \notin RunActive]_vars

\* The overlap guard seen from the workers: two agents of one schedule never
\* execute at the same time.
AgentsNeverOverlap ==
  \A w1, w2 \in Workers :
    wk[w1].pc = "running" /\ wk[w2].pc = "running" => w1 = w2

\* A turn is appended to the originating conversation at most once per run,
\* and only for a run whose agent was started.
TurnAppendedOnce ==
  \A r \in RunId : appended[r] <= 1 /\ (appended[r] = 1 => execs[r] = 1)

\* "the in-flight run will terminal-flip the schedule when it finishes": an
\* active once-schedule without a next slot still has a run that can end it.
OnceNotStranded ==
  sched.trigger = "once" /\ sched.status = "active" /\ sched.next = NoTime
    => HasActiveRun

\* "once-tasks fire late, not vanish": a once-schedule is completed only when
\* its slot was turned into a run that a worker could execute.
OnceCompletedFired ==
  sched.trigger = "once" /\ sched.status = "completed"
    => /\ sched.runAt \in Time
       /\ runs[<<"cron", sched.runAt>>] \notin {"none", "skipped"}

\* A slot up to end_at is part of the schedule: the run the dispatcher recorded
\* for it is given up by a worker only when the user cancelled the schedule.
FiredSlotNotRefused ==
  [][\A r \in RunId :
       runs[r] = "pending" /\ runs'[r] = "skipped" => sched.status = "cancelled"]_vars

\* A run that is pending or running does not stay so: a lost message, a dead
\* worker or a hung agent ends in a terminal status (or the row is deleted).
EveryRunEnds ==
  \A r \in RunId : runs[r] \in RunActive ~> runs[r] \notin RunActive

\* A once-schedule whose slot has come does not stay active: it fires and is
\* completed, or the user paused, cancelled or deleted it.
OnceSettles ==
  Due /\ sched.trigger = "once" ~> sched.status # "active" \/ sched.next > now

-----------------------------------------------------------------------------
(* The promise of the runs table: the runs of a schedule are the jobs of    *)
(* JobQueue, whose results are the terminal statuses.                       *)

Jobs == INSTANCE JobQueue WITH
          Job <- RunId, Result <- RunTerminal,
          open <- Exists, status <- runs, starts <- execs

\* Through the lost, late and repeated messages, the crashes, the sweeps and
\* the unconditional writes of schedule_runs, a client of the runs table sees
\* a plain queue: one unfinished run, each started once, none revived.
ImplementsJobQueue == Jobs!Spec
=============================================================================
