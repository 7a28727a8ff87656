------------------------------ MODULE TaskLease ------------------------------
(***************************************************************************)
(* One key of `task_dedup`: the idempotency lease around a Celery task, the *)
(* HTTP request that claims the key and enqueues the task, the deliveries   *)
(* of its message, and the reconciler's sweep of abandoned rows.            *)
(*                                                                         *)
(* Every statement of the code is keyed by idempotency_key, so keys do not  *)
(* interact.  An action is one statement on the row (each commits by        *)
(* itself), with the worker's reaction to its result.  The clock moves in   *)
(* heartbeat intervals and is not a variable: what the statements compare   *)
(* is the time left on the lease.  The owner, a fresh uuid per execution,   *)
(* is the slot of the delivery; when that execution is over without having  *)
(* cleared it, the row's owner becomes Gone.                                *)
(***************************************************************************)
EXTENDS Integers

CONSTANTS
  Deliveries,         \* slots for messages in flight
  Nobody, Gone,       \* owners: NULL, and a uuid that no execution has any more
  MaxAttempts,        \* MAX_TASK_ATTEMPTS
  MaxRetries,         \* DURABLE_TASK max_retries
  LeaseRetryMax,      \* LEASE_RETRY_MAX
  LeaseTTL,           \* LEASE_TTL_SECONDS, in heartbeat intervals
  Grace,              \* lease_grace_seconds, in heartbeat intervals
  Ops,                \* the ways to dispatch enabled in this instance
  Faults              \* the faults enabled in this instance

DispatchOps == {"upload", "click"}
FaultKinds  == {"crash", "kill", "duplicate", "error", "stall", "outage", "expire",
                "reject", "http_kill"}

ASSUME TaskLeaseAssumption ==
  /\ MaxAttempts \in Nat \ {0}
  /\ MaxRetries \in Nat
  /\ LeaseRetryMax \in Nat
  /\ LeaseTTL \in Nat /\ LeaseTTL > 1       \* a heartbeat comes before the end
  /\ Grace \in Nat
  /\ Nobody \notin Deliveries /\ Gone \notin Deliveries /\ Nobody # Gone
  /\ Ops \subseteq DispatchOps
  /\ Faults \subseteq FaultKinds

VARIABLES
  row,      \* the task_dedup row
  dv,       \* per slot: where the execution is, request.retries, countdown left
  http      \* the upload request: "idle", or "claimed" and about to enqueue

vars == <<row, dv, http>>

NoLease  == LeaseTTL + 1                 \* SQL NULL in lease_expires_at
Expired  == -(Grace + 1)                 \* older than this does not matter
Attempts == 0..(MaxAttempts + 1)         \* counted up to "more than the maximum"
Statuses == {"absent", "pending", "completed", "failed"}
NoRow    == [status |-> "absent", attempts |-> 0, owner |-> Nobody,
             lease |-> NoLease, stale |-> FALSE]
Free     == [pc |-> "free", retries |-> 0, wait |-> 0]

TypeOK ==
  /\ row \in [status : Statuses, attempts : Attempts,
              owner : Deliveries \cup {Nobody, Gone},
              lease : Expired..NoLease, stale : BOOLEAN]
  /\ dv \in [Deliveries -> [pc : {"free", "queued", "claim", "running", "poison"},
                            retries : 0..(LeaseRetryMax + MaxRetries),
                            wait : 0..LeaseTTL]]
  /\ http \in {"idle", "claimed"}

Busy(d)    == dv[d].pc # "free"
AtWork(d)  == dv[d].pc \in {"running", "poison"}
Live       == row.lease > 0 /\ row.lease # NoLease

Init ==
  /\ row = NoRow
  /\ dv = [d \in Deliveries |-> Free]
  /\ http = "idle"

-----------------------------------------------------------------------------
(* Statements on the row.                                                   *)

\* Mutant: the row is leased whatever its lease says.
LeaseFree_always == row.status # "completed"

\* Mutant: a completed row can be leased.
LeaseFree_completed == row.lease = NoLease \/ row.lease <= 0

\* The condition of try_claim_lease's upsert.
LeaseFree == /\ row.status # "completed"
             /\ row.lease = NoLease \/ row.lease <= 0

Leased(d) ==
  [row EXCEPT !.status   = IF @ = "absent" THEN "pending" ELSE @,
              !.attempts = IF @ > MaxAttempts THEN @ ELSE @ + 1,
              !.owner    = d,
              !.lease    = LeaseTTL]

\* What an execution that is over leaves of its owner_id.
Orphaned(r, d) == IF r.owner = d THEN [r EXCEPT !.owner = Gone] ELSE r

\* Mutant: the terminal write does not look at the status.
Finalized_blind(d, status) ==
  Orphaned(IF row.status = "absent" THEN row
           ELSE [row EXCEPT !.status = status, !.owner = Nobody, !.lease = NoLease], d)

\* finalize_task: whoever holds the lease, but only a pending row.
Finalized(d, status) ==
  Orphaned(IF row.status # "pending" THEN row
           ELSE [row EXCEPT !.status = status, !.owner = Nobody, !.lease = NoLease], d)

\* Mutant: the lease is released by whoever fails.
Released_anyOwner(d) ==
  IF row.status = "pending"
    THEN [row EXCEPT !.owner = Nobody, !.lease = NoLease] ELSE Orphaned(row, d)

\* release_lease: the owner's only.
Released(d) ==
  Orphaned(IF row.status = "pending" /\ row.owner = d
             THEN [row EXCEPT !.owner = Nobody, !.lease = NoLease] ELSE row, d)

-----------------------------------------------------------------------------
(* The HTTP side.                                                           *)

\* claim_task of an upload: a new row, or a failed or outdated one taken over.
\* The lease columns of a row taken over stay as they are.
HttpClaim ==
  /\ "upload" \in Ops
  /\ http = "idle"
  /\ row.status \in {"absent", "failed"} \/ row.stale
  /\ row' = [row EXCEPT !.status = "pending", !.attempts = 0, !.stale = FALSE]
  /\ http' = "claimed"
  /\ UNCHANGED dv

\* The file is saved and the task sent.
HttpEnqueue(d) ==
  /\ http = "claimed" /\ ~Busy(d)
  /\ dv' = [dv EXCEPT ![d] = [Free EXCEPT !.pc = "queued"]]
  /\ http' = "idle"
  /\ UNCHANGED row

\* The upload is refused or fails after its claim: _release_claim.
HttpReject ==
  /\ "reject" \in Faults
  /\ http = "claimed"
  /\ row' = IF row.status = "pending" THEN NoRow ELSE row
  /\ http' = "idle"
  /\ UNCHANGED dv

\* The web process dies between its claim and the enqueue.
HttpKill ==
  /\ "http_kill" \in Faults
  /\ http = "claimed"
  /\ http' = "idle"
  /\ UNCHANGED <<row, dv>>

\* The endpoints that send a task under a key of their own without a claim:
\* re-ingest, convert to wiki, and any dispatch keyed by its source_id.
Click(d) ==
  /\ "click" \in Ops
  /\ ~Busy(d)
  /\ dv' = [dv EXCEPT ![d] = [Free EXCEPT !.pc = "queued"]]
  /\ UNCHANGED <<row, http>>

-----------------------------------------------------------------------------
(* with_idempotency on a worker.                                            *)

Leave(d, next) == dv' = [dv EXCEPT ![d] = next]

\* Mutant: a deferred message comes back at once.
Deferred_atOnce(d) ==
  IF dv[d].retries < LeaseRetryMax
    THEN [pc |-> "queued", retries |-> dv[d].retries + 1, wait |-> 0]
    ELSE Free

\* self.retry(countdown=LEASE_TTL_SECONDS, max_retries=LEASE_RETRY_MAX).
Deferred(d) ==
  IF dv[d].retries < LeaseRetryMax
    THEN [pc |-> "queued", retries |-> dv[d].retries + 1, wait |-> LeaseTTL]
    ELSE Free

\* autoretry_for: the same counter, the task's own limit, a random backoff
\* that may be zero.  Some errors are not retried.
Retried(d, fatal) ==
  IF ~fatal /\ dv[d].retries < MaxRetries
    THEN [pc |-> "queued", retries |-> dv[d].retries + 1, wait |-> 0]
    ELSE Free

\* A worker takes the message; _lookup_completed answers it from the row.
Start(d) ==
  /\ dv[d].pc = "queued" /\ dv[d].wait = 0
  /\ Leave(d, IF row.status = "completed" /\ ~row.stale
                THEN Free ELSE [dv[d] EXCEPT !.pc = "claim"])
  /\ UNCHANGED <<row, http>>

\* Mutant: no poison guard.
TryClaim_noGuard(d) ==
  /\ dv[d].pc = "claim" /\ LeaseFree
  /\ row' = Leased(d)
  /\ Leave(d, [dv[d] EXCEPT !.pc = "running"])
  /\ UNCHANGED http

\* _try_claim_lease, and the poison guard on the attempt it returns.
TryClaim(d) ==
  /\ dv[d].pc = "claim" /\ LeaseFree
  /\ row' = Leased(d)
  /\ Leave(d, [dv[d] EXCEPT !.pc = IF row'.attempts > MaxAttempts
                                     THEN "poison" ELSE "running"])
  /\ UNCHANGED http

Defer(d) ==
  /\ dv[d].pc = "claim" /\ ~LeaseFree
  /\ Leave(d, Deferred(d))
  /\ UNCHANGED <<row, http>>

Poison(d) ==
  /\ dv[d].pc = "poison"
  /\ row' = Finalized(d, "failed")
  /\ Leave(d, Free)
  /\ UNCHANGED http

\* The body returned: finalize 'completed'.
Succeed(d) ==
  /\ dv[d].pc = "running"
  /\ row' = Finalized(d, "completed")
  /\ Leave(d, Free)
  /\ UNCHANGED http

\* The body raised: the lease is released, then Celery's autoretry decides.
Fail(d) ==
  /\ "error" \in Faults
  /\ dv[d].pc = "running"
  /\ row' = Released(d)
  /\ \E fatal \in BOOLEAN : Leave(d, Retried(d, fatal))
  /\ UNCHANGED http

\* refresh_lease: the owner's, on a pending row.
CanBeat(d) == dv[d].pc = "running" /\ row.owner = d /\ row.status = "pending"

\* One beat of the lease heartbeat thread.
Heartbeat(d) ==
  /\ CanBeat(d)
  /\ row' = [row EXCEPT !.lease = LeaseTTL]
  /\ UNCHANGED <<dv, http>>

-----------------------------------------------------------------------------
(* Faults.                                                                  *)

\* The worker dies before it acknowledges: of its body ("crash": OOM), or at
\* any moment ("kill").  The message is delivered again.
Crash(d) ==
  /\ \/ "crash" \in Faults /\ dv[d].pc = "running"
     \/ "kill" \in Faults /\ dv[d].pc \in {"claim", "running", "poison"}
  /\ row' = Orphaned(row, d)
  /\ Leave(d, [dv[d] EXCEPT !.pc = "queued"])
  /\ UNCHANGED http

\* The visibility timeout delivers a message that is still held.
Duplicate(d, e) ==
  /\ "duplicate" \in Faults
  /\ Busy(d) /\ ~Busy(e)
  /\ Leave(e, [dv[d] EXCEPT !.pc = "queued", !.wait = 0])
  /\ UNCHANGED <<row, http>>

\* Postgres is away: the lookup raises, the claim counts as attempt 1, and the
\* writes of finalize and release are dropped.
Outage(d) ==
  /\ "outage" \in Faults
  /\ UNCHANGED http
  /\ \/ /\ dv[d].pc = "queued" /\ dv[d].wait = 0
        /\ Leave(d, Retried(d, FALSE))
        /\ UNCHANGED row
     \/ /\ dv[d].pc = "claim"
        /\ Leave(d, [dv[d] EXCEPT !.pc = "running"])
        /\ UNCHANGED row
     \/ /\ AtWork(d)
        /\ row' = Orphaned(row, d)
        /\ Leave(d, Free)
     \/ /\ dv[d].pc = "running" /\ "error" \in Faults
        /\ row' = Orphaned(row, d)
        /\ \E fatal \in BOOLEAN : Leave(d, Retried(d, fatal))

-----------------------------------------------------------------------------
(* Time and housekeeping.                                                   *)

\* Unless workers may stall, a heartbeat that can renew the lease comes before
\* its end, and the poison path, two statements in a row, takes less than a lease.
OnTime ==
  "stall" \in Faults \/
  \A d \in Deliveries :
    row.owner = d /\ (dv[d].pc = "poison" \/ CanBeat(d)) => row.lease > 1

Tick ==
  /\ OnTime
  /\ row' = [row EXCEPT !.lease = IF @ \in {Expired, NoLease} THEN @ ELSE @ - 1]
  /\ dv' = [d \in Deliveries |->
              [dv[d] EXCEPT !.wait = IF @ = 0 THEN 0 ELSE @ - 1]]
  /\ UNCHANGED http

\* Mutant: the sweep looks at the attempts only.
Abandoned_leased == row.status = "pending" /\ row.attempts >= MaxAttempts

\* Q5: find_stuck_idempotency_pending and mark_idempotency_pending_failed.
Abandoned == /\ row.status = "pending"
             /\ row.lease # NoLease /\ row.lease < -Grace
             /\ row.attempts >= MaxAttempts

Sweep ==
  /\ Abandoned
  /\ row' = [row EXCEPT !.status = "failed", !.owner = Nobody, !.lease = NoLease]
  /\ UNCHANGED <<dv, http>>

\* The row is 24 hours old; the cleanup task deletes it some time later.
Expire ==
  /\ "expire" \in Faults
  /\ row.status # "absent" /\ ~row.stale
  /\ row' = [row EXCEPT !.stale = TRUE]
  /\ UNCHANGED <<dv, http>>

Cleanup ==
  /\ row.stale
  /\ row' = NoRow
  /\ UNCHANGED <<dv, http>>

-----------------------------------------------------------------------------
Work(d) == Start(d) \/ TryClaim(d) \/ Defer(d) \/ Poison(d)

Next ==
  \/ HttpClaim \/ HttpReject \/ HttpKill
  \/ \E d \in Deliveries :
       \/ HttpEnqueue(d) \/ Click(d)
       \/ Work(d) \/ Succeed(d) \/ Fail(d) \/ Heartbeat(d)
       \/ Crash(d) \/ Outage(d)
       \/ \E e \in Deliveries : Duplicate(d, e)
  \/ Tick \/ Sweep \/ Expire \/ Cleanup

Spec == Init /\ [][Next]_vars

(* Fairness: an idle worker takes the next message, the wrapper's own       *)
(* statements are executed, time passes, heartbeats beat, the reconciler    *)
(* runs, and a body ends in some way, which may be the death of its worker. *)
Fairness ==
  /\ WF_vars(Tick)
  /\ WF_vars(Sweep)
  /\ \A d \in Deliveries :
       /\ WF_vars(Work(d))
       /\ WF_vars(Heartbeat(d))
       /\ WF_vars(dv[d].pc = "running" /\ (Succeed(d) \/ Fail(d) \/ Crash(d)))

FairSpec == Spec /\ Fairness

-----------------------------------------------------------------------------
(* Properties.                                                              *)

\* "gate concurrent runs via a lease": redelivered, duplicated and retried
\* messages, and clicks, never have two bodies of one key running.
OneBodyRuns ==
  \A d, e \in Deliveries :
    dv[d].pc = "running" /\ dv[e].pc = "running" => d = e

\* finalize_task "preserves the first writer's outcome on a crash + retry": a
\* completed row stays completed until it is 24 hours old, and a failed one
\* becomes pending by a new claim or goes, but never completed.
FirstOutcomeKept ==
  [][/\ row.status = "completed" /\ ~row.stale => row'.status = "completed"
     /\ row.status = "failed" => row'.status # "completed"]_vars

\* Even when a worker stalled beyond its lease and another took over: what the
\* stalled one does later never takes a live lease from a body that holds it.
LiveLeaseNotStolen ==
  [][\A d \in Deliveries :
       Live /\ row.owner = d /\ row.status = "pending"
         /\ dv[d].pc = "running" /\ dv'[d].pc = "running"
       => row'.owner = d \/ row'.status # "pending"]_vars

\* "Success writes completed": when a body returned, its key is completed.
SuccessRecorded ==
  [][\A d \in Deliveries : Succeed(d) => row'.status = "completed"]_vars

\* A pending row blocks every other request with its key, so it must have
\* something that will end it: the request that claimed it, a message, or the
\* sweep, which will find its lease expired and its attempts used up.
PendingIsHandled ==
  row.status = "pending" =>
    \/ http = "claimed"
    \/ \E d \in Deliveries : Busy(d)
    \/ row.lease # NoLease /\ row.attempts >= MaxAttempts

\* A message that kills its worker every time does not loop: each message is
\* eventually answered, executed, given up or poisoned.
MessageEnds == \A d \in Deliveries : dv[d].pc = "queued" ~> dv[d].pc = "free"

-----------------------------------------------------------------------------
(* The promise of the lease, as a lock.                                     *)

Lock == INSTANCE BoundedLock WITH
          Body <- Deliveries, Limit <- MaxAttempts,
          holders <- {d \in Deliveries : dv[d].pc = "running"},
          grants  <- IF row.attempts > MaxAttempts THEN MaxAttempts ELSE row.attempts,
          verdict <- IF row.status \in {"completed", "failed"} THEN row.status ELSE "open"

\* However its messages are redelivered, duplicated, retried and killed, a key starts
\* at most MaxAttempts bodies, one at a time, none once it is completed or failed,
\* and fails only when its attempts are used up (with_idempotency, the poison guard).
ImplementsLock == Lock!Spec
=============================================================================
