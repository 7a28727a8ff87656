--------------------------- MODULE TaskLeaseProofs ---------------------------
(***************************************************************************)
(* Theorems about TaskLease, for any number of messages in flight and any  *)
(* attempt, retry and time limits.                                         *)
(***************************************************************************)
EXTENDS TaskLease, TLAPS

RowType  == [status : Statuses, attempts : Attempts,
             owner : Deliveries \cup {Nobody, Gone},
             lease : Expired..NoLease, stale : BOOLEAN]
SlotType == [pc : {"free", "queued", "claim", "running", "poison"},
             retries : 0..(LeaseRetryMax + MaxRetries), wait : 0..LeaseTTL]

\* The two ends of the lease's range, and the values it is set to.
LEMMA LeaseRange ==
  /\ LeaseTTL \in Expired..NoLease /\ NoLease \in Expired..NoLease
  /\ Expired \in Int /\ NoLease \in Int /\ Expired < 0
  /\ LeaseTTL > 1 /\ LeaseTTL < NoLease
BY TaskLeaseAssumption DEF Expired, NoLease

LEMMA AttemptsRange == 0 \in Attempts /\ 1 \in Attempts /\ Attempts \subseteq Nat
BY TaskLeaseAssumption DEF Attempts

LEMMA RowNumbers ==
  TypeOK => row.attempts \in Int /\ row.lease \in Int /\ MaxAttempts \in Int
BY TaskLeaseAssumption DEF TypeOK, Attempts, Expired, NoLease

\* What each statement leaves is a row.
LEMMA NoRowType == NoRow \in RowType
BY LeaseRange, AttemptsRange DEF NoRow, RowType, Statuses

LEMMA OrphanedType ==
  ASSUME NEW r \in RowType, NEW d PROVE Orphaned(r, d) \in RowType
BY DEF Orphaned, RowType

LEMMA LeasedType ==
  ASSUME TypeOK, NEW d \in Deliveries PROVE Leased(d) \in RowType
<1>1. (IF row.attempts > MaxAttempts THEN row.attempts ELSE row.attempts + 1)
         \in Attempts
  BY TaskLeaseAssumption DEF TypeOK, Attempts
<1>2. (IF row.status = "absent" THEN "pending" ELSE row.status) \in Statuses
  BY DEF TypeOK, Statuses
<1> QED
  BY <1>1, <1>2, LeaseRange DEF Leased, TypeOK, RowType

LEMMA FinalizedType ==
  ASSUME TypeOK, NEW d, NEW s \in {"completed", "failed"}
  PROVE  Finalized(d, s) \in RowType
<1>1. row \in RowType
  BY DEF TypeOK, RowType
<1>2. [row EXCEPT !.status = s, !.owner = Nobody, !.lease = NoLease] \in RowType
  BY <1>1, LeaseRange DEF RowType, Statuses
<1> QED
  BY <1>1, <1>2, OrphanedType DEF Finalized

LEMMA ReleasedType ==
  ASSUME TypeOK, NEW d PROVE Released(d) \in RowType
<1>1. row \in RowType
  BY DEF TypeOK, RowType
<1>2. [row EXCEPT !.owner = Nobody, !.lease = NoLease] \in RowType
  BY <1>1, LeaseRange DEF RowType
<1> QED
  BY <1>1, <1>2, OrphanedType DEF Released

\* What a worker leaves of its message is a slot.
LEMMA SlotTypes ==
  ASSUME TypeOK, NEW d \in Deliveries, NEW f \in BOOLEAN,
         NEW p \in {"free", "queued", "claim", "running", "poison"}
  PROVE  /\ Free \in SlotType
         /\ [Free EXCEPT !.pc = "queued"] \in SlotType
         /\ [dv[d] EXCEPT !.pc = p] \in SlotType
         /\ [dv[d] EXCEPT !.pc = "queued", !.wait = 0] \in SlotType
         /\ Deferred(d) \in SlotType
         /\ Retried(d, f) \in SlotType
<1>1. dv[d] \in SlotType
  BY DEF TypeOK, SlotType
<1>2. 0 \in 0..(LeaseRetryMax + MaxRetries) /\ 0 \in 0..LeaseTTL /\ LeaseTTL \in 0..LeaseTTL
  BY TaskLeaseAssumption
<1>3. Free \in SlotType /\ [Free EXCEPT !.pc = "queued"] \in SlotType
  BY <1>2 DEF SlotType, Free
<1>4. \/ dv[d].retries < LeaseRetryMax
      \/ dv[d].retries < MaxRetries
      => dv[d].retries + 1 \in 0..(LeaseRetryMax + MaxRetries)
  BY <1>1, TaskLeaseAssumption DEF SlotType
<1>5. Deferred(d) \in SlotType
  BY <1>2, <1>3, <1>4 DEF SlotType, Deferred
<1>6. Retried(d, f) \in SlotType
  BY <1>2, <1>3, <1>4 DEF SlotType, Retried
<1> QED
  BY <1>1, <1>2, <1>3, <1>5, <1>6 DEF SlotType

LEMMA LeaveType ==
  ASSUME TypeOK, NEW d \in Deliveries, NEW next \in SlotType, Leave(d, next)
  PROVE  dv' \in [Deliveries -> SlotType]
BY DEF TypeOK, SlotType, Leave

-----------------------------------------------------------------------------
(* Type correctness, one step per action.                                   *)

LEMMA InitType == Init => TypeOK
<1> SUFFICES ASSUME Init PROVE TypeOK
  OBVIOUS
<1>1. row \in RowType
  BY NoRowType DEF Init
<1>2. Free \in SlotType
  BY TaskLeaseAssumption DEF Free, SlotType
<1>3. dv \in [Deliveries -> SlotType]
  BY <1>2 DEF Init
<1> QED
  BY <1>1, <1>3 DEF Init, TypeOK, RowType, SlotType

LEMMA TypeStep == TypeOK /\ [Next]_vars => TypeOK'
<1> SUFFICES ASSUME TypeOK, [Next]_vars
             PROVE  /\ row' \in RowType
                    /\ dv' \in [Deliveries -> SlotType]
                    /\ http' \in {"idle", "claimed"}
  BY DEF TypeOK, RowType, SlotType
<1>0. /\ row \in RowType /\ dv \in [Deliveries -> SlotType]
      /\ http \in {"idle", "claimed"}
  BY DEF TypeOK, RowType, SlotType
<1>1. CASE HttpClaim
  BY <1>0, <1>1, AttemptsRange DEF HttpClaim, RowType, Statuses
<1>2. CASE HttpReject \/ HttpKill
  BY <1>0, <1>2, NoRowType DEF HttpReject, HttpKill
<1>3. ASSUME NEW d \in Deliveries, HttpEnqueue(d) \/ Click(d)
      PROVE  /\ row' = row /\ dv' \in [Deliveries -> SlotType]
             /\ http' \in {"idle", "claimed"}
  <2>1. [Free EXCEPT !.pc = "queued"] \in SlotType
    BY SlotTypes
  <2> QED
    BY <1>0, <1>3, <2>1 DEF HttpEnqueue, Click
<1>4. ASSUME NEW d \in Deliveries, Start(d) \/ Defer(d)
      PROVE  dv' \in [Deliveries -> SlotType] /\ UNCHANGED <<row, http>>
  <2>1. \A p \in {"free", "queued", "claim", "running", "poison"} :
          [dv[d] EXCEPT !.pc = p] \in SlotType
    BY SlotTypes
  <2>2. Free \in SlotType /\ Deferred(d) \in SlotType
    BY SlotTypes
  <2> QED
    BY <1>0, <1>4, <2>1, <2>2, LeaveType DEF Start, Defer
<1>5. ASSUME NEW d \in Deliveries, TryClaim(d)
      PROVE  /\ row' \in RowType /\ dv' \in [Deliveries -> SlotType]
             /\ http' = http
  <2> DEFINE next == IF row'.attempts > MaxAttempts THEN "poison" ELSE "running"
  <2>1. [dv[d] EXCEPT !.pc = next] \in SlotType
    BY SlotTypes
  <2> QED
    BY <1>0, <1>5, <2>1, LeasedType, LeaveType DEF TryClaim
<1>6. ASSUME NEW d \in Deliveries, Poison(d) \/ Succeed(d)
      PROVE  /\ row' \in RowType /\ dv' \in [Deliveries -> SlotType]
             /\ UNCHANGED http
  <2>1. Free \in SlotType
    BY SlotTypes
  <2> QED
    BY <1>6, <2>1, FinalizedType, LeaveType DEF Poison, Succeed
<1>7. ASSUME NEW d \in Deliveries, Fail(d)
      PROVE  /\ row' \in RowType /\ dv' \in [Deliveries -> SlotType]
             /\ UNCHANGED http
  BY <1>7, SlotTypes, ReleasedType, LeaveType DEF Fail
<1>8. ASSUME NEW d \in Deliveries, Heartbeat(d)
      PROVE  row' \in RowType /\ UNCHANGED <<dv, http>>
  BY <1>0, <1>8, LeaseRange DEF Heartbeat, RowType
<1>9. ASSUME NEW d \in Deliveries, Crash(d)
      PROVE  /\ row' \in RowType /\ dv' \in [Deliveries -> SlotType]
             /\ UNCHANGED http
  <2>1. [dv[d] EXCEPT !.pc = "queued"] \in SlotType
    BY SlotTypes
  <2> QED
    BY <1>0, <1>9, <2>1, OrphanedType, LeaveType DEF Crash
<1>10. ASSUME NEW d \in Deliveries, Outage(d)
       PROVE  /\ row' \in RowType /\ dv' \in [Deliveries -> SlotType]
              /\ http' = http
  <2>1. /\ Free \in SlotType /\ \A f \in BOOLEAN : Retried(d, f) \in SlotType
    BY SlotTypes
  <2>2. [dv[d] EXCEPT !.pc = "running"] \in SlotType
    BY SlotTypes
  <2>3. Orphaned(row, d) \in RowType
    BY <1>0, OrphanedType
  <2> QED
    BY <1>0, <1>10, <2>1, <2>2, <2>3, LeaveType DEF Outage
<1>11. ASSUME NEW d \in Deliveries, NEW e \in Deliveries, Duplicate(d, e)
       PROVE  dv' \in [Deliveries -> SlotType] /\ UNCHANGED <<row, http>>
  <2>1. [dv[d] EXCEPT !.pc = "queued", !.wait = 0] \in SlotType
    BY SlotTypes
  <2> QED
    BY <1>11, <2>1, LeaveType DEF Duplicate
<1>12. CASE Tick
  <2>1. (IF row.lease \in {Expired, NoLease} THEN row.lease ELSE row.lease - 1)
          \in Expired..NoLease
    BY <1>0, LeaseRange DEF RowType
  <2>2. \A d \in Deliveries :
          [dv[d] EXCEPT !.wait = IF @ = 0 THEN 0 ELSE @ - 1] \in SlotType
    BY <1>0, TaskLeaseAssumption DEF SlotType
  <2> QED
    BY <1>0, <1>12, <2>1, <2>2 DEF Tick, RowType
<1>13. CASE Sweep
  BY <1>0, <1>13, LeaseRange DEF Sweep, RowType, Statuses
<1>14. CASE Expire \/ Cleanup
  BY <1>0, <1>14, NoRowType DEF Expire, Cleanup, RowType
<1>15. CASE UNCHANGED vars
  BY <1>0, <1>15 DEF vars
<1> QED
  BY <1>0, <1>1, <1>2, <1>3, <1>4, <1>5, <1>6, <1>7, <1>8, <1>9, <1>10, <1>11,
     <1>12, <1>13, <1>14, <1>15 DEF Next, Work

\* Type correctness of the whole module: no interleaving of requests, workers,
\* faults and sweeps leaves a row the table's columns cannot hold.
THEOREM TypeCorrect == Spec => []TypeOK
<1> QED
  BY InitType, TypeStep, PTL DEF Spec

-----------------------------------------------------------------------------
(* What holds whatever the faults.                                          *)

\* The first outcome of a task is kept: a late worker, a redelivered message or
\* the sweep never replaces a completed row, nor completes a failed one.
THEOREM FirstOutcomeKeptHolds == Spec => FirstOutcomeKept
<1> DEFINE Kept == /\ row.status = "completed" /\ ~row.stale => row'.status = "completed"
                   /\ row.status = "failed" => row'.status # "completed"
<1>1. TypeOK /\ [Next]_vars => [Kept]_vars
  <2> SUFFICES ASSUME TypeOK, Next PROVE Kept
    BY DEF vars
  <2> USE DEF TypeOK
  <2>1. ASSUME row' = row \/ \E d : row' = Orphaned(row, d)
        PROVE  Kept
    BY <2>1 DEF Orphaned
  <2>2. CASE HttpClaim \/ HttpReject \/ HttpKill
    BY <2>2 DEF HttpClaim, HttpReject, HttpKill
  <2>3. ASSUME NEW d \in Deliveries,
               HttpEnqueue(d) \/ Click(d) \/ Start(d) \/ Defer(d)
        PROVE  Kept
    BY <2>3 DEF HttpEnqueue, Click, Start, Defer
  <2>4. ASSUME NEW d \in Deliveries, TryClaim(d)
        PROVE  Kept
    BY <2>4 DEF TryClaim, LeaseFree, Leased
  <2>5. ASSUME NEW d \in Deliveries, NEW s \in {"completed", "failed"},
               row' = Finalized(d, s)
        PROVE  Kept
    BY <2>5 DEF Finalized, Orphaned
  <2>6. ASSUME NEW d \in Deliveries, Poison(d) \/ Succeed(d)
        PROVE  Kept
    BY <2>5, <2>6 DEF Poison, Succeed
  <2>7. ASSUME NEW d \in Deliveries, Fail(d)
        PROVE  Kept
    BY <2>7 DEF Fail, Released, Orphaned
  <2>8. ASSUME NEW d \in Deliveries, Heartbeat(d)
        PROVE  Kept
    BY <2>8 DEF Heartbeat
  <2>9. ASSUME NEW d \in Deliveries, Crash(d) \/ Outage(d)
        PROVE  Kept
    BY <2>1, <2>9 DEF Crash, Outage
  <2>10. ASSUME NEW d \in Deliveries, NEW e \in Deliveries, Duplicate(d, e)
         PROVE  Kept
    BY <2>10 DEF Duplicate
  <2>11. CASE Tick
    BY <2>11 DEF Tick
  <2>12. CASE Sweep \/ Expire \/ Cleanup
    BY <2>12 DEF Sweep, Abandoned, Expire, Cleanup, NoRow
  <2> QED
    BY <2>2, <2>3, <2>4, <2>6, <2>7, <2>8, <2>9, <2>10, <2>11, <2>12
    DEF Next, Work
<1> QED
  BY <1>1, TypeCorrect, PTL DEF Spec, FirstOutcomeKept

\* With workers that stall, outages, expiring rows and releases by requests: no
\* step of another takes a live lease from a body that holds it.
THEOREM LiveLeaseNotStolenHolds == Spec => LiveLeaseNotStolen
<1> DEFINE NotStolen ==
       \A d \in Deliveries :
         Live /\ row.owner = d /\ row.status = "pending"
           /\ dv[d].pc = "running" /\ dv'[d].pc = "running"
         => row'.owner = d \/ row'.status # "pending"
<1>1. TypeOK /\ [Next]_vars => [NotStolen]_vars
  <2> DEFINE Kept(d) == row'.owner = d \/ row'.status # "pending"
  <2> SUFFICES ASSUME TypeOK, Next, NEW d \in Deliveries,
                      Live, row.owner = d, row.status = "pending",
                      dv[d].pc = "running", dv'[d].pc = "running"
               PROVE  Kept(d)
    OBVIOUS
  <2>a. dv \in [Deliveries -> SlotType] /\ row \in RowType
    BY DEF TypeOK, SlotType, RowType
  <2>1. ASSUME NEW e \in Deliveries, NEW s, Leave(e, s), s.pc # "running"
        PROVE  e # d
    BY <2>1, <2>a DEF Leave
  <2>2. CASE UNCHANGED row
    BY <2>2
  <2>3. ASSUME NEW e \in Deliveries, e # d, row' = Orphaned(row, e)
        PROVE  Kept(d)
    BY <2>3, <2>a DEF Orphaned, RowType
  <2>b. NoRow.status # "pending"
    BY DEF NoRow
  <2>4. CASE HttpClaim \/ HttpReject
    <3>1. CASE HttpClaim
      BY <3>1, <2>a DEF HttpClaim, RowType
    <3>2. CASE HttpReject
      BY <3>2, <2>b DEF HttpReject
    <3> QED
      BY <2>4, <3>1, <3>2
  <2>5. ASSUME NEW e \in Deliveries, TryClaim(e) PROVE FALSE
    BY <2>5, RowNumbers DEF TryClaim, LeaseFree, Live
  <2>6. ASSUME NEW e \in Deliveries, Poison(e) \/ Succeed(e) PROVE Kept(d)
    BY <2>6, <2>a DEF Poison, Succeed, Finalized, Orphaned, RowType
  <2>7. ASSUME NEW e \in Deliveries, Fail(e) PROVE Kept(d)
    <3>1. e # d
      BY <2>1, <2>7 DEF Fail, Retried, Free
    <3> QED
      BY <2>7, <2>a, <3>1 DEF Fail, Released, Orphaned, RowType
  <2>8. ASSUME NEW e \in Deliveries, Heartbeat(e) PROVE Kept(d)
    BY <2>8, <2>a DEF Heartbeat, RowType
  <2>9. ASSUME NEW e \in Deliveries, Crash(e) PROVE Kept(d)
    <3>1. e # d
      BY <2>1, <2>9, <2>a DEF Crash, SlotType
    <3> QED
      BY <2>3, <2>9, <3>1 DEF Crash
  <2>10. ASSUME NEW e \in Deliveries, Outage(e) PROVE Kept(d)
    <3>1. row' = row \/ (row' = Orphaned(row, e) /\ e # d)
      BY <2>1, <2>10 DEF Outage, Retried, Free
    <3> QED
      BY <2>3, <3>1
  <2>11. CASE Tick
    BY <2>11, <2>a DEF Tick, RowType
  <2>12. CASE Sweep \/ Expire \/ Cleanup
    BY <2>12, <2>a, <2>b DEF Sweep, Expire, Cleanup, RowType
  <2> QED
    BY <2>2, <2>4, <2>5, <2>6, <2>7, <2>8, <2>9, <2>10, <2>11, <2>12
    DEF Next, Work, HttpKill, HttpEnqueue, Click, Start, Defer, Duplicate
<1> QED
  BY <1>1, TypeCorrect, PTL DEF Spec, LiveLeaseNotStolen

-----------------------------------------------------------------------------
(* The lease at work: messages that are redelivered, duplicated, retried and *)
(* crash, without the re-claim of a failed key, outages, rows that outlive   *)
(* their 24 hours and workers that stall beyond their lease.                 *)

LeaseOnly == /\ Ops \subseteq {"click"}
             /\ Faults \subseteq {"crash", "kill", "duplicate", "error"}

\* OneBodyRuns is not inductive: the lease of a running body must be its own and
\* live, or a second body could claim the row.  That the claim of a failed row
\* always leads to the poison guard needs its attempts to be used up.
LeaseInv ==
  /\ TypeOK
  /\ http = "idle" /\ ~row.stale
  /\ \A d \in Deliveries : dv[d].pc = "running" =>
       /\ row.owner = d /\ row.status = "pending"
       /\ row.attempts <= MaxAttempts /\ Live
  /\ \A d \in Deliveries : dv[d].pc = "poison" => row.attempts > MaxAttempts
  /\ row.status = "failed" => row.attempts >= MaxAttempts

\* No slot starts to run or to poison, and the row stays: the invariant stays.
LEMMA QuietStep ==
  ASSUME LeaseInv, TypeOK', row' = row, http' = http,
         \A d \in Deliveries : dv'[d].pc \in {"running", "poison"} =>
                                 dv'[d].pc = dv[d].pc
  PROVE  LeaseInv'
BY DEF LeaseInv, Live

LEMMA LeaseInvInit == Init => LeaseInv
<1> SUFFICES ASSUME Init PROVE LeaseInv
  OBVIOUS
<1>1. TypeOK
  BY InitType
<1>2. \A d \in Deliveries : dv[d].pc = "free"
  BY DEF Init, Free
<1> QED
  BY <1>1, <1>2 DEF Init, LeaseInv, NoRow

LEMMA LeaseInvStep == LeaseOnly /\ LeaseInv /\ [Next]_vars => LeaseInv'
<1> SUFFICES ASSUME LeaseOnly, LeaseInv, [Next]_vars PROVE LeaseInv'
  OBVIOUS
<1>0. TypeOK /\ TypeOK'
  BY TypeStep DEF LeaseInv
<1>a. /\ dv \in [Deliveries -> SlotType]
      /\ row \in RowType /\ row' \in RowType
  BY <1>0 DEF TypeOK, SlotType, RowType
<1>1. ~HttpClaim /\ ~HttpReject /\ ~HttpKill /\ ~Expire
  BY DEF LeaseOnly, HttpClaim, HttpReject, HttpKill, Expire
<1>2. ASSUME NEW d \in Deliveries, HttpEnqueue(d) \/ Click(d) PROVE LeaseInv'
  <2>1. row' = row /\ http' = http /\ dv' = [dv EXCEPT ![d] = [Free EXCEPT !.pc = "queued"]]
    BY <1>2 DEF HttpEnqueue, Click, LeaseInv
  <2> QED
    BY <1>0, <1>a, <2>1, QuietStep DEF Free
<1>3. ASSUME NEW d \in Deliveries, Start(d) PROVE LeaseInv'
  BY <1>0, <1>a, <1>3, QuietStep DEF Start, Leave, Free
<1>4. ASSUME NEW d \in Deliveries, Defer(d) PROVE LeaseInv'
  BY <1>0, <1>a, <1>4, QuietStep DEF Defer, Leave, Deferred, Free
<1>5. ASSUME NEW d \in Deliveries, NEW e \in Deliveries, Duplicate(d, e)
      PROVE  LeaseInv'
  BY <1>0, <1>a, <1>5, QuietStep DEF Duplicate, Leave
<1>6. ASSUME NEW d \in Deliveries, TryClaim(d) PROVE LeaseInv'
  <2>1. \A e \in Deliveries : dv[e].pc # "running"
    BY <1>0, <1>6, RowNumbers DEF TryClaim, LeaseFree, LeaseInv, Live
  <2>2. /\ row'.owner = d /\ row'.lease = LeaseTTL /\ row'.stale = row.stale
        /\ row'.attempts = (IF row.attempts > MaxAttempts THEN row.attempts
                                                          ELSE row.attempts + 1)
        /\ row'.status = (IF row.status = "absent" THEN "pending" ELSE row.status)
        /\ http' = http
    BY <1>6, <1>a DEF TryClaim, Leased, RowType
  <2>3. row.attempts \in Int /\ MaxAttempts \in Int
    BY <1>0, RowNumbers
  <2>4. row.status \in {"absent", "pending", "failed"}
    BY <1>6, <1>a DEF TryClaim, LeaseFree, RowType, Statuses
  <2>5. Live'
    BY <2>2, LeaseRange DEF Live
  <2>6. /\ \A e \in Deliveries : e # d => dv'[e] = dv[e]
        /\ dv'[d].pc = (IF row'.attempts > MaxAttempts THEN "poison" ELSE "running")
    BY <1>6, <1>a DEF TryClaim, Leave, SlotType
  <2>7. \A e \in Deliveries : dv[e].pc = "poison" => row.attempts > MaxAttempts
    BY DEF LeaseInv
  <2>8. row.status = "failed" => row.attempts >= MaxAttempts
    BY DEF LeaseInv
  <2>9. \A e \in Deliveries : dv'[e].pc = "running" =>
          /\ e = d /\ row'.attempts <= MaxAttempts /\ row'.status = "pending"
    BY <2>1, <2>2, <2>3, <2>4, <2>6, <2>8
  <2>10. \A e \in Deliveries : dv'[e].pc = "poison" => row'.attempts > MaxAttempts
    BY <2>2, <2>3, <2>6, <2>7
  <2>11. row'.status = "failed" => row'.attempts >= MaxAttempts
    BY <2>2, <2>3, <2>8
  <2> QED
    BY <1>0, <2>2, <2>5, <2>9, <2>10, <2>11 DEF LeaseInv
<1>7. ASSUME NEW d \in Deliveries, Poison(d) PROVE LeaseInv'
  <2>1. row.attempts > MaxAttempts /\ row.attempts \in Int /\ MaxAttempts \in Int
    BY <1>0, <1>7, RowNumbers DEF LeaseInv, Poison
  <2>2. \A e \in Deliveries : dv[e].pc # "running"
    BY <2>1 DEF LeaseInv
  <2>3. row'.attempts = row.attempts /\ row'.stale = row.stale /\ http' = http
    BY <1>7, <1>a DEF Poison, Finalized, Orphaned, RowType
  <2>4. \A e \in Deliveries : dv'[e].pc # "running"
    BY <1>7, <1>a, <2>2 DEF Poison, Leave, Free
  <2> QED
    BY <1>0, <2>1, <2>3, <2>4 DEF LeaseInv
<1>8. ASSUME NEW d \in Deliveries, Succeed(d) \/ Fail(d) \/ Crash(d),
             dv[d].pc = "running"
      PROVE  LeaseInv'
  <2>1. /\ row.owner = d /\ row.status = "pending" /\ row.attempts <= MaxAttempts
        /\ row.attempts \in Int /\ MaxAttempts \in Int
    BY <1>0, <1>8, RowNumbers DEF LeaseInv
  <2>2. \A e \in Deliveries : /\ dv[e].pc # "poison"
                              /\ dv[e].pc = "running" => e = d
    BY <2>1 DEF LeaseInv
  <2>3. /\ \A e \in Deliveries : e # d => dv'[e] = dv[e]
        /\ dv'[d].pc \in {"free", "queued"}
    <3>1. PICK s : Leave(d, s) /\ s.pc \in {"free", "queued"}
      <4>1. CASE Succeed(d)
        BY <4>1 DEF Succeed, Free
      <4>2. CASE Fail(d)
        BY <4>2 DEF Fail, Retried, Free
      <4>3. CASE Crash(d)
        BY <4>3, <1>a DEF Crash, SlotType
      <4> QED
        BY <1>8, <4>1, <4>2, <4>3
    <3> QED
      BY <3>1, <1>a DEF Leave
  <2>4. \A e \in Deliveries : dv'[e].pc \notin {"running", "poison"}
    BY <2>2, <2>3
  <2>5. /\ row'.status \in {"pending", "completed"} /\ row'.stale = row.stale
        /\ http' = http
    BY <1>8, <1>a, <2>1
    DEF Succeed, Fail, Crash, Finalized, Released, Orphaned, RowType
  <2> QED
    BY <1>0, <2>4, <2>5 DEF LeaseInv
<1>9. ASSUME NEW d \in Deliveries, Crash(d), dv[d].pc # "running" PROVE LeaseInv'
  <2>1. /\ row' = Orphaned(row, d) /\ http' = http
        /\ dv' = [dv EXCEPT ![d] = [dv[d] EXCEPT !.pc = "queued"]]
    BY <1>9 DEF Crash, Leave
  <2>2. /\ row'.status = row.status /\ row'.attempts = row.attempts
        /\ row'.lease = row.lease /\ row'.stale = row.stale
        /\ row.owner # d => row'.owner = row.owner
    BY <2>1, <1>a DEF Orphaned, RowType
  <2>3. \A e \in Deliveries : dv[e].pc = "running" => e # d /\ row.owner = e
    BY <1>9 DEF LeaseInv
  <2>4. \A e \in Deliveries : dv'[e].pc \in {"running", "poison"} => dv'[e] = dv[e]
    BY <2>1, <1>a DEF SlotType
  <2> QED
    BY <1>0, <2>1, <2>2, <2>3, <2>4 DEF LeaseInv, Live
<1>10. ASSUME NEW d \in Deliveries, Heartbeat(d) PROVE LeaseInv'
  <2>1. /\ row'.status = row.status /\ row'.attempts = row.attempts
        /\ row'.lease = LeaseTTL /\ row'.stale = row.stale /\ row'.owner = row.owner
        /\ dv' = dv /\ http' = http
    BY <1>10, <1>a DEF Heartbeat, RowType
  <2> QED
    BY <1>0, <2>1, LeaseRange DEF LeaseInv, Live
<1>11. CASE Tick
  <2>1. /\ row'.status = row.status /\ row'.attempts = row.attempts
        /\ row'.stale = row.stale /\ row'.owner = row.owner /\ http' = http
        /\ row'.lease = (IF row.lease \in {Expired, NoLease} THEN row.lease
                                                             ELSE row.lease - 1)
        /\ \A d \in Deliveries : dv'[d].pc = dv[d].pc
    BY <1>11, <1>a DEF Tick, RowType, SlotType
  <2>2. ASSUME NEW d \in Deliveries, dv[d].pc = "running" PROVE Live'
    <3>1. row.lease > 1 /\ row.lease # NoLease
      BY <1>11, <2>2 DEF Tick, OnTime, CanBeat, LeaseInv, LeaseOnly, Live
    <3> QED
      BY <1>a, <2>1, <3>1, LeaseRange DEF Live, RowType
  <2> QED
    BY <1>0, <2>1, <2>2 DEF LeaseInv
<1>12. CASE Sweep
  <2>1. row.lease < -Grace /\ row.lease \in Int /\ row.attempts >= MaxAttempts
    BY <1>12, <1>a, LeaseRange DEF Sweep, Abandoned, RowType
  <2>2. \A d \in Deliveries : dv[d].pc # "running"
    BY <2>1, TaskLeaseAssumption DEF LeaseInv, Live
  <2>3. /\ row'.attempts = row.attempts /\ row'.stale = row.stale
        /\ dv' = dv /\ http' = http
    BY <1>12, <1>a DEF Sweep, RowType
  <2> QED
    BY <1>0, <2>1, <2>2, <2>3 DEF LeaseInv
<1>13. ~Cleanup /\ \A d \in Deliveries : ~Outage(d)
  BY DEF Cleanup, Outage, LeaseInv, LeaseOnly
<1>14. CASE UNCHANGED vars
  BY <1>0, <1>14, QuietStep DEF vars
<1> QED
  BY <1>1, <1>2, <1>3, <1>4, <1>5, <1>6, <1>7, <1>8, <1>9, <1>10, <1>11, <1>12,
     <1>13, <1>14 DEF Next, Work, Succeed, Fail

LEMMA LeaseInvAlways == ASSUME LeaseOnly PROVE Spec => []LeaseInv
<1>1. Init => LeaseInv
  BY LeaseInvInit
<1>2. LeaseInv /\ [Next]_vars => LeaseInv'
  BY LeaseInvStep
<1> QED
  BY <1>1, <1>2, PTL DEF Spec

\* "gate concurrent runs via a lease": with any number of messages of a key in
\* flight, redelivered, duplicated, retried and killed, one body runs at a time.
THEOREM OneBodyRunsHolds == ASSUME LeaseOnly PROVE Spec => []OneBodyRuns
<1>1. LeaseInv => OneBodyRuns
  BY DEF LeaseInv, OneBodyRuns
<1> QED
  BY <1>1, LeaseInvAlways, PTL

\* "Success writes completed": the row of a body that returned was its own and
\* pending, so its outcome is recorded.
THEOREM SuccessRecordedHolds == ASSUME LeaseOnly PROVE Spec => SuccessRecorded
<1> DEFINE Recorded == \A d \in Deliveries : Succeed(d) => row'.status = "completed"
<1>1. LeaseInv => [Recorded]_vars
  <2> SUFFICES ASSUME LeaseInv, NEW d \in Deliveries, Succeed(d)
               PROVE  row'.status = "completed"
    OBVIOUS
  <2>1. row \in RowType /\ row.status = "pending"
    BY DEF LeaseInv, Succeed, TypeOK, RowType
  <2> QED
    BY <2>1 DEF Succeed, Finalized, Orphaned, RowType
<1> QED
  BY <1>1, LeaseInvAlways, PTL DEF SuccessRecorded
-----------------------------------------------------------------------------
(* The lease implements BoundedLock: each step is one step of the lock or    *)
(* none.                                                                    *)

\* Who runs, the attempts and the outcome stay: the lock stays.
LEMMA LockStays ==
  ASSUME row'.attempts = row.attempts,
         \/ row'.status = row.status
         \/ {row.status, row'.status} \subseteq {"absent", "pending"},
         \A d \in Deliveries : dv'[d].pc = "running" <=> dv[d].pc = "running"
  PROVE  UNCHANGED Lock!vars
BY DEF Lock!vars

\* The body that runs is the only one.
LEMMA SoleHolder ==
  ASSUME LeaseInv, NEW d \in Deliveries, dv[d].pc = "running"
  PROVE  {e \in Deliveries : dv[e].pc = "running"} = {d}
BY DEF LeaseInv

LEMMA LockStep ==
  ASSUME LeaseOnly, LeaseInv, [Next]_vars
  PROVE  [Lock!Next]_Lock!vars
<1>0. TypeOK
  BY DEF LeaseInv
<1>a. dv \in [Deliveries -> SlotType] /\ row \in RowType
  BY <1>0 DEF TypeOK, SlotType, RowType
<1>b. row.attempts \in Nat /\ MaxAttempts \in Nat
  BY <1>a, AttemptsRange, TaskLeaseAssumption DEF RowType
<1>1. ASSUME NEW d \in Deliveries, HttpEnqueue(d) \/ Click(d) PROVE UNCHANGED Lock!vars
  BY <1>1, <1>a, LockStays DEF HttpEnqueue, Click, Busy, Free
<1>2. ASSUME NEW d \in Deliveries, Start(d) \/ Defer(d) PROVE UNCHANGED Lock!vars
  BY <1>2, <1>a, LockStays DEF Start, Defer, Leave, Deferred, Free, SlotType
<1>3. ASSUME NEW d \in Deliveries, NEW e \in Deliveries, Duplicate(d, e)
      PROVE  UNCHANGED Lock!vars
  BY <1>3, <1>a, LockStays DEF Duplicate, Leave, Busy, SlotType
<1>4. ASSUME NEW d \in Deliveries, Heartbeat(d) PROVE UNCHANGED Lock!vars
  BY <1>4, <1>a, LockStays DEF Heartbeat, RowType
<1>5. CASE Tick
  BY <1>5, <1>a, LockStays DEF Tick, RowType, SlotType
<1>6. ASSUME NEW d \in Deliveries, Crash(d), dv[d].pc # "running"
      PROVE  UNCHANGED Lock!vars
  BY <1>6, <1>a, LockStays DEF Crash, Leave, Orphaned, RowType, SlotType
<1>7. ASSUME NEW d \in Deliveries, TryClaim(d) PROVE [Lock!Next]_Lock!vars
  <2>1. /\ \A e \in Deliveries : dv[e].pc # "running"
        /\ row.status \in {"absent", "pending", "failed"}
    BY <1>0, <1>a, <1>7, RowNumbers
    DEF TryClaim, LeaseFree, LeaseInv, Live, RowType, Statuses
  <2>2. /\ row'.attempts = (IF row.attempts > MaxAttempts THEN row.attempts
                                                          ELSE row.attempts + 1)
        /\ row'.status = (IF row.status = "absent" THEN "pending" ELSE row.status)
    BY <1>7, <1>a DEF TryClaim, Leased, RowType
  <2>3. /\ \A e \in Deliveries : e # d => dv'[e] = dv[e]
        /\ dv'[d].pc = (IF row'.attempts > MaxAttempts THEN "poison" ELSE "running")
    BY <1>7, <1>a DEF TryClaim, Leave, SlotType
  <2>4. CASE row.attempts < MaxAttempts
    <3>1. /\ row.status # "failed" /\ row'.attempts = row.attempts + 1
          /\ row'.attempts <= MaxAttempts
      BY <1>b, <2>2, <2>4 DEF LeaseInv
    <3>2. {e \in Deliveries : dv'[e].pc = "running"} = {d}
      BY <1>b, <2>1, <2>3, <3>1
    <3>3. Lock!Grant(d)
      BY <1>b, <2>1, <2>2, <2>4, <3>1, <3>2 DEF Lock!Grant
    <3> QED
      BY <3>3 DEF Lock!Next
  <2>5. CASE ~(row.attempts < MaxAttempts)
    <3>1. row'.attempts > MaxAttempts
      BY <1>b, <2>2, <2>5
    <3>2. \A e \in Deliveries : dv'[e].pc # "running"
      BY <2>1, <2>3, <3>1
    <3> QED
      BY <1>b, <2>1, <2>2, <2>5, <3>1, <3>2 DEF Lock!vars
  <2> QED
    BY <2>4, <2>5
<1>8. ASSUME NEW d \in Deliveries, Poison(d) PROVE [Lock!Next]_Lock!vars
  <2>1. row.attempts > MaxAttempts /\ \A e \in Deliveries : dv[e].pc # "running"
    BY <1>b, <1>8 DEF Poison, LeaseInv
  <2>2. /\ row'.attempts = row.attempts
        /\ row'.status = (IF row.status = "pending" THEN "failed" ELSE row.status)
        /\ \A e \in Deliveries : dv'[e].pc # "running"
    BY <1>8, <1>a, <2>1 DEF Poison, Finalized, Orphaned, Leave, Free, RowType
  <2>3. CASE row.status = "pending"
    <3>1. Lock!GiveUp
      BY <2>1, <2>2, <2>3 DEF Lock!GiveUp
    <3> QED
      BY <3>1 DEF Lock!Next
  <2>4. CASE row.status # "pending"
    BY <2>1, <2>2, <2>4, LockStays
  <2> QED
    BY <2>3, <2>4
<1>9. ASSUME NEW d \in Deliveries, dv[d].pc = "running", Succeed(d) \/ Fail(d) \/ Crash(d)
      PROVE  [Lock!Next]_Lock!vars
  <2>1. row.status = "pending" /\ {e \in Deliveries : dv[e].pc = "running"} = {d}
    BY <1>9, SoleHolder DEF LeaseInv
  <2>2. PICK s : Leave(d, s) /\ s.pc # "running"
    <3>1. CASE Succeed(d)
      BY <3>1 DEF Succeed, Free
    <3>2. CASE Fail(d)
      BY <3>2 DEF Fail, Retried, Free
    <3>3. CASE Crash(d)
      BY <3>3, <1>a DEF Crash, SlotType
    <3> QED
      BY <1>9, <3>1, <3>2, <3>3
  <2>3. {e \in Deliveries : dv'[e].pc = "running"} = {}
    BY <1>a, <2>1, <2>2 DEF Leave
  <2>4. /\ row'.attempts = row.attempts
        /\ row'.status = (IF Succeed(d) THEN "completed" ELSE "pending")
    BY <1>9, <1>a, <2>1 DEF Succeed, Fail, Crash, Finalized, Released, Orphaned, RowType
  <2>5. Lock!Complete(d) \/ Lock!Release(d)
    BY <2>1, <2>3, <2>4 DEF Lock!Complete, Lock!Release
  <2> QED
    BY <2>5 DEF Lock!Next
<1>10. CASE Sweep
  <2>1. /\ row.status = "pending" /\ row.lease < -Grace /\ row.lease \in Int
        /\ row.attempts >= MaxAttempts
    BY <1>10, <1>a, LeaseRange DEF Sweep, Abandoned, RowType
  <2>2. \A d \in Deliveries : dv[d].pc # "running"
    BY <2>1, TaskLeaseAssumption DEF LeaseInv, Live
  <2>3. row'.attempts = row.attempts /\ row'.status = "failed" /\ dv' = dv
    BY <1>10, <1>a DEF Sweep, RowType
  <2>4. Lock!GiveUp
    BY <1>b, <2>1, <2>2, <2>3 DEF Lock!GiveUp
  <2> QED
    BY <2>4 DEF Lock!Next
<1>11. /\ ~HttpClaim /\ ~HttpReject /\ ~HttpKill /\ ~Expire /\ ~Cleanup
       /\ \A d \in Deliveries : ~Outage(d)
  BY DEF LeaseOnly, LeaseInv, HttpClaim, HttpReject, HttpKill, Expire, Cleanup, Outage
<1>12. CASE UNCHANGED vars
  BY <1>12 DEF vars, Lock!vars
<1> QED
  BY <1>1, <1>2, <1>3, <1>4, <1>5, <1>6, <1>7, <1>8, <1>9, <1>10, <1>11, <1>12
  DEF Next, Work, Succeed, Fail

\* For any number of messages of a key in flight and any limits the lease is a lock: one
\* body at a time, at most MaxAttempts of them, and none after the key has its outcome.
THEOREM ImplementsLockHolds == ASSUME LeaseOnly PROVE Spec => ImplementsLock
<1>1. Init => Lock!Init
  BY TaskLeaseAssumption DEF Init, Free, NoRow, Lock!Init
<1>2. LeaseInv /\ [Next]_vars => [Lock!Next]_Lock!vars
  BY LockStep
<1> QED
  BY <1>1, <1>2, LeaseInvAlways, PTL DEF Spec, ImplementsLock, Lock!Spec

-----------------------------------------------------------------------------
(* A pending key is handled.  One message at a time, which may be sent again *)
(* by uploads and clicks and whose worker may be killed at any moment: the   *)
(* message is given up only after more deferrals than a key has attempts,    *)
(* because every wait outlasts the lease it waits for.                       *)

Deaths == Faults \subseteq {"crash", "kill", "stall"}

\* A message is deferred at most once more than the row was claimed, and not
\* again for a lease that its countdown outlasts.
Paced(d) ==
  IF AtWork(d)
    THEN dv[d].retries <= row.attempts
    ELSE /\ dv[d].retries <= row.attempts + 1
         /\ \/ row.lease = NoLease
            \/ row.lease <= dv[d].wait
            \/ dv[d].retries <= row.attempts

LoneInv ==
  /\ ~row.stale
  /\ \A d \in Deliveries : dv[d].pc = "claim" => dv[d].wait = 0
  /\ row.status \in {"absent", "pending"} /\ http = "idle" =>
       \A d \in Deliveries :
         IF Busy(d)
           THEN row.attempts > MaxAttempts \/ Paced(d)
           ELSE row.status = "pending" => /\ row.lease # NoLease
                                          /\ row.attempts >= MaxAttempts

LEMMA LoneNumbers ==
  ASSUME TypeOK, NEW d \in Deliveries
  PROVE  /\ row.attempts \in Int /\ row.lease \in Int /\ MaxAttempts \in Int
         /\ row.lease <= NoLease /\ NoLease \in Int
         /\ dv[d].retries \in Int /\ dv[d].retries >= 0 /\ row.attempts >= 0
         /\ dv[d].wait \in Int /\ dv[d].wait >= 0
         /\ LeaseTTL \in Int /\ LeaseTTL > 1 /\ NoLease = LeaseTTL + 1
         /\ LeaseRetryMax \in Int
BY TaskLeaseAssumption DEF TypeOK, Attempts, Expired, NoLease

LEMMA LoneInvStep ==
  ASSUME NEW D, Deliveries = {D}, Deaths, MaxAttempts <= LeaseRetryMax,
         TypeOK, TypeOK', LoneInv, [Next]_vars
  PROVE  LoneInv'
<1> USE DEF Busy, AtWork
<1>0. row \in RowType /\ dv \in [Deliveries -> SlotType] /\ D \in Deliveries
  BY DEF TypeOK, RowType, SlotType
<1>1. CASE HttpClaim
  BY <1>0, <1>1 DEF HttpClaim, LoneInv, RowType
<1>2. ASSUME NEW d \in Deliveries, HttpEnqueue(d) \/ Click(d) PROVE LoneInv'
  <2>1. /\ row' = row /\ d = D /\ dv'[D] = [Free EXCEPT !.pc = "queued"]
    BY <1>0, <1>2 DEF HttpEnqueue, Click
  <2>2. dv'[D].pc = "queued" /\ dv'[D].retries = 0 /\ dv'[D].wait = 0
    BY <2>1 DEF Free
  <2>3. Paced(D)'
    BY <1>0, <2>1, <2>2, LoneNumbers DEF Paced
  <2> QED
    BY <2>1, <2>2, <2>3 DEF LoneInv
<1>3. ASSUME NEW d \in Deliveries, Start(d) PROVE LoneInv'
  <2>1. /\ row' = row /\ http' = http /\ d = D
        /\ dv[D].pc = "queued" /\ dv[D].wait = 0
    BY <1>0, <1>3 DEF Start
  <2>2. CASE row.status = "completed"
    <3>1. dv'[D] = Free
      BY <1>0, <1>3, <2>1, <2>2 DEF Start, Leave, LoneInv
    <3> QED
      BY <2>1, <2>2, <3>1 DEF LoneInv, Free
  <2>3. CASE row.status # "completed"
    <3>1. dv'[D] = [dv[D] EXCEPT !.pc = "claim"]
      BY <1>0, <1>3, <2>1, <2>3 DEF Start, Leave
    <3>2. dv'[D].pc = "claim" /\ dv'[D].retries = dv[D].retries /\ dv'[D].wait = dv[D].wait
      BY <1>0, <3>1 DEF SlotType
    <3>3. Paced(D) => Paced(D)'
      BY <2>1, <3>2 DEF Paced
    <3> QED
      BY <2>1, <3>2, <3>3 DEF LoneInv
  <2> QED
    BY <2>2, <2>3
<1>4. ASSUME NEW d \in Deliveries, TryClaim(d) PROVE LoneInv'
  <2>1. /\ d = D /\ dv[D].pc = "claim" /\ http' = http
        /\ dv'[D].pc \in {"running", "poison"} /\ dv'[D].retries = dv[D].retries
    BY <1>0, <1>4 DEF TryClaim, Leave, SlotType
  <2>2. /\ row'.stale = row.stale
        /\ row'.attempts = (IF row.attempts > MaxAttempts THEN row.attempts
                                                          ELSE row.attempts + 1)
        /\ row'.status = (IF row.status = "absent" THEN "pending" ELSE row.status)
    BY <1>0, <1>4 DEF TryClaim, Leased, RowType
  <2>3. row.attempts <= MaxAttempts /\ Paced(D) => Paced(D)'
    BY <1>0, <2>1, <2>2, LoneNumbers DEF Paced
  <2>4. row.attempts > MaxAttempts => row'.attempts > MaxAttempts
    BY <2>2
  <2>5. row'.status \in {"absent", "pending"} => row.status \in {"absent", "pending"}
    BY <2>2
  <2>6. row.attempts <= MaxAttempts \/ row.attempts > MaxAttempts
    BY <1>0, LoneNumbers
  <2> QED
    BY <2>1, <2>2, <2>3, <2>4, <2>5, <2>6 DEF LoneInv
<1>5. ASSUME NEW d \in Deliveries, Defer(d) PROVE LoneInv'
  <2>1. /\ row' = row /\ http' = http /\ d = D /\ dv[D].pc = "claim"
        /\ ~LeaseFree /\ dv'[D] = Deferred(D) /\ dv[D].wait = 0
    BY <1>0, <1>5 DEF Defer, Leave, LoneInv
  <2>a. dv'[D].pc # "claim"
    BY <2>1 DEF Deferred, Free
  <2>2. SUFFICES ASSUME row.status \in {"absent", "pending"}, http = "idle"
                 PROVE  IF dv'[D].pc # "free"
                          THEN row.attempts > MaxAttempts \/ Paced(D)'
                          ELSE row.lease # NoLease /\ row.attempts >= MaxAttempts
    BY <2>1, <2>a DEF LoneInv
  <2>3. row.attempts > MaxAttempts \/ Paced(D)
    BY <2>1, <2>2 DEF LoneInv
  <2>4. row.lease # NoLease /\ row.lease > 0
    BY <1>0, <2>1, <2>2, LoneNumbers DEF LeaseFree
  <2>5. CASE dv[D].retries < LeaseRetryMax
    <3>1. /\ dv'[D].pc = "queued" /\ dv'[D].retries = dv[D].retries + 1
          /\ dv'[D].wait = LeaseTTL
      BY <2>1, <2>5 DEF Deferred
    <3>2. row.lease <= LeaseTTL
      BY <1>0, <2>4, LoneNumbers
    <3>3. Paced(D) => Paced(D)'
      BY <1>0, <2>1, <2>4, <3>1, <3>2, LoneNumbers DEF Paced
    <3> QED
      BY <2>3, <3>1, <3>3
  <2>6. CASE ~(dv[D].retries < LeaseRetryMax)
    <3>1. dv'[D].pc = "free"
      BY <2>1, <2>6 DEF Deferred, Free
    <3>2. Paced(D) => dv[D].retries <= row.attempts
      BY <1>0, <2>1, <2>4, LoneNumbers DEF Paced
    <3> QED
      BY <1>0, <2>3, <2>4, <2>6, <3>1, <3>2, LoneNumbers
  <2> QED
    BY <2>5, <2>6
<1>6. ASSUME NEW d \in Deliveries, Poison(d) \/ Succeed(d) PROVE LoneInv'
  <2>1. PICK s \in {"completed", "failed"} : row' = Finalized(D, s)
    BY <1>6 DEF Poison, Succeed
  <2>2. /\ row'.stale = row.stale /\ row'.status # "pending"
        /\ http' = http /\ dv'[D] = Free
    BY <1>0, <1>6, <2>1 DEF Poison, Succeed, Leave, Finalized, Orphaned, RowType
  <2> QED
    BY <2>2 DEF LoneInv, Free
<1>7. ASSUME NEW d \in Deliveries, Heartbeat(d) PROVE LoneInv'
  <2>1. /\ row'.stale = row.stale /\ row'.status = row.status
        /\ row'.attempts = row.attempts /\ UNCHANGED <<dv, http>>
        /\ d = D /\ dv[D].pc = "running"
    BY <1>0, <1>7 DEF Heartbeat, CanBeat, RowType
  <2>2. Paced(D) => Paced(D)'
    BY <2>1 DEF Paced
  <2> QED
    BY <2>1, <2>2 DEF LoneInv
<1>8. ASSUME NEW d \in Deliveries, Crash(d) PROVE LoneInv'
  <2>1. /\ d = D /\ dv[D].pc \in {"claim", "running", "poison"}
        /\ dv'[D].pc = "queued" /\ dv'[D].retries = dv[D].retries
        /\ dv'[D].wait = dv[D].wait /\ http' = http
    BY <1>0, <1>8 DEF Crash, Leave, SlotType
  <2>2. /\ row'.stale = row.stale /\ row'.status = row.status
        /\ row'.attempts = row.attempts /\ row'.lease = row.lease
    BY <1>0, <1>8 DEF Crash, Orphaned, RowType
  <2>3. Paced(D) => Paced(D)'
    BY <1>0, <2>1, <2>2, LoneNumbers DEF Paced
  <2> QED
    BY <2>1, <2>2, <2>3 DEF LoneInv
<1>9. CASE Tick
  <2>1. /\ row'.stale = row.stale /\ row'.status = row.status
        /\ row'.attempts = row.attempts /\ http' = http
        /\ row'.lease = (IF row.lease \in {Expired, NoLease} THEN row.lease
                                                             ELSE row.lease - 1)
    BY <1>0, <1>9 DEF Tick, RowType
  <2>2. /\ dv'[D].pc = dv[D].pc /\ dv'[D].retries = dv[D].retries
        /\ dv'[D].wait = (IF dv[D].wait = 0 THEN 0 ELSE dv[D].wait - 1)
    BY <1>0, <1>9 DEF Tick, SlotType
  <2>3. row'.lease = NoLease <=> row.lease = NoLease
    BY <1>0, <2>1, LoneNumbers, LeaseRange
  <2>4. row.lease # NoLease /\ row.lease <= dv[D].wait => row'.lease <= dv'[D].wait
    BY <1>0, <2>1, <2>2, LoneNumbers, LeaseRange
  <2>5. Paced(D) => Paced(D)'
    BY <2>1, <2>2, <2>3, <2>4 DEF Paced
  <2> QED
    BY <2>1, <2>2, <2>3, <2>5 DEF LoneInv
<1>10. CASE Sweep
  <2>1. row'.stale = row.stale /\ row'.status = "failed" /\ dv' = dv
    BY <1>0, <1>10 DEF Sweep, RowType
  <2> QED
    BY <2>1 DEF LoneInv
<1>11. /\ ~HttpReject /\ ~HttpKill /\ ~Expire /\ ~Cleanup
       /\ \A d, e \in Deliveries : ~Fail(d) /\ ~Outage(d) /\ ~Duplicate(d, e)
  BY DEF Deaths, HttpReject, HttpKill, Expire, Cleanup, Fail, Outage, Duplicate, LoneInv
<1>12. CASE UNCHANGED vars
  BY <1>12 DEF vars, LoneInv, Paced
<1> QED
  BY <1>1, <1>2, <1>3, <1>4, <1>5, <1>6, <1>7, <1>8, <1>9, <1>10, <1>11, <1>12
  DEF Next, Work

\* A key whose worker may die every time is never left pending for good: there is the
\* request that claimed it, a message, or a row that the sweep will find.
THEOREM PendingIsHandledHolds ==
  ASSUME NEW D, Deliveries = {D}, Deaths, MaxAttempts <= LeaseRetryMax
  PROVE  Spec => []PendingIsHandled
<1>1. Init => LoneInv
  BY DEF Init, LoneInv, NoRow, Busy, Free
<1>2. TypeOK /\ TypeOK' /\ LoneInv /\ [Next]_vars => LoneInv'
  BY LoneInvStep
<1>3. TypeOK /\ LoneInv => PendingIsHandled
  <2> SUFFICES ASSUME TypeOK, LoneInv, row.status = "pending", http # "claimed",
                      \A d \in Deliveries : ~Busy(d)
               PROVE  row.lease # NoLease /\ row.attempts >= MaxAttempts
    BY DEF PendingIsHandled
  <2>1. http = "idle" /\ D \in Deliveries
    BY DEF TypeOK
  <2> QED
    BY <2>1 DEF LoneInv
<1> QED
  BY <1>1, <1>2, <1>3, TypeCorrect, PTL DEF Spec
=============================================================================
