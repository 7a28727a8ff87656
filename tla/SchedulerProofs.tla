--------------------------- MODULE SchedulerProofs ---------------------------
(***************************************************************************)
(* Theorems about Scheduler, for any number of workers, any clock bound,   *)
(* any cron and any set of user operations and faults.                     *)
(***************************************************************************)
EXTENDS Scheduler, TLAPS

\* A due slot lies on the clock, so it names a run.
LEMMA DueSlot ==
  ASSUME TypeOK, Due
  PROVE  /\ sched.next \in Time
         /\ <<"cron", sched.next>> \in RunId
BY SchedulerAssumption DEF TypeOK, Due, Time, RunId, NoTime

\* _compute_next returns a timestamp or NULL.
LEMMA ComputeNextType ==
  ASSUME NEW t \in Time
  PROVE  ComputeNext(t) \in Nat \cup {NoTime}
BY SchedulerAssumption DEF ComputeNext

\* What each write of the runs table leaves is a runs table.
LEMMA RunsType ==
  ASSUME TypeOK, NEW r \in RunId, NEW s \in RunStatus
  PROVE  /\ Insert(r, s) => runs' \in [RunId -> RunStatus]
         /\ UpdateRun(r, s) => runs' \in [RunId -> RunStatus]
BY DEF TypeOK, Insert, UpdateRun

ScheduleRow == [status : SchedStatus, trigger : TriggerTypes,
                next : Nat \cup {NoTime}, runAt : Nat \cup {NoTime},
                endAt : Nat \cup {NoTime}, fails : Nat]

LEMMA RunStatuses ==
  {"none", "pending", "running", "success", "failed", "timeout", "skipped"}
    \subseteq RunStatus
BY DEF RunStatus, RunActive, RunTerminal

\* A worker that returned is in a legal state.
LEMMA IdleType ==
  Idle \in [pc : {"idle", "refuse", "claim", "running", "append"},
            run : RunId, seen : SchedStatus]
BY SchedulerAssumption DEF Idle, RunId, Time, SchedStatus

LEMMA AfterRunType ==
  ASSUME TypeOK, NEW w \in Workers, NEW s
  PROVE  AfterRun(w, s) \in ScheduleRow
<1> DEFINE counted == IF s = "success" THEN [sched EXCEPT !.fails = 0]
                                       ELSE [sched EXCEPT !.fails = @ + 1]
<1>1. counted \in ScheduleRow
  BY DEF TypeOK, ScheduleRow
<1>2. [counted EXCEPT !.status = "completed", !.next = NoTime] \in ScheduleRow
  BY <1>1 DEF ScheduleRow, SchedStatus
<1>3. [counted EXCEPT !.status = "paused", !.next = NoTime] \in ScheduleRow
  BY <1>1 DEF ScheduleRow, SchedStatus
<1> QED
  BY <1>1, <1>2, <1>3 DEF AfterRun

LEMMA FlipOnceType ==
  ASSUME TypeOK
  PROVE  FlipOnce \in ScheduleRow
<1>1. sched \in ScheduleRow /\ [sched EXCEPT !.fails = @ + 1] \in ScheduleRow
  BY DEF TypeOK, ScheduleRow
<1>2. Bumped \in ScheduleRow
  BY <1>1 DEF Bumped, SchedRow
<1>3. [Bumped EXCEPT !.status = "completed", !.next = NoTime] \in ScheduleRow
  BY <1>2 DEF ScheduleRow, SchedStatus
<1> QED
  BY <1>1, <1>2, <1>3 DEF FlipOnce, SchedRow

LEMMA InitType == Init => TypeOK
<1> SUFFICES ASSUME Init PROVE TypeOK
  OBVIOUS
<1>1. 0 \in Time /\ NextCron[0] \in Nat
  BY SchedulerAssumption DEF Time
<1>2. PICK tr \in Triggers, e \in EndTimes :
        sched = [status |-> "active", trigger |-> tr, next |-> NextCron[0],
                 runAt |-> IF tr = "once" THEN NextCron[0] ELSE NoTime,
                 endAt |-> IF tr = "once" THEN NoTime ELSE e, fails |-> 0]
  BY DEF Init
<1>3. sched \in ScheduleRow
  BY <1>1, <1>2, SchedulerAssumption DEF ScheduleRow, SchedStatus, TriggerTypes
<1>4. <<"cron", 0>> \in RunId
  BY <1>1 DEF RunId
<1> QED
  BY <1>1, <1>3, <1>4
  DEF Init, TypeOK, ScheduleRow, Idle, NoPatch, RunStatus, SchedStatus

-----------------------------------------------------------------------------
(* Type correctness, one step per action.                                   *)

LEMMA TypeStep == TypeOK /\ [Next]_vars => TypeOK'
<1> SUFFICES ASSUME TypeOK, [Next]_vars PROVE TypeOK'
  OBVIOUS
<1> USE DEF TypeOK
<1>1. CASE Tick
  BY <1>1, SchedulerAssumption DEF Tick, Time
<1>2. CASE SkipMissed
  <2>1. ComputeNext(now) \in Nat \cup {NoTime}
    BY ComputeNextType
  <2>2. runs' \in [RunId -> RunStatus]
    BY <1>2, DueSlot, RunsType DEF SkipMissed, RunStatus, RunTerminal
  <2> QED
    BY <1>2, <2>1, <2>2 DEF SkipMissed, Advance, SchedStatus
<1>3. CASE SkipOverlap
  <2>1. ComputeNext(sched.next) \in Nat \cup {NoTime}
    BY <1>3, DueSlot, ComputeNextType DEF SkipOverlap
  <2>2. runs' \in [RunId -> RunStatus]
    BY <1>3, DueSlot, RunsType DEF SkipOverlap, RunStatus, RunTerminal
  <2> QED
    BY <1>3, <2>1, <2>2 DEF SkipOverlap
<1>4. CASE FireSlot
  <2>1. ComputeNext(sched.next) \in Nat \cup {NoTime}
    BY <1>4, DueSlot, ComputeNextType DEF FireSlot
  <2>2. runs' \in [RunId -> RunStatus]
    BY <1>4, DueSlot, RunsType DEF FireSlot, RunStatus, RunActive
  <2>3. outbox' \subseteq RunId
    BY <1>4, DueSlot DEF FireSlot
  <2>4. sched' \in ScheduleRow
    BY <1>4, <2>1 DEF FireSlot, Advance, SchedStatus, ScheduleRow
  <2> QED
    BY <1>4, <2>2, <2>3, <2>4 DEF FireSlot, ScheduleRow
<1>5. ASSUME NEW r \in RunId, Enqueue(r) \/ LoseEnqueue(r) PROVE TypeOK'
  BY <1>5 DEF Enqueue, LoseEnqueue
<1>6. ASSUME NEW w \in Workers, NEW r \in RunId, LoadRun(w, r) PROVE TypeOK'
  BY <1>6 DEF LoadRun
<1>7. ASSUME NEW w \in Workers, RefuseRun(w) PROVE TypeOK'
  BY <1>7, IdleType, RunsType, RunStatuses DEF RefuseRun, Return
<1>8. ASSUME NEW w \in Workers, FailMissingAgent(w) PROVE TypeOK'
  <2>1. sched' = sched
    BY <1>8 DEF FailMissingAgent, Bumped, SchedRow
  <2> QED
    BY <1>8, <2>1, IdleType, RunsType, RunStatuses DEF FailMissingAgent, Return
<1>9. ASSUME NEW w \in Workers, ClaimRun(w) PROVE TypeOK'
  BY <1>9, IdleType, RunStatuses DEF ClaimRun, Return
<1>10. ASSUME NEW w \in Workers, NEW s \in {"success", "failed", "timeout"},
              FinishRun(w, s)
       PROVE TypeOK'
  <2>1. AfterRun(w, s) \in ScheduleRow
    BY AfterRunType
  <2>2. sched' \in ScheduleRow
    BY <1>10, <2>1 DEF FinishRun, SchedRow, ScheduleRow
  <2> QED
    BY <1>10, <2>2, IdleType, RunsType, RunStatuses DEF FinishRun, ScheduleRow
<1>11. ASSUME NEW w \in Workers, AppendTurn(w) PROVE TypeOK'
  BY <1>11, IdleType DEF AppendTurn, Return
<1>12. ASSUME NEW w \in Workers, WorkerCrash(w) \/ Redeliver(w) PROVE TypeOK'
  BY <1>12, IdleType DEF WorkerCrash, Redeliver, Return
<1>13. ASSUME NEW r \in RunId, Reconcile(r) PROVE TypeOK'
  <2>1. FlipOnce \in ScheduleRow
    BY FlipOnceType
  <2>2. runs' \in [RunId -> RunStatus]
    BY <1>13, RunsType, RunStatuses
    DEF Reconcile, SweepStuckRunning, SweepStuckPending
  <2> QED
    BY <1>13, <2>1, <2>2
    DEF Reconcile, SweepStuckRunning, SweepStuckPending, ScheduleRow
<1>14. ASSUME NEW op \in {"pause", "resume"}, PatchRead(op) PROVE TypeOK'
  <2>1. NextCron[now] \in Nat
    BY SchedulerAssumption
  <2>2. patch' \in [op : {"none", "pause", "resume"}, next : Nat \cup {NoTime},
                    runAt : Nat \cup {NoTime}]
    <3>1. CASE op = "pause"
      BY <1>14, <3>1 DEF PatchRead, NoPatch
    <3>2. CASE op = "resume" /\ sched.trigger = "recurring"
      BY <1>14, <2>1, <3>2 DEF PatchRead, NoPatch
    <3>3. CASE op = "resume" /\ sched.trigger = "once"
      <4>1. Time \cup {sched.runAt} \subseteq Nat \cup {NoTime}
        BY DEF Time
      <4>2. PICK t \in Time \cup {sched.runAt} :
              patch' = [op |-> "resume", next |-> t, runAt |-> t]
        BY <1>14, <3>3 DEF PatchRead
      <4> QED
        BY <4>1, <4>2
    <3> QED
      BY <1>14, <3>1, <3>2, <3>3 DEF PatchRead
  <2> QED
    BY <1>14, <2>2 DEF PatchRead
<1>15. CASE PatchWrite
  <2>1. NoPatch \in [op : {"none", "pause", "resume"}, next : Nat \cup {NoTime},
                     runAt : Nat \cup {NoTime}]
    BY DEF NoPatch
  <2>2. sched' \in ScheduleRow
    BY <1>15 DEF PatchWrite, SchedRow, ScheduleRow, SchedStatus
  <2> QED
    BY <1>15, <2>1, <2>2 DEF PatchWrite, ScheduleRow
<1>16. CASE Cancel
  BY <1>16 DEF Cancel, SchedStatus
<1>17. CASE Delete
  BY <1>17, RunStatuses DEF Delete, SchedStatus
<1>18. ASSUME NEW e \in EndTimes, NEW c \in BOOLEAN, Edit(e, c) PROVE TypeOK'
  <2>1. NextCron[now] \in Nat /\ e \in Nat \cup {NoTime}
    BY SchedulerAssumption
  <2> QED
    BY <1>18, <2>1 DEF Edit
<1>19. ASSUME NEW n \in 1..MaxManual, RunNow(n) PROVE TypeOK'
  <2>1. <<"manual", n>> \in RunId
    BY DEF RunId
  <2> QED
    BY <1>19, <2>1, RunsType, RunStatuses DEF RunNow
<1>20. CASE UNCHANGED vars
  BY <1>20 DEF vars
<1> HIDE DEF TypeOK
<1> QED
  BY <1>1, <1>2, <1>3, <1>4, <1>5, <1>6, <1>7, <1>8, <1>9, <1>10, <1>11, <1>12,
     <1>13, <1>14, <1>15, <1>16, <1>17, <1>18, <1>19, <1>20
  DEF Next, Dispatch, WorkerStep, User

\* Every column and variable keeps its type: what the schedules CHECK
\* constraints say of the row, and that every run named anywhere is a run.
THEOREM TypeCorrect == Spec => []TypeOK
BY InitType, TypeStep, PTL DEF Spec

-----------------------------------------------------------------------------
(* At most one active run.  A step either makes no run active, or finds     *)
(* none active and inserts one: the overlap guard and Run-Now test and      *)
(* insert under the lock of the schedules row.                              *)

NoNewActive ==
  \A r \in RunId : runs'[r] \in RunActive => runs[r] \in RunActive

FirstActive ==
  /\ ~HasActiveRun
  /\ \E r \in RunId : runs[r] = "none" /\ runs' = [runs EXCEPT ![r] = "pending"]

LEMMA TerminalWrite ==
  ASSUME TypeOK, NEW r \in RunId, NEW s \in RunTerminal,
         Insert(r, s) \/ UpdateRun(r, s)
  PROVE  NoNewActive
BY DEF TypeOK, Insert, UpdateRun, NoNewActive, RunActive, RunTerminal

LEMMA PendingInsert ==
  ASSUME TypeOK, NEW r \in RunId, Insert(r, "pending"), ~HasActiveRun
  PROVE  NoNewActive \/ FirstActive
BY DEF TypeOK, Insert, NoNewActive, FirstActive

LEMMA ActiveStep ==
  ASSUME TypeOK, [Next]_vars
  PROVE  NoNewActive \/ FirstActive
<1> USE DEF RunTerminal
<1>1. ASSUME UNCHANGED runs PROVE NoNewActive
  BY <1>1 DEF NoNewActive
<1>2. CASE SkipMissed \/ SkipOverlap
  BY <1>2, DueSlot, TerminalWrite DEF SkipMissed, SkipOverlap
<1>3. CASE FireSlot
  BY <1>3, DueSlot, PendingInsert DEF FireSlot
<1>4. ASSUME NEW w \in Workers,
             \/ RefuseRun(w) \/ FailMissingAgent(w)
             \/ \E s \in {"success", "failed", "timeout"} : FinishRun(w, s)
      PROVE NoNewActive
  <2>1. wk[w].run \in RunId
    BY DEF TypeOK
  <2> QED
    BY <1>4, <2>1, TerminalWrite DEF RefuseRun, FailMissingAgent, FinishRun
<1>5. ASSUME NEW w \in Workers, ClaimRun(w) PROVE NoNewActive
  BY <1>5 DEF ClaimRun, NoNewActive, TypeOK, RunActive
<1>6. ASSUME NEW r \in RunId, Reconcile(r) PROVE NoNewActive
  BY <1>6, TerminalWrite DEF Reconcile, SweepStuckRunning, SweepStuckPending
<1>7. CASE Delete
  BY <1>7 DEF Delete, NoNewActive, RunActive
<1>8. ASSUME NEW n \in 1..MaxManual, RunNow(n) PROVE NoNewActive \/ FirstActive
  BY <1>8, PendingInsert DEF RunNow, RunId
<1>9. CASE \/ Tick
           \/ \E r \in RunId : Enqueue(r) \/ LoseEnqueue(r)
           \/ \E w \in Workers : \/ \E r \in RunId : LoadRun(w, r)
                                 \/ AppendTurn(w) \/ WorkerCrash(w) \/ Redeliver(w)
           \/ \E op \in {"pause", "resume"} : PatchRead(op)
           \/ PatchWrite \/ Cancel
           \/ \E e \in EndTimes, c \in BOOLEAN : Edit(e, c)
           \/ UNCHANGED vars
  BY <1>1, <1>9
  DEF Tick, Enqueue, LoseEnqueue, LoadRun, AppendTurn, WorkerCrash, Redeliver,
      PatchRead, PatchWrite, Cancel, Edit, vars
<1> QED
  BY <1>2, <1>3, <1>4, <1>5, <1>6, <1>7, <1>8, <1>9
  DEF Next, Dispatch, WorkerStep, User

\* Whatever the interleaving of dispatchers, workers, sweeps and clicks, a
\* schedule never has two runs that are pending or running.
THEOREM OneActiveRunHolds == Spec => []OneActiveRun
<1>1. Init => OneActiveRun
  BY DEF Init, OneActiveRun, RunActive
<1>2. TypeOK /\ OneActiveRun /\ [Next]_vars => OneActiveRun'
  <2> SUFFICES ASSUME TypeOK, OneActiveRun, [Next]_vars PROVE OneActiveRun'
    OBVIOUS
  <2>1. CASE NoNewActive
    BY <2>1 DEF NoNewActive, OneActiveRun
  <2>2. CASE FirstActive
    BY <2>2 DEF FirstActive, HasActiveRun, OneActiveRun, TypeOK
  <2> QED
    BY <2>1, <2>2, ActiveStep
<1> QED
  BY <1>1, <1>2, TypeCorrect, PTL DEF Spec

\* A finished run never becomes pending or running again.
THEOREM FinishedStaysFinishedHolds == Spec => FinishedStaysFinished
<1>1. TypeOK /\ [Next]_vars =>
        [\A r \in RunId : runs[r] \in RunTerminal => runs'[r] \notin RunActive]_vars
  <2> SUFFICES ASSUME TypeOK, [Next]_vars, NEW r \in RunId, runs[r] \in RunTerminal
               PROVE  runs'[r] \notin RunActive
    OBVIOUS
  <2>1. runs[r] \notin RunActive
    BY DEF RunActive, RunTerminal
  <2>2. CASE NoNewActive
    BY <2>1, <2>2 DEF NoNewActive
  <2>3. CASE FirstActive
    BY <2>1, <2>3 DEF FirstActive, RunTerminal, TypeOK
  <2> QED
    BY <2>2, <2>3, ActiveStep
<1> QED
  BY <1>1, TypeCorrect, PTL DEF Spec, FinishedStaysFinished

-----------------------------------------------------------------------------
(* The agent of a run is started at most once.  AgentRunsOnce alone is not  *)
(* inductive: mark_running starts the agent of a pending run, so a pending  *)
(* run must not have been started, and neither may a run that can still be  *)
(* inserted.  A deleted schedule has no runs left and gets no new ones.     *)

RunsOnceInv ==
  /\ AgentRunsOnce
  /\ \A r \in RunId : runs[r] = "pending" => execs[r] = 0
  /\ Exists => \A r \in RunId : runs[r] = "none" => execs[r] = 0
  /\ ~Exists => \A r \in RunId : runs[r] = "none"

\* What every step but a claim and a delete does to the two tables.
RunsKept ==
  /\ execs' = execs
  /\ Exists' = Exists
  /\ \A r \in RunId :
       /\ runs'[r] = "none" => runs[r] = "none"
       /\ runs[r] = "none" /\ runs'[r] # "none" => Exists
       /\ runs'[r] = "pending" => runs[r] \in {"pending", "none"}

LEMMA RunsKeptPreserves ==
  ASSUME TypeOK, RunsOnceInv, RunsKept
  PROVE  RunsOnceInv'
BY DEF RunsOnceInv, RunsKept, AgentRunsOnce

LEMMA WriteKeeps ==
  ASSUME TypeOK, NEW r \in RunId, NEW s \in RunTerminal,
         \/ UpdateRun(r, s)
         \/ Exists /\ (Insert(r, s) \/ Insert(r, "pending"))
  PROVE  \A q \in RunId :
           /\ runs'[q] = "none" => runs[q] = "none"
           /\ runs[q] = "none" /\ runs'[q] # "none" => Exists
           /\ runs'[q] = "pending" => runs[q] \in {"pending", "none"}
BY DEF TypeOK, Insert, UpdateRun, RunTerminal

LEMMA KeptStep ==
  ASSUME TypeOK, [Next]_vars,
         ~Delete, \A w \in Workers : ~ClaimRun(w)
  PROVE  RunsKept
<1> USE DEF Exists
<1>1. ASSUME UNCHANGED <<runs, execs>>, Exists' = Exists PROVE RunsKept
  BY <1>1 DEF RunsKept
<1>2. CASE Dispatch
  <2>1. Exists /\ Exists' /\ execs' = execs /\ <<"cron", sched.next>> \in RunId
    BY <1>2, DueSlot
    DEF Dispatch, SkipMissed, SkipOverlap, FireSlot, Due, Advance, TypeOK
  <2>2. \/ Insert(<<"cron", sched.next>>, "skipped")
        \/ Insert(<<"cron", sched.next>>, "pending")
    BY <1>2 DEF Dispatch, SkipMissed, SkipOverlap, FireSlot
  <2> QED
    BY <2>1, <2>2, WriteKeeps DEF RunsKept, RunTerminal
<1>3. ASSUME NEW w \in Workers, RefuseRun(w) PROVE RunsKept
  BY <1>3, WriteKeeps DEF RefuseRun, RunsKept, RunTerminal, TypeOK
<1>4. ASSUME NEW w \in Workers, FailMissingAgent(w) PROVE RunsKept
  <2>1. sched' = sched
    BY <1>4 DEF FailMissingAgent, Bumped, SchedRow
  <2> QED
    BY <1>4, <2>1, WriteKeeps DEF FailMissingAgent, RunsKept, RunTerminal, TypeOK
<1>5. ASSUME NEW w \in Workers, NEW s \in {"success", "failed", "timeout"},
             FinishRun(w, s)
      PROVE RunsKept
  <2>1. Exists => AfterRun(w, s).status # "deleted"
    BY DEF AfterRun, TypeOK
  <2>2. Exists' = Exists
    BY <1>5, <2>1 DEF FinishRun, SchedRow
  <2> QED
    BY <1>5, <2>2, WriteKeeps DEF FinishRun, RunsKept, RunTerminal, TypeOK
<1>6. ASSUME NEW r \in RunId, Reconcile(r) PROVE RunsKept
  <2>1. Exists' = Exists
    BY <1>6
    DEF Reconcile, SweepStuckRunning, SweepStuckPending, FlipOnce, SchedRow,
        Bumped, TypeOK
  <2> QED
    BY <1>6, <2>1, WriteKeeps
    DEF Reconcile, SweepStuckRunning, SweepStuckPending, RunsKept, RunTerminal
<1>7. ASSUME NEW n \in 1..MaxManual, RunNow(n) PROVE RunsKept
  <2>1. <<"manual", n>> \in RunId /\ "skipped" \in RunTerminal
    BY DEF RunId, RunTerminal
  <2> QED
    BY <1>7, <2>1, WriteKeeps DEF RunNow, Allowed, RunsKept
<1>8. CASE \/ Tick
           \/ \E r \in RunId : Enqueue(r) \/ LoseEnqueue(r)
           \/ \E w \in Workers : \/ \E r \in RunId : LoadRun(w, r)
                                 \/ AppendTurn(w) \/ WorkerCrash(w) \/ Redeliver(w)
           \/ \E op \in {"pause", "resume"} : PatchRead(op)
           \/ UNCHANGED vars
  BY <1>1, <1>8
  DEF Tick, Enqueue, LoseEnqueue, LoadRun, AppendTurn, WorkerCrash, Redeliver,
      PatchRead, vars
<1>9. CASE PatchWrite \/ Cancel \/ \E e \in EndTimes, c \in BOOLEAN : Edit(e, c)
  <2>1. Exists' = Exists
    BY <1>9 DEF PatchWrite, Cancel, Edit, Allowed, SchedRow, TypeOK
  <2> QED
    BY <1>1, <1>9, <2>1 DEF PatchWrite, Cancel, Edit
<1> QED
  BY <1>2, <1>3, <1>4, <1>5, <1>6, <1>7, <1>8, <1>9
  DEF Next, WorkerStep, User

LEMMA RunsOnceStep ==
  ASSUME TypeOK, RunsOnceInv, [Next]_vars PROVE RunsOnceInv'
<1>1. ASSUME NEW w \in Workers, ClaimRun(w) PROVE RunsOnceInv'
  <2>1. wk[w].run \in RunId /\ Exists' = Exists
    BY <1>1 DEF ClaimRun, TypeOK, Exists
  <2> QED
    BY <1>1, <2>1 DEF ClaimRun, RunsOnceInv, AgentRunsOnce, TypeOK
<1>2. CASE Delete
  BY <1>2 DEF Delete, RunsOnceInv, AgentRunsOnce, Exists, TypeOK
<1>3. CASE ~Delete /\ \A w \in Workers : ~ClaimRun(w)
  BY <1>3, KeptStep, RunsKeptPreserves
<1> QED
  BY <1>1, <1>2, <1>3

\* Lost, repeated and late messages, crashes and a resume that re-arms an old
\* slot start the agent of a run at most once.
THEOREM AgentRunsOnceHolds == Spec => []AgentRunsOnce
<1>1. Init => RunsOnceInv
  BY DEF Init, RunsOnceInv, AgentRunsOnce, Exists
<1>2. TypeOK /\ RunsOnceInv /\ [Next]_vars => RunsOnceInv'
  BY RunsOnceStep
<1>3. RunsOnceInv => AgentRunsOnce
  BY DEF RunsOnceInv
<1> QED
  BY <1>1, <1>2, <1>3, TypeCorrect, PTL DEF Spec

-----------------------------------------------------------------------------
(* The runs table implements JobQueue: each step of Scheduler is one step   *)
(* of the queue or none.                                                    *)

LEMMA UpdateIsEnd ==
  ASSUME TypeOK, NEW r \in RunId, NEW s \in RunTerminal, UpdateRun(r, s),
         UNCHANGED execs, Exists' = Exists
  PROVE  [Jobs!Next]_Jobs!vars
<1>1. CASE runs[r] = "none"
  BY <1>1 DEF UpdateRun, Jobs!vars
<1>2. CASE runs[r] # "none"
  <2>1. runs[r] \in Jobs!Unfinished \cup RunTerminal
    BY <1>2 DEF TypeOK, RunStatus, RunActive, Jobs!Unfinished
  <2>2. Jobs!End(r)
    BY <1>2, <2>1 DEF UpdateRun, Jobs!End
  <2> QED
    BY <2>2 DEF Jobs!Next
<1> QED
  BY <1>1, <1>2

LEMMA InsertIsEntry ==
  ASSUME TypeOK, NEW r \in RunId, UNCHANGED execs, Exists, Exists',
         \/ \E s \in RunTerminal : Insert(r, s)
         \/ ~HasActiveRun /\ Insert(r, "pending")
  PROVE  [Jobs!Next]_Jobs!vars
<1>1. CASE runs[r] # "none"
  BY <1>1 DEF Insert, Jobs!vars
<1>2. CASE runs[r] = "none"
  <2>1. Jobs!Record(r) \/ Jobs!Submit(r)
    BY <1>2 DEF Insert, HasActiveRun, RunActive, Jobs!Record, Jobs!Submit, Jobs!Unfinished
  <2> QED
    BY <2>1 DEF Jobs!Next
<1> QED
  BY <1>1, <1>2

LEMMA JobStep ==
  ASSUME TypeOK, [Next]_vars
  PROVE  [Jobs!Next]_Jobs!vars
<1>1. ASSUME UNCHANGED <<runs, execs>>, Exists' = Exists PROVE UNCHANGED Jobs!vars
  BY <1>1 DEF Jobs!vars
<1>2. CASE Dispatch
  <2>1. Exists /\ Exists' /\ execs' = execs /\ <<"cron", sched.next>> \in RunId
    BY <1>2, DueSlot
    DEF Dispatch, SkipMissed, SkipOverlap, FireSlot, Due, Advance, TypeOK, Exists
  <2>2. \/ Insert(<<"cron", sched.next>>, "skipped")
        \/ ~HasActiveRun /\ Insert(<<"cron", sched.next>>, "pending")
    BY <1>2 DEF Dispatch, SkipMissed, SkipOverlap, FireSlot
  <2> QED
    BY <2>1, <2>2, InsertIsEntry DEF RunTerminal
<1>3. ASSUME NEW w \in Workers, RefuseRun(w) PROVE [Jobs!Next]_Jobs!vars
  BY <1>3, UpdateIsEnd DEF RefuseRun, RunTerminal, TypeOK, Exists
<1>4. ASSUME NEW w \in Workers, FailMissingAgent(w) PROVE [Jobs!Next]_Jobs!vars
  <2>1. sched' = sched
    BY <1>4 DEF FailMissingAgent, Bumped, SchedRow
  <2> QED
    BY <1>4, <2>1, UpdateIsEnd DEF FailMissingAgent, RunTerminal, TypeOK, Exists
<1>5. ASSUME NEW w \in Workers, ClaimRun(w) PROVE [Jobs!Next]_Jobs!vars
  <2>1. CASE runs[wk[w].run] = "pending"
    <3>1. wk[w].run \in RunId
      BY DEF TypeOK
    <3>2. Jobs!Start(wk[w].run)
      BY <1>5, <2>1 DEF ClaimRun, Exists, Jobs!Start
    <3> QED
      BY <3>1, <3>2 DEF Jobs!Next
  <2>2. CASE runs[wk[w].run] # "pending"
    BY <1>1, <1>5, <2>2 DEF ClaimRun, Exists
  <2> QED
    BY <2>1, <2>2
<1>6. ASSUME NEW w \in Workers, NEW s \in {"success", "failed", "timeout"},
             FinishRun(w, s)
      PROVE [Jobs!Next]_Jobs!vars
  <2>1. Exists => AfterRun(w, s).status # "deleted"
    BY DEF AfterRun, TypeOK, Exists
  <2>2. Exists' = Exists
    BY <1>6, <2>1 DEF FinishRun, SchedRow, Exists
  <2> QED
    BY <1>6, <2>2, UpdateIsEnd DEF FinishRun, RunTerminal, TypeOK
<1>7. ASSUME NEW r \in RunId, Reconcile(r) PROVE [Jobs!Next]_Jobs!vars
  <2>1. Exists' = Exists
    BY <1>7
    DEF Reconcile, SweepStuckRunning, SweepStuckPending, FlipOnce, SchedRow,
        Bumped, TypeOK, Exists
  <2> QED
    BY <1>7, <2>1, UpdateIsEnd
    DEF Reconcile, SweepStuckRunning, SweepStuckPending, RunTerminal
<1>8. CASE Delete
  <2>1. Jobs!Remove
    BY <1>8 DEF Delete, Allowed, Exists, TypeOK, Jobs!Remove
  <2> QED
    BY <2>1 DEF Jobs!Next
<1>9. ASSUME NEW n \in 1..MaxManual, RunNow(n) PROVE [Jobs!Next]_Jobs!vars
  <2>1. <<"manual", n>> \in RunId
    BY DEF RunId
  <2> QED
    BY <1>9, <2>1, InsertIsEntry DEF RunNow, Allowed, Exists
<1>10. CASE \/ Tick
            \/ \E r \in RunId : Enqueue(r) \/ LoseEnqueue(r)
            \/ \E w \in Workers : \/ \E r \in RunId : LoadRun(w, r)
                                  \/ AppendTurn(w) \/ WorkerCrash(w) \/ Redeliver(w)
            \/ \E op \in {"pause", "resume"} : PatchRead(op)
            \/ UNCHANGED vars
  BY <1>1, <1>10
  DEF Tick, Enqueue, LoseEnqueue, LoadRun, AppendTurn, WorkerCrash, Redeliver,
      PatchRead, vars, Exists
<1>11. CASE PatchWrite \/ Cancel \/ \E e \in EndTimes, c \in BOOLEAN : Edit(e, c)
  <2>1. Exists' = Exists
    BY <1>11 DEF PatchWrite, Cancel, Edit, Allowed, SchedRow, TypeOK, Exists
  <2> QED
    BY <1>1, <1>11, <2>1 DEF PatchWrite, Cancel, Edit
<1> QED
  BY <1>2, <1>3, <1>4, <1>5, <1>6, <1>7, <1>8, <1>9, <1>10, <1>11
  DEF Next, WorkerStep, User

\* Dispatcher, broker, workers, sweeps and clicks together behave as a queue
\* with one unfinished job, which starts each job once and revives none.
THEOREM JobQueueImplemented == Spec => ImplementsJobQueue
<1>1. Init => Jobs!Init
  BY DEF Init, Exists, Jobs!Init
<1>2. TypeOK /\ [Next]_vars => [Jobs!Next]_Jobs!vars
  BY JobStep
<1> QED
  BY <1>1, <1>2, TypeCorrect, PTL DEF Spec, ImplementsJobQueue, Jobs!Spec

-----------------------------------------------------------------------------
(* A turn is appended once.  The worker that appends it is the only one     *)
(* that ever executed the run, and has not appended it yet.                 *)

Executes(w) == wk[w].pc \in {"running", "append"}

AppendInv ==
  /\ \A w \in Workers :
       Executes(w) => execs[wk[w].run] = 1 /\ appended[wk[w].run] = 0
  /\ \A w1, w2 \in Workers :
       Executes(w1) /\ Executes(w2) /\ wk[w1].run = wk[w2].run => w1 = w2
  /\ TurnAppendedOnce

\* What every step but a claim and an append leaves.
NoneStarts ==
  /\ UNCHANGED <<execs, appended>>
  /\ \A w \in Workers : Executes(w)' => Executes(w) /\ wk'[w].run = wk[w].run

LEMMA NoneStartsPreserves ==
  ASSUME AppendInv, NoneStarts PROVE AppendInv'
BY DEF AppendInv, NoneStarts, TurnAppendedOnce

LEMMA NoneStartsStep ==
  ASSUME TypeOK, [Next]_vars, \A w \in Workers : ~ClaimRun(w) /\ ~AppendTurn(w)
  PROVE  NoneStarts
<1> USE DEF NoneStarts, Executes
<1>1. ASSUME NEW w \in Workers, NEW r \in RunId, LoadRun(w, r) PROVE NoneStarts
  BY <1>1 DEF LoadRun, TypeOK
<1>2. ASSUME NEW w \in Workers,
             RefuseRun(w) \/ FailMissingAgent(w) \/ WorkerCrash(w)
      PROVE NoneStarts
  BY <1>2 DEF RefuseRun, FailMissingAgent, WorkerCrash, Return, Idle, TypeOK
<1>3. ASSUME NEW w \in Workers, NEW s \in {"success", "failed", "timeout"},
             FinishRun(w, s)
      PROVE NoneStarts
  BY <1>3 DEF FinishRun, Idle, TypeOK
<1>4. CASE UNCHANGED <<wk, execs, appended>>
  BY <1>4
<1> QED
  BY <1>1, <1>2, <1>3, <1>4
  DEF Next, Dispatch, WorkerStep, User, Tick, SkipMissed, SkipOverlap, FireSlot,
      Enqueue, LoseEnqueue, Redeliver, Reconcile, SweepStuckRunning,
      SweepStuckPending, PatchRead, PatchWrite, Cancel, Delete, Edit, RunNow, vars

\* The answer of a one-time run is appended to its conversation at most once, and only
\* after its agent ran: however often its message is delivered or its worker dies.
THEOREM TurnAppendedOnceHolds == Spec => []TurnAppendedOnce
<1>1. Init => RunsOnceInv /\ AppendInv
  BY DEF Init, RunsOnceInv, AgentRunsOnce, Exists, AppendInv, Executes, Idle,
         TurnAppendedOnce
<1>2. TypeOK /\ RunsOnceInv /\ AppendInv /\ [Next]_vars => AppendInv'
  <2> SUFFICES ASSUME TypeOK, RunsOnceInv, AppendInv, [Next]_vars PROVE AppendInv'
    OBVIOUS
  <2>1. ASSUME NEW w \in Workers, ClaimRun(w), runs[wk[w].run] = "pending"
        PROVE  AppendInv'
    <3> DEFINE r == wk[w].run
    <3>1. r \in RunId /\ execs[r] = 0 /\ appended[r] = 0
      BY <2>1 DEF TypeOK, RunsOnceInv, AppendInv, TurnAppendedOnce
    <3>2. \A v \in Workers : Executes(v) => wk[v].run # r
      BY <3>1 DEF AppendInv
    <3>3. /\ execs' = [execs EXCEPT ![r] = 1] /\ UNCHANGED appended
          /\ wk' = [wk EXCEPT ![w].pc = "running"]
      BY <2>1, <3>1 DEF ClaimRun
    <3>4. /\ \A v \in Workers : wk'[v].run = wk[v].run
          /\ \A v \in Workers : v # w => wk'[v] = wk[v]
      BY <3>3 DEF TypeOK
    <3> HIDE DEF r
    <3>5. \A v \in Workers : v # w /\ Executes(v)' => Executes(v) /\ execs'[wk[v].run] = 1
      BY <3>1, <3>2, <3>3, <3>4 DEF TypeOK, Executes, AppendInv
    <3>6. TurnAppendedOnce'
      BY <3>1, <3>3 DEF TypeOK, AppendInv, TurnAppendedOnce
    <3>7. ASSUME NEW v \in Workers, Executes(v)'
          PROVE  execs'[wk'[v].run] = 1 /\ appended'[wk'[v].run] = 0
      BY <3>1, <3>3, <3>4, <3>5, <3>7 DEF TypeOK, AppendInv, r
    <3>8. ASSUME NEW v1 \in Workers, NEW v2 \in Workers, Executes(v1)', Executes(v2)',
                 wk'[v1].run = wk'[v2].run
          PROVE  v1 = v2
      BY <3>2, <3>4, <3>5, <3>8 DEF AppendInv, r
    <3> QED
      BY <3>6, <3>7, <3>8 DEF AppendInv
  <2>2. ASSUME NEW w \in Workers, ClaimRun(w), runs[wk[w].run] # "pending"
        PROVE  AppendInv'
    BY <2>2, NoneStartsPreserves DEF ClaimRun, Return, Idle, NoneStarts, Executes, TypeOK
  <2>3. ASSUME NEW w \in Workers, AppendTurn(w) PROVE AppendInv'
    <3> DEFINE r == wk[w].run
    <3>1. r \in RunId /\ execs[r] = 1 /\ appended[r] = 0 /\ Executes(w)
      BY <2>3 DEF TypeOK, AppendTurn, AppendInv, Executes
    <3>2. /\ appended' = [appended EXCEPT ![r] = 1] /\ UNCHANGED execs
          /\ wk' = [wk EXCEPT ![w] = Idle]
      BY <2>3, <3>1 DEF AppendTurn, Return
    <3>3. \A v \in Workers : Executes(v)' => v # w /\ Executes(v) /\ wk'[v] = wk[v]
      BY <3>2 DEF TypeOK, Executes, Idle
    <3>4. \A v \in Workers : Executes(v) /\ v # w => wk[v].run # r
      BY <3>1 DEF AppendInv
    <3> HIDE DEF r
    <3>5. TurnAppendedOnce'
      BY <3>1, <3>2 DEF TypeOK, AppendInv, TurnAppendedOnce
    <3> QED
      BY <3>2, <3>3, <3>4, <3>5 DEF AppendInv, TypeOK
  <2> QED
    BY <2>1, <2>2, <2>3, NoneStartsStep, NoneStartsPreserves
<1>3. TypeOK /\ RunsOnceInv /\ [Next]_vars => RunsOnceInv'
  BY RunsOnceStep
<1>4. AppendInv => TurnAppendedOnce
  BY DEF AppendInv
<1> QED
  BY <1>1, <1>2, <1>3, <1>4, TypeCorrect, PTL DEF Spec

-----------------------------------------------------------------------------
(* One worker per run.  Without a redelivered message a run is named by at  *)
(* most one of: the outbox, the queue, one worker.  A run is put there when *)
(* its row is inserted, so it is not there before.                          *)

Held(w) == wk[w].pc # "idle"

HeldOnce ==
  /\ \A w1, w2 \in Workers :
       Held(w1) /\ Held(w2) /\ wk[w1].run = wk[w2].run => w1 = w2
  /\ \A w \in Workers : Held(w) => wk[w].run \notin outbox \cup broker
  /\ outbox \cap broker = {}
  /\ Exists => /\ \A r \in outbox \cup broker : runs[r] # "none"
               /\ \A w \in Workers : Held(w) => runs[wk[w].run] # "none"

\* What most steps leave of the messages: none is added, none changes hands.
MessagesKept ==
  /\ outbox' \subseteq outbox
  /\ broker' \subseteq broker
  /\ \A w \in Workers : Held(w)' => Held(w) /\ wk'[w].run = wk[w].run

\* A schedule that exists after a step existed before, with the same rows and more.
RowsKept ==
  Exists' => Exists /\ \A r \in RunId : runs'[r] = "none" => runs[r] = "none"

LEMMA RowsKeptStep ==
  ASSUME TypeOK, [Next]_vars PROVE RowsKept
<1>1. CASE Delete
  BY <1>1 DEF Delete, RowsKept, Exists, TypeOK
<1>2. ASSUME NEW w \in Workers, ClaimRun(w) PROVE RowsKept
  BY <1>2 DEF ClaimRun, RowsKept, Exists, TypeOK
<1>3. CASE ~Delete /\ \A w \in Workers : ~ClaimRun(w)
  BY <1>3, KeptStep DEF RunsKept, RowsKept
<1> QED
  BY <1>1, <1>2, <1>3

LEMMA HeldOnceKept ==
  ASSUME TypeOK, HeldOnce, RowsKept, MessagesKept PROVE HeldOnce'
BY DEF HeldOnce, RowsKept, MessagesKept, TypeOK

\* The steps that add a message or hand one over.
HandOver ==
  \/ FireSlot
  \/ \E n \in 1..MaxManual : RunNow(n)
  \/ \E r \in RunId : Enqueue(r)
  \/ \E w \in Workers : \/ \E r \in RunId : LoadRun(w, r)
                        \/ WorkerCrash(w) \/ Redeliver(w)

LEMMA MessagesKeptStep ==
  ASSUME TypeOK, [Next]_vars, ~HandOver PROVE MessagesKept
<1> USE DEF MessagesKept, Held
<1>1. ASSUME NEW w \in Workers,
             RefuseRun(w) \/ FailMissingAgent(w) \/ AppendTurn(w)
      PROVE MessagesKept
  BY <1>1 DEF RefuseRun, FailMissingAgent, AppendTurn, Return, Idle, TypeOK
<1>2. ASSUME NEW w \in Workers, ClaimRun(w) PROVE MessagesKept
  BY <1>2 DEF ClaimRun, Return, Idle, TypeOK
<1>3. ASSUME NEW w \in Workers, NEW s \in {"success", "failed", "timeout"},
             FinishRun(w, s)
      PROVE MessagesKept
  BY <1>3 DEF FinishRun, Idle, TypeOK
<1>4. ASSUME outbox' \subseteq outbox, UNCHANGED <<broker, wk>> PROVE MessagesKept
  BY <1>4
<1>5. CASE \/ Tick \/ SkipMissed \/ SkipOverlap \/ (\E r \in RunId : Reconcile(r))
           \/ UNCHANGED vars
  BY <1>4, <1>5
  DEF Tick, SkipMissed, SkipOverlap, Reconcile, SweepStuckRunning,
      SweepStuckPending, vars
<1>6. CASE \/ \E op \in {"pause", "resume"} : PatchRead(op)
           \/ PatchWrite \/ Cancel \/ Delete
           \/ \E e \in EndTimes, c \in BOOLEAN : Edit(e, c)
  BY <1>4, <1>6 DEF PatchRead, PatchWrite, Cancel, Delete, Edit
<1>7. ASSUME NEW r \in RunId, LoseEnqueue(r) PROVE MessagesKept
  BY <1>4, <1>7 DEF LoseEnqueue
<1> QED
  BY <1>1, <1>2, <1>3, <1>5, <1>6, <1>7
  DEF Next, Dispatch, WorkerStep, User, HandOver

\* A run inserted just now is named nowhere yet.
LEMMA FreshRun ==
  ASSUME TypeOK, HeldOnce, RowsKept, Exists, NEW r \in RunId, runs[r] = "none",
         runs'[r] # "none", outbox' = outbox \cup {r}, UNCHANGED <<broker, wk>>
  PROVE  HeldOnce'
<1>1. r \notin broker /\ \A w \in Workers : Held(w) => wk[w].run # r
  BY DEF HeldOnce
<1>2. \A w \in Workers : Held(w)' = Held(w)
  BY DEF Held
<1>3. \A w \in Workers : Held(w)' => wk'[w].run \notin outbox' \cup broker'
  BY <1>1, <1>2 DEF HeldOnce
<1>4. outbox' \cap broker' = {}
  BY <1>1 DEF HeldOnce
<1>5. Exists' => \A q \in outbox' \cup broker' : runs'[q] # "none"
  BY DEF HeldOnce, RowsKept, TypeOK
<1>6. Exists' => \A w \in Workers : Held(w)' => runs'[wk'[w].run] # "none"
  BY <1>2 DEF HeldOnce, RowsKept, TypeOK
<1> QED
  BY <1>2, <1>3, <1>4, <1>5, <1>6 DEF HeldOnce

LEMMA HeldOnceStep ==
  ASSUME "redeliver" \notin Faults, TypeOK, HeldOnce, [Next]_vars
  PROVE  HeldOnce'
<1>1. RowsKept
  BY RowsKeptStep
<1>2. CASE FireSlot
  <2>1. Exists /\ <<"cron", sched.next>> \in RunId
    BY <1>2, DueSlot DEF FireSlot, Due, Exists
  <2>2. CASE runs[<<"cron", sched.next>>] = "none"
    BY <1>1, <1>2, <2>1, <2>2, FreshRun DEF FireSlot, Insert, TypeOK
  <2>3. CASE runs[<<"cron", sched.next>>] # "none"
    <3>1. MessagesKept
      BY <1>2, <2>3 DEF FireSlot, MessagesKept, Held
    <3> QED
      BY <1>1, <3>1, HeldOnceKept
  <2> QED
    BY <2>2, <2>3
<1>3. ASSUME NEW n \in 1..MaxManual, RunNow(n) PROVE HeldOnce'
  <2>1. <<"manual", n>> \in RunId
    BY DEF RunId
  <2> QED
    BY <1>1, <1>3, <2>1, FreshRun DEF RunNow, Allowed, Insert, TypeOK
<1>4. ASSUME NEW r \in RunId, Enqueue(r) PROVE HeldOnce'
  <2>1. /\ r \in outbox /\ outbox' = outbox \ {r} /\ broker' = broker \cup {r}
        /\ UNCHANGED <<sched, runs, wk>>
    BY <1>4 DEF Enqueue
  <2>2. outbox' \cup broker' = outbox \cup broker /\ outbox' \cap broker' = {}
    BY <2>1 DEF HeldOnce
  <2>3. (Exists' <=> Exists) /\ \A w \in Workers : Held(w)' <=> Held(w)
    BY <2>1 DEF Exists, Held
  <2> QED
    BY <2>1, <2>2, <2>3 DEF HeldOnce
<1>5. ASSUME NEW w \in Workers, NEW r \in RunId, LoadRun(w, r) PROVE HeldOnce'
  <2>1. /\ r \in broker /\ broker' = broker \ {r} /\ ~Held(w)
        /\ UNCHANGED <<sched, runs, outbox>>
    BY <1>5 DEF LoadRun, Held
  <2>2. CASE runs[r] # "pending"
    <3>1. MessagesKept
      BY <1>5, <2>1, <2>2 DEF LoadRun, MessagesKept, Held
    <3> QED
      BY <1>1, <3>1, HeldOnceKept
  <2>3. CASE runs[r] = "pending"
    <3>1. /\ wk'[w].run = r /\ Held(w)'
          /\ \A v \in Workers : v # w => wk'[v] = wk[v]
      BY <1>5, <2>3 DEF LoadRun, Held, TypeOK
    <3>2. /\ r \notin outbox' \cup broker'
          /\ \A v \in Workers : Held(v) => wk[v].run # r
      BY <2>1 DEF HeldOnce
    <3>3. \A v \in Workers : v # w /\ Held(v)' => Held(v) /\ wk'[v] = wk[v]
      BY <3>1 DEF Held
    <3>4. \A v \in Workers : Held(v)' => wk'[v].run \notin outbox' \cup broker'
      BY <2>1, <3>1, <3>2, <3>3 DEF HeldOnce
    <3>5. outbox' \cap broker' = {}
      BY <2>1 DEF HeldOnce
    <3>6. \A v1, v2 \in Workers :
            Held(v1)' /\ Held(v2)' /\ wk'[v1].run = wk'[v2].run => v1 = v2
      BY <3>1, <3>2, <3>3 DEF HeldOnce
    <3>7. Exists' => /\ \A q \in outbox' \cup broker' : runs'[q] # "none"
                     /\ \A v \in Workers : Held(v)' => runs'[wk'[v].run] # "none"
      BY <2>1, <2>3, <3>1, <3>3 DEF HeldOnce, Exists
    <3> QED
      BY <3>4, <3>5, <3>6, <3>7 DEF HeldOnce
  <2> QED
    BY <2>2, <2>3
<1>6. ASSUME NEW w \in Workers, WorkerCrash(w) PROVE HeldOnce'
  <2> DEFINE r == wk[w].run
  <2>1. /\ Held(w) /\ broker' = broker \cup {r} /\ wk' = [wk EXCEPT ![w] = Idle]
        /\ UNCHANGED <<sched, runs, outbox>>
    BY <1>6 DEF WorkerCrash, Return, Held
  <2>2. \A v \in Workers : Held(v)' => Held(v) /\ v # w /\ wk'[v] = wk[v]
    BY <2>1 DEF Held, Idle, TypeOK
  <2>3. r \notin outbox /\ \A v \in Workers : Held(v) /\ v # w => wk[v].run # r
    BY <2>1 DEF HeldOnce
  <2>4. Exists => runs[r] # "none"
    BY <2>1 DEF HeldOnce
  <2> HIDE DEF r
  <2>5. \A v \in Workers : Held(v)' => wk'[v].run \notin outbox' \cup broker'
    BY <2>1, <2>2, <2>3 DEF HeldOnce
  <2>6. outbox' \cap broker' = {}
    BY <2>1, <2>3 DEF HeldOnce
  <2>7. \A v1, v2 \in Workers :
          Held(v1)' /\ Held(v2)' /\ wk'[v1].run = wk'[v2].run => v1 = v2
    BY <2>2 DEF HeldOnce
  <2>8. Exists' => /\ \A q \in outbox' \cup broker' : runs'[q] # "none"
                   /\ \A v \in Workers : Held(v)' => runs'[wk'[v].run] # "none"
    BY <2>1, <2>2, <2>4 DEF HeldOnce, Exists
  <2> QED
    BY <2>5, <2>6, <2>7, <2>8 DEF HeldOnce
<1>7. CASE ~HandOver
  BY <1>1, <1>7, MessagesKeptStep, HeldOnceKept
<1> QED
  BY <1>2, <1>3, <1>4, <1>5, <1>6, <1>7 DEF HandOver, Redeliver

-----------------------------------------------------------------------------
(* Agents never overlap.  Two running workers of a live schedule hold runs  *)
(* that are running, so the same run, so they are the same worker; on a     *)
(* deleted schedule nothing starts.                                         *)

RunningRow ==
  Exists => \A w \in Workers : wk[w].pc = "running" => runs[wk[w].run] = "running"

OverlapInv == HeldOnce /\ RunningRow /\ AgentsNeverOverlap

\* A worker is running after a step if it was before or has just claimed its run.
LEMMA StartsByClaim ==
  ASSUME TypeOK, [Next]_vars, NEW w \in Workers, wk'[w].pc = "running"
  PROVE  \/ wk[w].pc = "running" /\ wk'[w].run = wk[w].run
         \/ ClaimRun(w) /\ runs[wk[w].run] = "pending"
<1>1. CASE ~ClaimRun(w)
  <2>1. ASSUME NEW v \in Workers, ClaimRun(v) PROVE wk'[w] = wk[w]
    BY <1>1, <2>1 DEF ClaimRun, Return, TypeOK
  <2>2. ASSUME NEW v \in Workers, AppendTurn(v) PROVE wk'[w] = wk[w]
    BY <2>2 DEF AppendTurn, Return, Idle, TypeOK
  <2>3. ASSUME \A v \in Workers : ~ClaimRun(v) /\ ~AppendTurn(v),
               wk[w].pc # "running"
        PROVE  wk'[w].pc # "running"
    <3>1. ASSUME NEW v \in Workers, NEW r \in RunId, LoadRun(v, r)
          PROVE wk'[w].pc # "running"
      BY <2>3, <3>1 DEF LoadRun, TypeOK
    <3>2. ASSUME NEW v \in Workers,
                 RefuseRun(v) \/ FailMissingAgent(v) \/ WorkerCrash(v)
          PROVE wk'[w].pc # "running"
      BY <2>3, <3>2 DEF RefuseRun, FailMissingAgent, WorkerCrash, Return, Idle, TypeOK
    <3>3. ASSUME NEW v \in Workers, NEW s \in {"success", "failed", "timeout"},
                 FinishRun(v, s)
          PROVE wk'[w].pc # "running"
      BY <2>3, <3>3 DEF FinishRun, Idle, TypeOK
    <3>4. CASE UNCHANGED wk
      BY <2>3, <3>4
    <3> QED
      BY <2>3, <3>1, <3>2, <3>3, <3>4
      DEF Next, Dispatch, WorkerStep, User, Tick, SkipMissed, SkipOverlap, FireSlot,
          Enqueue, LoseEnqueue, Redeliver, Reconcile, SweepStuckRunning,
          SweepStuckPending, PatchRead, PatchWrite, Cancel, Delete, Edit, RunNow, vars
  <2>4. ASSUME \A v \in Workers : ~ClaimRun(v) /\ ~AppendTurn(v)
        PROVE  wk'[w].run = wk[w].run
    BY <2>4, NoneStartsStep DEF NoneStarts, Executes
  <2> QED
    BY <2>1, <2>2, <2>3, <2>4
<1>2. CASE ClaimRun(w)
  BY <1>2 DEF ClaimRun, Return, Idle, TypeOK
<1> QED
  BY <1>1, <1>2

LEMMA RunningRowStep ==
  ASSUME TypeOK, OverlapInv, [Next]_vars PROVE RunningRow'
<1> SUFFICES ASSUME Exists', NEW w \in Workers, wk'[w].pc = "running"
             PROVE  runs'[wk'[w].run] = "running"
  BY DEF RunningRow
<1>1. CASE ClaimRun(w) /\ runs[wk[w].run] = "pending"
  BY <1>1 DEF ClaimRun, TypeOK
<1>2. CASE wk[w].pc = "running" /\ wk'[w].run = wk[w].run
  <2> DEFINE r == wk[w].run
  <2>1. Exists /\ r \in RunId /\ runs[r] = "running" /\ Held(w)
    BY <1>2, RowsKeptStep DEF OverlapInv, RunningRow, RowsKept, Held, TypeOK
  <2>2. \A v \in Workers : Held(v) /\ v # w => wk[v].run # r
    BY <2>1 DEF OverlapInv, HeldOnce
  <2>3. ASSUME NEW v \in Workers, v # w, Held(v), NEW s, UpdateRun(wk[v].run, s)
        PROVE  runs'[r] = "running"
    BY <2>1, <2>2, <2>3 DEF UpdateRun, TypeOK
  <2>4. CASE Dispatch \/ \E n \in 1..MaxManual : RunNow(n)
    <3>1. PICK q, s : Insert(q, s)
      <4>1. CASE SkipMissed \/ SkipOverlap
        BY <4>1 DEF SkipMissed, SkipOverlap
      <4>2. CASE FireSlot
        BY <4>2 DEF FireSlot
      <4>3. CASE \E n \in 1..MaxManual : RunNow(n)
        BY <4>3 DEF RunNow
      <4> QED
        BY <2>4, <4>1, <4>2, <4>3 DEF Dispatch
    <3>2. runs'[r] = runs[r]
      BY <2>1, <3>1 DEF Insert, TypeOK
    <3> QED
      BY <1>2, <2>1, <3>2
  <2>5. ASSUME NEW v \in Workers,
               \/ RefuseRun(v) \/ FailMissingAgent(v)
               \/ \E s \in {"success", "failed", "timeout"} : FinishRun(v, s)
        PROVE  runs'[r] = "running"
    <3>1. Held(v) /\ wk'[v].pc # "running"
      BY <2>5 DEF RefuseRun, FailMissingAgent, FinishRun, Return, Idle, Held, TypeOK
    <3> QED
      BY <2>3, <2>5, <3>1 DEF RefuseRun, FailMissingAgent, FinishRun
  <2>6. ASSUME NEW v \in Workers, ClaimRun(v) PROVE runs'[r] = "running"
    BY <2>1, <2>6 DEF ClaimRun, TypeOK
  <2>7. ASSUME NEW q \in RunId, Reconcile(q) PROVE runs'[r] = "running"
    <3>1. q # r
      BY <1>2, <2>1, <2>7 DEF Reconcile, SweepStuckRunning, SweepStuckPending
    <3> QED
      BY <2>1, <2>7, <3>1
      DEF Reconcile, SweepStuckRunning, SweepStuckPending, UpdateRun, TypeOK
  <2>8. ~Delete
    BY DEF Delete, Exists, TypeOK
  <2>9. CASE UNCHANGED runs
    BY <1>2, <2>1, <2>9
  <2> QED
    BY <1>2, <2>4, <2>5, <2>6, <2>7, <2>8, <2>9
    DEF Next, WorkerStep, User, Tick, Enqueue, LoseEnqueue, LoadRun, AppendTurn,
        WorkerCrash, Redeliver, PatchRead, PatchWrite, Cancel, Edit, vars
<1> QED
  BY <1>1, <1>2, StartsByClaim

LEMMA OverlapInvStep ==
  ASSUME "redeliver" \notin Faults, TypeOK, RunsOnceInv, OneActiveRun', OverlapInv,
         TypeOK', [Next]_vars
  PROVE  OverlapInv'
<1>1. HeldOnce' /\ RunningRow'
  BY HeldOnceStep, RunningRowStep DEF OverlapInv
<1>2. ASSUME NEW w1 \in Workers, NEW w2 \in Workers,
             wk'[w1].pc = "running", wk'[w2].pc = "running"
      PROVE  w1 = w2
  <2>1. CASE Exists'
    <3>1. /\ runs'[wk'[w1].run] = "running" /\ runs'[wk'[w2].run] = "running"
          /\ wk'[w1].run \in RunId /\ wk'[w2].run \in RunId
      BY <1>1, <1>2, <2>1 DEF RunningRow, TypeOK
    <3>2. wk'[w1].run = wk'[w2].run
      BY <3>1 DEF OneActiveRun, RunActive
    <3>3. Held(w1)' /\ Held(w2)'
      BY <1>2 DEF Held
    <3> QED
      BY <1>1, <3>2, <3>3 DEF HeldOnce
  <2>2. CASE ~Exists'
    <3>1. ASSUME NEW w \in Workers, ClaimRun(w) PROVE runs[wk[w].run] # "pending"
      <4>1. ~Exists /\ wk[w].run \in RunId
        BY <2>2, <3>1 DEF ClaimRun, Exists, TypeOK
      <4> QED
        BY <4>1 DEF RunsOnceInv
    <3>2. wk[w1].pc = "running" /\ wk[w2].pc = "running"
      BY <1>2, <3>1, StartsByClaim
    <3> QED
      BY <3>2 DEF OverlapInv, AgentsNeverOverlap
  <2> QED
    BY <2>1, <2>2
<1> QED
  BY <1>1, <1>2 DEF OverlapInv, AgentsNeverOverlap

\* While the broker hands out no message a second time before its worker is gone, two
\* agents of one schedule never execute at once, whatever else is lost or crashes.
THEOREM AgentsNeverOverlapHolds ==
  ASSUME "redeliver" \notin Faults
  PROVE  Spec => []AgentsNeverOverlap
<1>1. Init => RunsOnceInv /\ OverlapInv
  BY DEF Init, RunsOnceInv, AgentRunsOnce, Exists, OverlapInv, HeldOnce, Held,
         RunningRow, AgentsNeverOverlap, Idle
<1>2. TypeOK /\ TypeOK' /\ RunsOnceInv /\ OneActiveRun' /\ OverlapInv /\ [Next]_vars
        => OverlapInv'
  BY OverlapInvStep
<1>3. TypeOK /\ RunsOnceInv /\ [Next]_vars => RunsOnceInv'
  BY RunsOnceStep
<1>4. OverlapInv => AgentsNeverOverlap
  BY DEF OverlapInv
<1> QED
  BY <1>1, <1>2, <1>3, <1>4, TypeCorrect, OneActiveRunHolds, PTL DEF Spec

-----------------------------------------------------------------------------
(* The life of a one-time schedule, when the user cancels, deletes or edits *)
(* it and no message is delivered twice.  Its only row is that of its slot; *)
(* the row is inserted when the slot is taken from the schedule, and the    *)
(* step that ends the row completes an active schedule.                     *)

OnceRow ==
  sched.trigger = "once" =>
    /\ sched.runAt \in Nat
    /\ sched.next \in {NoTime, sched.runAt}
    /\ \A r \in RunId : runs[r] # "none" => r = <<"cron", sched.runAt>>
    /\ sched.next # NoTime => \A r \in RunId : runs[r] = "none"
    /\ sched.status = "active" /\ sched.next = NoTime => HasActiveRun
    /\ sched.status = "completed" =>
         \E r \in RunId : runs[r] \in {"success", "failed", "timeout"}

\* Workers refuse a run only when the schedule is over, and whoever loaded a
\* run of a schedule that is still active has read it as active.
OnceWorkers ==
  sched.trigger = "once" =>
    /\ \A w \in Workers : wk[w].pc = "refuse" => sched.status \in {"cancelled", "deleted"}
    /\ sched.status = "active" => \A w \in Workers : Held(w) => wk[w].seen = "active"

OnceInv == patch = NoPatch /\ OnceRow /\ OnceWorkers

OnlyEnds == Ops \subseteq {"cancel", "delete", "edit"}

\* What the row of a one-time schedule becomes: none of its steps re-arms it.
OnceSched ==
  /\ sched' \in ScheduleRow
  /\ sched'.trigger = sched.trigger
  /\ sched'.runAt = sched.runAt

LEMMA SchedStep ==
  ASSUME OnlyEnds, patch = NoPatch, TypeOK, TypeOK', [Next]_vars
  PROVE  OnceSched
<1>1. sched' \in ScheduleRow
  BY DEF TypeOK, ScheduleRow
<1>2. CASE Dispatch
  BY <1>1, <1>2
  DEF Dispatch, SkipMissed, SkipOverlap, FireSlot, Advance, OnceSched, TypeOK
<1>3. ASSUME NEW w \in Workers, NEW s, FinishRun(w, s) PROVE OnceSched
  <2>1. /\ AfterRun(w, s).trigger = sched.trigger
        /\ AfterRun(w, s).runAt = sched.runAt
    BY DEF AfterRun, TypeOK
  <2> QED
    BY <1>1, <1>3, <2>1 DEF FinishRun, SchedRow, OnceSched
<1>4. ASSUME NEW r \in RunId, Reconcile(r) PROVE OnceSched
  BY <1>1, <1>4
  DEF Reconcile, SweepStuckRunning, SweepStuckPending, FlipOnce, SchedRow, Bumped,
      OnceSched, TypeOK
<1>5. CASE Cancel \/ Delete \/ \E e \in EndTimes, c \in BOOLEAN : Edit(e, c)
  BY <1>1, <1>5 DEF Cancel, Delete, Edit, OnceSched, TypeOK
<1>6. ASSUME NEW w \in Workers, FailMissingAgent(w) PROVE OnceSched
  BY <1>1, <1>6 DEF FailMissingAgent, Bumped, SchedRow, OnceSched
<1>7. ~PatchWrite
  BY DEF PatchWrite
<1>8. CASE UNCHANGED sched
  BY <1>1, <1>8 DEF OnceSched
<1> QED
  BY <1>2, <1>3, <1>4, <1>5, <1>6, <1>7, <1>8
  DEF Next, WorkerStep, User, Tick, Enqueue, LoseEnqueue, LoadRun, RefuseRun,
      ClaimRun, AppendTurn, WorkerCrash, Redeliver, PatchRead, RunNow, vars

LEMMA PatchStep ==
  ASSUME OnlyEnds, patch = NoPatch, [Next]_vars
  PROVE  /\ patch' = NoPatch
         /\ ~PatchWrite
         /\ \A op \in {"pause", "resume"} : ~PatchRead(op)
         /\ \A n \in 1..MaxManual : ~RunNow(n)
<1>1. /\ ~PatchWrite
      /\ \A op \in {"pause", "resume"} : ~PatchRead(op)
      /\ \A n \in 1..MaxManual : ~RunNow(n)
  BY DEF OnlyEnds, PatchWrite, PatchRead, RunNow, Allowed
<1> QED
  BY <1>1
  DEF Next, Dispatch, WorkerStep, User, Tick, SkipMissed, SkipOverlap, FireSlot,
      Enqueue, LoseEnqueue, LoadRun, RefuseRun, FailMissingAgent, ClaimRun,
      FinishRun, AppendTurn, WorkerCrash, Redeliver, Reconcile,
      SweepStuckRunning, SweepStuckPending, Cancel, Delete, Edit, vars

\* The end of the row of the slot: it was there, and an active schedule completes.
LEMMA OnceEnds ==
  ASSUME TypeOK, OnceRow, OnceSched, sched.trigger = "once", Exists,
         NEW r \in RunId, runs[r] \in RunActive,
         NEW s \in {"success", "failed", "timeout"}, UpdateRun(r, s),
         sched'.next \in {sched.next, NoTime}, sched'.status # "active"
  PROVE  OnceRow'
<1>1. r = <<"cron", sched.runAt>> /\ sched.next = NoTime
  BY DEF OnceRow, RunActive
<1>2. runs' = [runs EXCEPT ![r] = s]
  BY DEF UpdateRun, RunActive
<1>3. \A q \in RunId : runs'[q] # "none" => q = <<"cron", sched'.runAt>>
  BY <1>1, <1>2 DEF OnceRow, OnceSched, TypeOK
<1>4. runs'[r] \in {"success", "failed", "timeout"}
  BY <1>2 DEF TypeOK
<1> QED
  BY <1>1, <1>3, <1>4 DEF OnceRow, OnceSched

LEMMA OnceRowStep ==
  ASSUME OnlyEnds, TypeOK, TypeOK', RunsOnceInv, RunningRow, OnceInv, [Next]_vars
  PROVE  OnceRow'
<1> SUFFICES ASSUME sched.trigger = "once" PROVE OnceRow'
  BY SchedStep DEF OnceInv, OnceRow, OnceSched
<1>1. OnceSched
  BY SchedStep DEF OnceInv
<1>2. CASE Dispatch
  <2>1. /\ Due /\ sched.status = "active" /\ sched.next = sched.runAt
        /\ sched.next # NoTime /\ \A r \in RunId : runs[r] = "none"
    BY <1>2 DEF Dispatch, SkipMissed, SkipOverlap, FireSlot, Due, OnceInv, OnceRow
  <2>2. ~HasActiveRun /\ ~Misfired
    BY <2>1 DEF HasActiveRun, RunActive, Misfired
  <2>3. FireSlot
    BY <1>2, <2>2 DEF Dispatch, SkipMissed, SkipOverlap
  <2> DEFINE r == <<"cron", sched.runAt>>
  <2>4. r \in RunId
    BY <2>1, DueSlot
  <2>5. /\ runs' = [runs EXCEPT ![r] = "pending"]
        /\ sched' = [sched EXCEPT !.next = NoTime]
    BY <2>1, <2>3, <2>4 DEF FireSlot, Insert
  <2> HIDE DEF r
  <2>6. runs'[r] = "pending" /\ \A q \in RunId : q # r => runs'[q] = "none"
    BY <2>1, <2>4, <2>5 DEF TypeOK
  <2>7. sched'.next = NoTime /\ sched'.status = "active" /\ sched'.runAt = sched.runAt
    BY <2>1, <2>5 DEF TypeOK
  <2>8. HasActiveRun'
    BY <2>4, <2>6 DEF HasActiveRun, RunActive
  <2> QED
    BY <1>1, <2>6, <2>7, <2>8 DEF OnceRow, OnceInv, OnceSched, r
<1>3. ASSUME NEW w \in Workers, RefuseRun(w) \/ FailMissingAgent(w) PROVE OnceRow'
  <2>1. wk[w].run \in RunId /\ sched.status \in {"cancelled", "deleted"}
    BY <1>3 DEF RefuseRun, FailMissingAgent, OnceInv, OnceWorkers, Exists, TypeOK
  <2>2. sched' = sched
    BY <1>3 DEF RefuseRun, FailMissingAgent, Bumped, SchedRow
  <2>3. \A q \in RunId : runs'[q] # "none" => runs[q] # "none"
    BY <1>3, <2>1 DEF RefuseRun, FailMissingAgent, UpdateRun, TypeOK
  <2> QED
    BY <2>1, <2>2, <2>3 DEF OnceRow, OnceInv
<1>4. ASSUME NEW w \in Workers, ClaimRun(w) PROVE OnceRow'
  <2> DEFINE r == wk[w].run
  <2>1. CASE runs[r] # "pending"
    BY <1>4, <2>1 DEF ClaimRun, OnceInv, OnceRow, HasActiveRun
  <2>2. CASE runs[r] = "pending"
    <3>1. r \in RunId /\ sched' = sched /\ runs' = [runs EXCEPT ![r] = "running"]
      BY <1>4, <2>2 DEF ClaimRun, TypeOK
    <3> HIDE DEF r
    <3>2. \A q \in RunId : runs'[q] # "none" => runs[q] # "none"
      BY <2>2, <3>1 DEF TypeOK
    <3>3. HasActiveRun' /\ sched.next = NoTime
      BY <2>2, <3>1 DEF HasActiveRun, RunActive, TypeOK, OnceInv, OnceRow
    <3>4. sched.status # "completed"
      BY <2>2, <3>1 DEF OnceInv, OnceRow
    <3> QED
      BY <3>1, <3>2, <3>3, <3>4 DEF OnceInv, OnceRow
  <2> QED
    BY <2>1, <2>2
<1>5. ASSUME NEW w \in Workers, NEW s \in {"success", "failed", "timeout"},
             FinishRun(w, s)
      PROVE OnceRow'
  <2> DEFINE r == wk[w].run
  <2>1. r \in RunId /\ UpdateRun(r, s) /\ Held(w)
    BY <1>5 DEF FinishRun, Held, TypeOK
  <2>2. CASE ~Exists
    <3>1. sched' = sched /\ sched.status = "deleted"
      BY <1>5, <2>2 DEF FinishRun, SchedRow, Exists
    <3>2. \A q \in RunId : runs'[q] # "none" => runs[q] # "none"
      BY <2>1 DEF UpdateRun, TypeOK
    <3> QED
      BY <3>1, <3>2 DEF OnceInv, OnceRow
  <2>3. CASE Exists
    <3>1. runs[r] \in RunActive /\ r[1] # "manual"
      BY <1>5, <2>1, <2>3 DEF RunningRow, FinishRun, RunActive, OnceInv, OnceRow
    <3>2. sched' = AfterRun(w, s)
      BY <1>5, <2>3 DEF FinishRun, SchedRow
    <3>3. CASE wk[w].seen = "active"
      <4>1. sched'.status = "completed" /\ sched'.next = NoTime
        BY <3>1, <3>2, <3>3 DEF AfterRun, TypeOK
      <4> QED
        BY <1>1, <2>1, <2>3, <3>1, <4>1, OnceEnds DEF OnceInv
    <3>4. CASE wk[w].seen # "active"
      <4>1. sched.status # "active"
        BY <2>1, <3>4 DEF OnceInv, OnceWorkers
      <4>2. sched'.status = sched.status /\ sched'.next = sched.next
        BY <3>2, <3>4, <4>1 DEF AfterRun, TypeOK
      <4> QED
        BY <1>1, <2>1, <2>3, <3>1, <4>1, <4>2, OnceEnds DEF OnceInv
    <3> QED
      BY <3>3, <3>4
  <2> QED
    BY <2>2, <2>3
<1>6. ASSUME NEW r \in RunId, Reconcile(r) PROVE OnceRow'
  <2>1. PICK s \in {"success", "failed", "timeout"} : UpdateRun(r, s)
    BY <1>6 DEF Reconcile, SweepStuckRunning, SweepStuckPending
  <2>2. runs[r] \in RunActive /\ sched' = FlipOnce
    BY <1>6 DEF Reconcile, SweepStuckRunning, SweepStuckPending, RunActive
  <2>3. Exists
    BY <2>2 DEF RunsOnceInv, RunActive
  <2>4. sched'.status # "active" /\ sched'.next \in {sched.next, NoTime}
    BY <2>2, <2>3 DEF FlipOnce, SchedRow, Bumped, TypeOK
  <2> QED
    BY <1>1, <2>1, <2>2, <2>3, <2>4, OnceEnds DEF OnceInv
<1>7. CASE Cancel
  <2>1. /\ runs' = runs /\ sched'.next = NoTime /\ sched'.status = "cancelled"
        /\ sched'.runAt = sched.runAt
    BY <1>7 DEF Cancel, TypeOK
  <2> QED
    BY <1>1, <2>1 DEF OnceSched, OnceInv, OnceRow
<1>8. CASE Delete
  <2>1. /\ \A r \in RunId : runs'[r] = "none"
        /\ sched'.next = NoTime /\ sched'.status = "deleted"
        /\ sched'.runAt = sched.runAt
    BY <1>8 DEF Delete, TypeOK
  <2> QED
    BY <1>1, <2>1 DEF OnceSched, OnceInv, OnceRow
<1>9. ASSUME NEW e \in EndTimes, NEW c \in BOOLEAN, Edit(e, c) PROVE OnceRow'
  <2>1. /\ runs' = runs /\ sched'.next = sched.next /\ sched'.status = sched.status
        /\ sched'.runAt = sched.runAt
    BY <1>9 DEF Edit, TypeOK
  <2> QED
    BY <1>1, <2>1 DEF OnceSched, OnceInv, OnceRow, HasActiveRun
<1>10. CASE UNCHANGED <<sched, runs>>
  BY <1>10 DEF OnceInv, OnceRow, HasActiveRun
<1> QED
  BY <1>2, <1>3, <1>4, <1>5, <1>6, <1>7, <1>8, <1>9, <1>10, PatchStep
  DEF Next, WorkerStep, User, OnceInv, Tick, Enqueue, LoseEnqueue, LoadRun,
      AppendTurn, WorkerCrash, Redeliver, vars

\* A status is left for good: nothing makes a one-time schedule active again, and only
\* the end of its run, or of a schedule nobody ended, makes it completed.
LEMMA OnceStatusStep ==
  ASSUME OnlyEnds, TypeOK, TypeOK', OnceInv, [Next]_vars, sched.trigger = "once"
  PROVE  \/ sched'.status = sched.status
         \/ sched'.status \in {"cancelled", "deleted"}
         \/ /\ sched'.status = "completed"
            /\ \/ sched.status \notin {"cancelled", "deleted"}
               \/ \E w \in Workers : Exists /\ wk[w].pc = "running"
<1>1. CASE Dispatch
  <2>1. ~Misfired
    BY DEF Misfired
  <2> QED
    BY <1>1, <2>1 DEF Dispatch, SkipMissed, SkipOverlap, FireSlot, TypeOK
<1>2. ASSUME NEW w \in Workers, NEW s, FinishRun(w, s)
      PROVE  \/ sched'.status = sched.status
             \/ sched'.status = "completed" /\ Exists /\ wk[w].pc = "running"
  <2>1. AfterRun(w, s).status \in {sched.status, "completed"}
    BY DEF AfterRun, TypeOK
  <2> QED
    BY <1>2, <2>1 DEF FinishRun, SchedRow
<1>3. ASSUME NEW r \in RunId, Reconcile(r)
      PROVE  \/ sched'.status = sched.status
             \/ /\ sched'.status = "completed"
                /\ sched.status \notin {"cancelled", "deleted"}
  BY <1>3 DEF Reconcile, SweepStuckRunning, SweepStuckPending, FlipOnce, SchedRow,
              Bumped, Exists, TypeOK
<1>4. CASE Cancel \/ Delete \/ \E e \in EndTimes, c \in BOOLEAN : Edit(e, c)
  BY <1>4 DEF Cancel, Delete, Edit, TypeOK
<1>5. ASSUME NEW w \in Workers, FailMissingAgent(w) PROVE sched' = sched
  BY <1>5 DEF FailMissingAgent, Bumped, SchedRow
<1>6. CASE UNCHANGED sched
  BY <1>6
<1> QED
  BY <1>1, <1>2, <1>3, <1>4, <1>5, <1>6, PatchStep
  DEF Next, WorkerStep, User, OnceInv, Tick, Enqueue, LoseEnqueue, LoadRun,
      RefuseRun, ClaimRun, AppendTurn, WorkerCrash, Redeliver, vars

\* A worker is where it was, or it just loaded a pending run of the schedule.
LEMMA LoadStep ==
  ASSUME TypeOK, [Next]_vars, NEW w \in Workers, Held(w)'
  PROVE  \/ /\ Held(w) /\ wk'[w].seen = wk[w].seen
            /\ wk'[w].pc = "refuse" => wk[w].pc = "refuse"
         \/ /\ wk'[w].seen = sched.status /\ UNCHANGED sched
            /\ \E r \in RunId : /\ runs[r] = "pending"
                                /\ wk'[w].pc = "refuse" => Refused(r)
<1>1. ASSUME NEW v \in Workers, NEW r \in RunId, LoadRun(v, r)
      PROVE  \/ wk'[w] = wk[w]
             \/ /\ wk'[w].seen = sched.status /\ UNCHANGED sched
                /\ runs[r] = "pending" /\ (wk'[w].pc = "refuse" => Refused(r))
  BY <1>1 DEF LoadRun, TypeOK
<1>2. ASSUME NEW v \in Workers,
             \/ RefuseRun(v) \/ FailMissingAgent(v) \/ AppendTurn(v)
             \/ WorkerCrash(v)
      PROVE  wk'[w] = wk[w]
  BY <1>2 DEF RefuseRun, FailMissingAgent, AppendTurn, WorkerCrash, Return, Idle,
              Held, TypeOK
<1>3. ASSUME NEW v \in Workers, ClaimRun(v)
      PROVE  /\ Held(w) /\ wk'[w].seen = wk[w].seen
             /\ wk'[w].pc = "refuse" => wk[w].pc = "refuse"
  BY <1>3 DEF ClaimRun, Return, Idle, Held, TypeOK
<1>4. ASSUME NEW v \in Workers, NEW s \in {"success", "failed", "timeout"},
             FinishRun(v, s)
      PROVE  /\ Held(w) /\ wk'[w].seen = wk[w].seen
             /\ wk'[w].pc = "refuse" => wk[w].pc = "refuse"
  BY <1>4 DEF FinishRun, Idle, Held, TypeOK
<1>5. ASSUME wk'[w] = wk[w]
      PROVE  /\ Held(w) /\ wk'[w].seen = wk[w].seen
             /\ wk'[w].pc = "refuse" => wk[w].pc = "refuse"
  BY <1>5 DEF Held
<1>6. CASE UNCHANGED wk
  BY <1>5, <1>6
<1> QED
  BY <1>1, <1>2, <1>3, <1>4, <1>5, <1>6
  DEF Next, Dispatch, WorkerStep, User, Tick, SkipMissed, SkipOverlap, FireSlot,
      Enqueue, LoseEnqueue, Redeliver, Reconcile, SweepStuckRunning,
      SweepStuckPending, PatchRead, PatchWrite, Cancel, Delete, Edit, RunNow, vars

LEMMA OnceWorkersStep ==
  ASSUME OnlyEnds, TypeOK, TypeOK', HeldOnce, OnceInv, [Next]_vars
  PROVE  OnceWorkers'
<1> SUFFICES ASSUME sched.trigger = "once" PROVE OnceWorkers'
  BY SchedStep DEF OnceInv, OnceWorkers, OnceSched
<1>1. ASSUME NEW w \in Workers, wk'[w].pc = "refuse"
      PROVE  sched'.status \in {"cancelled", "deleted"}
  <2>1. Held(w)'
    BY <1>1 DEF Held
  <2>2. CASE Held(w) /\ wk[w].pc = "refuse"
    <3>1. sched.status \in {"cancelled", "deleted"}
      BY <2>2 DEF OnceInv, OnceWorkers
    <3>2. ASSUME NEW v \in Workers, Exists, wk[v].pc = "running" PROVE FALSE
      <4>1. Held(v) /\ wk[v].run \in RunId /\ wk[w].run \in RunId
        BY <3>2 DEF Held, TypeOK
      <4>2. wk[v].run = wk[w].run
        BY <2>2, <3>2, <4>1 DEF HeldOnce, OnceInv, OnceRow
      <4> QED
        BY <2>2, <3>2, <4>1, <4>2 DEF HeldOnce
    <3> QED
      BY <3>1, <3>2, OnceStatusStep
  <2>3. ASSUME UNCHANGED sched, NEW r \in RunId, runs[r] = "pending", Refused(r)
        PROVE  sched'.status \in {"cancelled", "deleted"}
    BY <2>3 DEF Refused, OnceInv, OnceRow
  <2> QED
    BY <1>1, <2>1, <2>2, <2>3, LoadStep
<1>2. ASSUME NEW w \in Workers, Held(w)', sched'.status = "active"
      PROVE  wk'[w].seen = "active"
  <2>1. sched.status = "active"
    BY <1>2, OnceStatusStep
  <2> QED
    BY <1>2, <2>1, LoadStep DEF OnceInv, OnceWorkers
<1> QED
  BY <1>1, <1>2 DEF OnceWorkers

LEMMA OnceSpecInv ==
  ASSUME "redeliver" \notin Faults, OnlyEnds
  PROVE  Spec => [](TypeOK /\ OnceInv)
<1> DEFINE Inv == RunsOnceInv /\ OverlapInv /\ OnceInv
<1>1. Init => Inv
  <2> SUFFICES ASSUME Init PROVE Inv
    OBVIOUS
  <2>1. RunsOnceInv /\ OverlapInv
    BY DEF Init, RunsOnceInv, AgentRunsOnce, Exists, OverlapInv, HeldOnce, Held,
           RunningRow, AgentsNeverOverlap, Idle
  <2>2. NextCron[0] \in Nat
    BY SchedulerAssumption DEF Time
  <2>3. /\ sched.status = "active" /\ sched.next = NextCron[0]
        /\ sched.trigger = "once" => sched.runAt = NextCron[0]
    BY DEF Init
  <2>4. OnceRow
    BY <2>2, <2>3 DEF Init, OnceRow, NoTime
  <2>5. OnceWorkers
    BY DEF Init, OnceWorkers, Held, Idle
  <2> QED
    BY <2>1, <2>4, <2>5 DEF Init, OnceInv
<1>2. TypeOK /\ TypeOK' /\ OneActiveRun' /\ Inv /\ [Next]_vars => Inv'
  <2> SUFFICES ASSUME TypeOK, TypeOK', OneActiveRun', Inv, [Next]_vars PROVE Inv'
    OBVIOUS
  <2>1. RunsOnceInv' /\ OverlapInv'
    BY RunsOnceStep, OverlapInvStep
  <2>2. OnceRow' /\ OnceWorkers'
    BY OnceRowStep, OnceWorkersStep DEF OverlapInv
  <2>3. patch' = NoPatch
    BY PatchStep DEF OnceInv
  <2> QED
    BY <2>1, <2>2, <2>3 DEF OnceInv
<1> HIDE DEF Inv
<1>3. Inv => OnceInv
  BY DEF Inv
<1> QED
  BY <1>1, <1>2, <1>3, TypeCorrect, OneActiveRunHolds, PTL DEF Spec

\* An active one-time schedule whose slot was taken still has a run that will end it:
\* with lost messages, dead workers, sweeps, cancels, deletes and edits in between.
THEOREM OnceNotStrandedHolds ==
  ASSUME "redeliver" \notin Faults, Ops \subseteq {"cancel", "delete", "edit"}
  PROVE  Spec => []OnceNotStranded
<1>1. OnceInv => OnceNotStranded
  BY DEF OnceInv, OnceRow, OnceNotStranded
<1> QED
  BY <1>1, OnceSpecInv, PTL DEF OnlyEnds

\* A one-time schedule is completed only by a run of its slot that was not skipped.
THEOREM OnceCompletedFiredHolds ==
  ASSUME "redeliver" \notin Faults, Ops \subseteq {"cancel", "delete", "edit"}
  PROVE  Spec => []OnceCompletedFired
<1>1. TypeOK /\ OnceInv => OnceCompletedFired
  <2> SUFFICES ASSUME TypeOK, OnceInv, sched.trigger = "once",
                      sched.status = "completed"
               PROVE  /\ sched.runAt \in Time
                      /\ runs[<<"cron", sched.runAt>>] \notin {"none", "skipped"}
    BY DEF OnceCompletedFired
  <2>1. PICK r \in RunId : runs[r] \in {"success", "failed", "timeout"}
    BY DEF OnceInv, OnceRow
  <2>2. r = <<"cron", sched.runAt>>
    BY <2>1 DEF OnceInv, OnceRow
  <2>3. sched.runAt \in Time
    BY <2>2 DEF RunId
  <2> QED
    BY <2>1, <2>2, <2>3
<1> QED
  BY <1>1, OnceSpecInv, PTL DEF OnlyEnds

-----------------------------------------------------------------------------
\* For any SCHEDULE_RUN_TIMEOUT the hard time limit kills a worker before the
\* reconciler counts its run as stuck: the guard of SweepStuckRunning.
THEOREM StuckAgeExceedsHardLimit ==
  ASSUME NEW T \in Nat
  PROVE  HardLimit(T) < StuckAge(T)
<1>1. T < 60 * (T \div 60) + 60 /\ T \div 60 \in Nat
  OBVIOUS
<1> QED
  BY <1>1 DEF HardLimit, StuckAge, AtLeast
=============================================================================
