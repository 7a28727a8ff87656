----------------------------- MODULE MCScheduler -----------------------------
(* Small instances of Scheduler: an hourly cron on a clock of MaxTime units. *)
EXTENDS Scheduler, TLC

CronPeriod == 1
MCNextCron == [t \in 0..MaxTime |-> (t \div CronPeriod + 1) * CronPeriod]
MCEndTimes == {NoTime, 2}
MCNoEnd    == {NoTime}
WorkerSymmetry == Permutations(Workers)
=============================================================================
