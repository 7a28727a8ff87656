------------------------------- MODULE JobQueue -------------------------------
(***************************************************************************)
(* What the runs of one schedule promise, without dispatcher, broker,      *)
(* workers or sweeps: a queue of jobs of which at most one is unfinished,  *)
(* where a job is submitted once, started at most once and never revived.  *)
(* Scheduler implements it (Scheduler!ImplementsJobQueue).                 *)
(***************************************************************************)
EXTENDS Integers

CONSTANTS
  Job,             \* every job that may ever be submitted
  Result           \* what a finished job may hold

VARIABLES
  open,            \* FALSE once the queue was removed with all its jobs
  status,          \* per job
  starts           \* per job: how often somebody started to work on it

vars == <<open, status, starts>>

Unfinished == {"pending", "running"}

TypeOK ==
  /\ open \in BOOLEAN
  /\ status \in [Job -> {"none"} \cup Unfinished \cup Result]
  /\ starts \in [Job -> Nat]

Init ==
  /\ open = TRUE
  /\ status = [j \in Job |-> "none"]
  /\ starts = [j \in Job |-> 0]

\* A new job enters when no other is unfinished.
Submit(j) ==
  /\ open
  /\ status[j] = "none"
  /\ \A k \in Job : status[k] \notin Unfinished
  /\ status' = [status EXCEPT ![j] = "pending"]
  /\ UNCHANGED <<open, starts>>

\* A job is put on record without being worked on.
Record(j) ==
  /\ open
  /\ status[j] = "none"
  /\ \E d \in Result : status' = [status EXCEPT ![j] = d]
  /\ UNCHANGED <<open, starts>>

Start(j) ==
  /\ status[j] = "pending"
  /\ status' = [status EXCEPT ![j] = "running"]
  /\ starts' = [starts EXCEPT ![j] = @ + 1]
  /\ UNCHANGED open

\* The work ended, or somebody gave the job up; of two verdicts on one job
\* (a sweep and a worker) the later one stands.
End(j) ==
  /\ status[j] \in Unfinished \cup Result
  /\ \E d \in Result : status' = [status EXCEPT ![j] = d]
  /\ UNCHANGED <<open, starts>>

Remove ==
  /\ open
  /\ open' = FALSE
  /\ status' = [j \in Job |-> "none"]
  /\ UNCHANGED starts

Next ==
  \/ \E j \in Job : Submit(j) \/ Record(j) \/ Start(j) \/ End(j)
  \/ Remove

Spec == Init /\ [][Next]_vars
=============================================================================
