----------------------------- MODULE BoundedLock -----------------------------
(***************************************************************************)
(* What the lease on a task's key promises its body, without messages,     *)
(* owners, heartbeats or time: a lock that one body holds at a time, that  *)
(* is granted a limited number of times, and that is closed for good when  *)
(* a body returned or the grants are used up.  TaskLease implements it     *)
(* (TaskLease!ImplementsLock).                                             *)
(***************************************************************************)
EXTENDS Integers

CONSTANTS
  Body,            \* whoever may execute the task
  Limit            \* how often the task may be tried

VARIABLES
  holders,         \* the bodies at work
  grants,          \* how often a body was started
  verdict          \* "open", and then the outcome of the key

vars == <<holders, grants, verdict>>

Init ==
  /\ holders = {}
  /\ grants = 0
  /\ verdict = "open"

Grant(b) ==
  /\ verdict = "open" /\ holders = {} /\ grants < Limit
  /\ holders' = {b}
  /\ grants' = grants + 1
  /\ UNCHANGED verdict

\* The body returned.
Complete(b) ==
  /\ holders = {b}
  /\ holders' = {}
  /\ verdict' = "completed"
  /\ UNCHANGED grants

\* The body raised, or died.
Release(b) ==
  /\ holders = {b}
  /\ holders' = {}
  /\ UNCHANGED <<grants, verdict>>

GiveUp ==
  /\ verdict = "open" /\ holders = {} /\ grants = Limit
  /\ verdict' = "failed"
  /\ UNCHANGED <<holders, grants>>

Next == GiveUp \/ \E b \in Body : Grant(b) \/ Complete(b) \/ Release(b)

Spec == Init /\ [][Next]_vars
=============================================================================
