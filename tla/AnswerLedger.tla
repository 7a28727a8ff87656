----------------------------- MODULE AnswerLedger -----------------------------
(***************************************************************************)
(* What the tables of a conversation promise its reader, without streams,  *)
(* heartbeats, claims, sweeps or thresholds: a ledger of answers that are  *)
(* opened in turn and end once, and of the tool calls made for them.       *)
(* MessageLifecycle implements it (MessageLifecycle!ImplementsLedger).     *)
(***************************************************************************)
EXTENDS Integers

CONSTANT Last      \* the last turn there may be

VARIABLES
  answer,          \* per turn: "none", "open", "complete", "failed", "gone"
  revoked,         \* failed turns whose approval was withdrawn
  call             \* per turn: how far its tool call has come

vars == <<answer, revoked, call>>

Turns == 1..Last

Init ==
  /\ answer = [m \in Turns |-> "none"]
  /\ revoked = {}
  /\ call = [m \in Turns |-> "none"]

There(m) == answer[m] \notin {"none", "gone"}

\* The next turn opens, and the turns from k on are removed for it.
Open(n) ==
  /\ answer[n] = "none" /\ \A i \in 1..(n - 1) : answer[i] # "none"
  /\ answer'[n] = "open"
  /\ \E k \in 1..n :
       /\ answer' = [i \in Turns |-> IF i = n THEN "open"
                                     ELSE IF i >= k /\ There(i) THEN "gone" ELSE answer[i]]
       /\ revoked' = {i \in revoked : i < k}
  /\ UNCHANGED call

Ends(m, outcomes) ==
  /\ answer'[m] \in outcomes
  /\ answer' = [answer EXCEPT ![m] = answer'[m]]

\* The answer is written once, and only then is its call confirmed.  One that failed may
\* still be completed, unless its approval was withdrawn.
Settle(m) ==
  /\ \/ answer[m] = "open" /\ Ends(m, {"complete", "failed"})
     \/ answer[m] = "failed" /\ m \notin revoked /\ Ends(m, {"complete"})
  /\ call' = [call EXCEPT ![m] = IF @ = "executed" THEN "confirmed" ELSE @]
  /\ UNCHANGED revoked

\* Nobody is at work on it any more; an approval that waits is withdrawn.
GiveUp(m) ==
  /\ answer[m] = "open" /\ Ends(m, {"failed"})
  /\ revoked' \in {revoked, revoked \cup {m}}
  /\ UNCHANGED call

\* A call starts, has returned, or is given up while it is not confirmed: none starts for
\* a turn that is not there.
Call(m) ==
  /\ \/ call[m] = "none" /\ There(m) /\ call'[m] \in {"proposed", "executed"}
     \/ call[m] = "proposed" /\ There(m) /\ call'[m] = "executed"
     \/ call[m] \in {"proposed", "executed"} /\ call'[m] = "failed"
  /\ call' = [call EXCEPT ![m] = call'[m]]
  /\ UNCHANGED <<answer, revoked>>

Next == \E m \in Turns : Open(m) \/ Settle(m) \/ GiveUp(m) \/ Call(m)

Spec == Init /\ [][Next]_vars
=============================================================================
