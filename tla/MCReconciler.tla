----------------------------- MODULE MCReconciler -----------------------------
(* Small instances of what must hold, and what must end by itself, when processes  *)
(* die: a key with deliveries that race, the same with every operation and fault,  *)
(* a key with the limits of the code and one message, or the turn of a             *)
(* conversation.  An initial state picks one of the four; the others stay as they  *)
(* are.                                                                            *)
EXTENDS TaskLease

CONSTANTS
  Lone, Other,       \* the slots of the other two keys
  StallFaults,
  Streams, TurnFaults

VARIABLES
  side,
  row1, dv1, http1,
  row2, dv2, http2,
  msg, pts, tool, stream, retiring, resumes, silent, lost, taken

loneVars == <<row1, dv1, http1>>
stallVars == <<row2, dv2, http2>>
turnVars == <<msg, pts, tool, stream, retiring, resumes, silent, lost, taken>>

\* The limits of the code, and a worker that may die every time.
Alone == INSTANCE TaskLease WITH
  Deliveries <- {Lone}, MaxAttempts <- 5, MaxRetries <- 3, LeaseRetryMax <- 10,
  LeaseTTL <- 2, Grace <- 2, Ops <- {"upload"}, Faults <- {"crash"},
  row <- row1, dv <- dv1, http <- http1

\* A worker may stop for longer than its lease and go on.
Stalls == INSTANCE TaskLease WITH
  Deliveries <- {Lone, Other}, MaxAttempts <- 2, LeaseRetryMax <- 3,
  Ops <- {"upload", "click"}, Faults <- StallFaults,
  row <- row2, dv <- dv2, http <- http2

Turns == INSTANCE MessageLifecycle WITH
  MaxMessage <- 1, ToolTurns <- {1}, MaxResumes <- 2, MaxAttempts <- 2,
  Faults <- TurnFaults

AnyInit ==
  /\ side \in {"race", "stall", "alone", "turn"}
  /\ Init /\ Stalls!Init /\ Alone!Init /\ Turns!Init

AnyNext ==
  /\ UNCHANGED side
  /\ \/ side = "race"  /\ Next        /\ UNCHANGED <<stallVars, loneVars, turnVars>>
     \/ side = "stall" /\ Stalls!Next /\ UNCHANGED <<vars, loneVars, turnVars>>
     \/ side = "alone" /\ Alone!Next  /\ UNCHANGED <<vars, stallVars, turnVars>>
     \/ side = "turn"  /\ Turns!Next  /\ UNCHANGED <<vars, stallVars, loneVars>>

\* The races are about safety: no fairness is assumed of them.
AnyFair ==
  \/ side \in {"race", "stall"}
  \/ side = "alone" /\ Alone!Fairness
  \/ side = "turn"  /\ Turns!Fairness

AnySpec == AnyInit /\ [][AnyNext]_<<side, vars, stallVars, loneVars, turnVars>> /\ AnyFair

\* What a late write of a stalled worker may not do: change a first outcome, or take a
\* live lease from its body.
StalledStaysLate == Stalls!FirstOutcomeKept /\ Stalls!LiveLeaseNotStolen

\* A pending row has something that will end it: a request, a message or the sweep.
LonePendingIsHandled == Alone!PendingIsHandled

\* A message that kills its worker every time does not loop.
LoneMessageEnds == Alone!MessageEnds

\* Whatever dies or hangs, every reserved answer ends: complete, failed or removed.
EveryTurnSettles == Turns!EveryTurnSettles

\* A claim whose stream died, or that got none, is handed back or dropped.
ClaimReturns == Turns!ClaimReturns
=============================================================================
