----------------------------- MODULE CompletionKey -----------------------------
(***************************************************************************)
(* One Idempotency-Key of /v1/chat/completions: requests that send it, and *)
(* the task_dedup row they claim before they run the agent.  Each action   *)
(* is one transaction of a request.                                        *)
(***************************************************************************)
EXTENDS Integers, FiniteSets

CONSTANT Requests    \* requests with the key

ASSUME CompletionAssumption == IsFiniteSet(Requests)

VARIABLES
  claim,      \* the row: its status, owner and age
  request,    \* the requests
  answers,    \* requests that ran the agent and answered 2xx since the row is fresh
  stolen      \* history: a claim was dropped whose owner was at work, or not kept

completionVars == <<claim, request, answers, stolen>>

NoClaim == [status |-> "none", owner |-> "none", stale |-> FALSE]

CompletionTypeOK ==
  /\ claim \in [status : {"none", "pending", "completed"}, owner : Requests \cup {"none"},
                stale : BOOLEAN]
  /\ request \in [Requests -> {"idle", "look", "stale", "reclaim", "again", "recheck",
                               "run", "finalize", "release", "end"}]
  /\ answers \subseteq Requests
  /\ stolen \in BOOLEAN

Goes(r, pc) == request' = [request EXCEPT ![r] = pc]

\* The owner of the claim has not ended it yet.
Working == claim.status = "pending" /\ request[claim.owner] \in {"run", "finalize"}

\* claim_task: r owns the row, or goes on at `otherwise`.
Claims(r, otherwise) ==
  IF claim.status = "none"
    THEN /\ claim' = [NoClaim EXCEPT !.status = "pending", !.owner = r]
         /\ Goes(r, "run")
    ELSE Goes(r, otherwise) /\ UNCHANGED claim

-----------------------------------------------------------------------------
(* claim_or_replay                                                          *)

ClaimKey(r) ==
  /\ request[r] = "idle"
  /\ Claims(r, "look")
  /\ UNCHANGED <<answers, stolen>>

\* A completed row is replayed, a pending one may be stale, none is claimed again.
LookAtKey(r) ==
  /\ request[r] = "look"
  /\ Goes(r, CASE claim.status = "completed" -> "end"
               [] claim.status = "pending" -> "stale"
               [] OTHER -> "again")
  /\ UNCHANGED <<claim, answers, stolen>>

\* Mutant: the claim is dropped whatever its age.
TooOld_any == claim.status = "pending"

\* Mutant: the age is all that counts.
TooOld_completed == claim.stale

\* 300 seconds
TooOld == claim.status = "pending" /\ claim.stale

DropStale(r) ==
  /\ request[r] = "stale"
  /\ claim' = IF TooOld THEN NoClaim ELSE claim
  /\ stolen' = (stolen \/ (Working /\ claim.stale))
  /\ Goes(r, "reclaim")
  /\ UNCHANGED answers

\* The last attempt to claim: 409 if it fails.  After a row that vanished a completed
\* one is replayed.
ClaimAgain(r) ==
  /\ \/ request[r] = "reclaim" /\ Claims(r, "end")
     \/ request[r] = "again" /\ Claims(r, "recheck")
     \/ request[r] = "recheck" /\ Goes(r, "end") /\ UNCHANGED claim
  /\ UNCHANGED <<answers, stolen>>

-----------------------------------------------------------------------------
(* The route.                                                               *)

\* An exception before the claim, while the agent is built, goes to the same handlers.
FailsEarly(r) ==
  /\ request[r] = "idle"
  /\ Goes(r, "release")
  /\ UNCHANGED <<claim, answers, stolen>>

\* The agent ran: a response, an error, or neither.
RunEnds(r) ==
  /\ request[r] = "run"
  /\ \/ Goes(r, "finalize") /\ answers' = answers \cup {r}
     \/ request' \in {[request EXCEPT ![r] = pc] : pc \in {"release", "end"}}
        /\ UNCHANGED answers
  /\ UNCHANGED <<claim, stolen>>

\* finalize_task; a failure is logged and leaves the row pending.
FinalizeKey(r) ==
  /\ request[r] = "finalize"
  /\ \/ /\ claim' = IF claim.status = "pending" THEN [claim EXCEPT !.status = "completed"]
                    ELSE claim
        /\ stolen' = (stolen \/ claim.status = "none")
     \/ stolen' = TRUE /\ UNCHANGED claim
  /\ Goes(r, "end")
  /\ UNCHANGED answers

\* release: the pending row of the key, whoever owns it.
ReleaseKey(r) ==
  /\ request[r] = "release"
  /\ claim' = IF claim.status = "pending" THEN NoClaim ELSE claim
  /\ stolen' = (stolen \/ (Working /\ claim.owner # r))
  /\ Goes(r, "end")
  /\ UNCHANGED answers

\* The client sends the key once more.
Retries(r) ==
  /\ request[r] = "end"
  /\ Goes(r, "idle")
  /\ UNCHANGED <<claim, answers, stolen>>

\* The claim passes 300 s; a completed row passes 24 h.
ClaimAgesOut ==
  /\ \/ /\ claim.status = "pending" /\ ~claim.stale
        /\ claim' = [claim EXCEPT !.stale = TRUE]
        /\ UNCHANGED answers
     \/ claim.status = "completed" /\ claim' = NoClaim /\ answers' = {}
  /\ UNCHANGED <<request, stolen>>

CompletionInit ==
  /\ claim = NoClaim
  /\ request = [r \in Requests |-> "idle"]
  /\ answers = {}
  /\ stolen = FALSE

RequestStep(r) ==
  \/ ClaimKey(r) \/ LookAtKey(r) \/ DropStale(r) \/ ClaimAgain(r)
  \/ FailsEarly(r) \/ RunEnds(r) \/ FinalizeKey(r) \/ ReleaseKey(r) \/ Retries(r)

CompletionNext == (\E r \in Requests : RequestStep(r)) \/ ClaimAgesOut

CompletionSpec == CompletionInit /\ [][CompletionNext]_completionVars

-----------------------------------------------------------------------------
(* Properties.                                                              *)

\* Requests with one key never run the agent side by side, and within 24 h one of them
\* answers and is billed: unless a claim was dropped under a request at work, because
\* it ran for more than 300 s or because another one failed, or its end was not saved.
RunsOnce ==
  stolen \/ /\ \A q, r \in Requests : request[q] = "run" /\ request[r] = "run" => q = r
            /\ Cardinality(answers) <= 1
=============================================================================
