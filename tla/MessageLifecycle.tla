--------------------------- MODULE MessageLifecycle ---------------------------
(***************************************************************************)
(* The answers of one conversation: rows of `conversation_messages` that   *)
(* are reserved before the model is called and finalized after it, the     *)
(* streams that produce them, the heartbeat ticker of each stream, the one *)
(* `pending_tool_state` row of a paused turn, the journal of tool calls,   *)
(* the reconciler's sweeps and the janitor of paused turns.                *)
(*                                                                         *)
(* Every action is one committed transaction, or one step of a process     *)
(* between two transactions.  Wall-clock thresholds are flags that time    *)
(* may set: `stale` (no heartbeat for 5 min), `late` and `stale` of a tool *)
(* call (5 and 15 min), `old` (a claim of 10 min), `expired` (30 min TTL). *)
(* Status "open" stands for `pending` and `streaming`, which no statement  *)
(* of these components tells apart.                                        *)
(***************************************************************************)
EXTENDS Integers, FiniteSets

CONSTANTS
  MaxMessage,     \* bound: turns asked in the conversation
  Streams,        \* generators that may run at the same time
  MaxResumes,     \* bound: resume requests of the user
  ToolTurns,      \* bound: the turns whose agent calls a tool that is journaled
  MaxAttempts,    \* MAX_MESSAGE_RECONCILE_ATTEMPTS
  Faults          \* the faults enabled in this instance

Messages   == 1..MaxMessage
FaultKinds == {"crash", "save_fails", "delete_fails"}
\* Why a row is failed: the reconciler's marker, the janitor, a stream that raised,
\* or one that reported an error and produced nothing.
Errors     == {"none", "reconciler", "expired", "raised", "empty"}

ASSUME MessageLifecycleAssumption ==
  /\ MaxMessage \in Nat \ {0}
  /\ MaxResumes \in Nat
  /\ MaxAttempts \in Nat \ {0}
  /\ ToolTurns \subseteq Messages
  /\ Faults \subseteq FaultKinds

VARIABLES
  msg,       \* conversation_messages: the rows of this conversation
  pts,       \* pending_tool_state: the row of this conversation, if any
  tool,      \* tool_call_attempts: one call per message
  stream,    \* the generators
  retiring,  \* message of the state the janitor deleted, 0 if none
  resumes,   \* resume requests so far
  silent,    \* history: sweeps that locked the row since its last heartbeat
  lost,      \* history: a finished answer was refused by the row
  taken      \* history: a live holder lost its claim to somebody else

vars == <<msg, pts, tool, stream, retiring, resumes, silent, lost, taken>>

NoMsg  == [status |-> "none", err |-> "none", retry |-> FALSE, cleared |-> FALSE,
           attempts |-> 0, moved |-> FALSE, stale |-> FALSE]
NoPts  == [status |-> "none", msg |-> 0, expired |-> FALSE, old |-> FALSE]
NoTool == [status |-> "none", late |-> FALSE, stale |-> FALSE]
Idle   == [pc |-> "idle", msg |-> 0, cont |-> FALSE, ticker |-> FALSE,
           cancelled |-> FALSE, flag |-> FALSE]

TypeOK ==
  /\ msg \in [Messages ->
       [status : {"none", "complete", "failed", "gone", "open"},
        err : Errors, retry : BOOLEAN, cleared : BOOLEAN,
        attempts : 0..(MaxAttempts - 1), moved : BOOLEAN, stale : BOOLEAN]]
  /\ pts \in [status : {"none", "pending", "resuming"},
              msg : Messages \cup {0}, expired : BOOLEAN, old : BOOLEAN]
  /\ tool \in [Messages ->
       [status : {"none", "proposed", "executed", "confirmed", "failed"},
        late : BOOLEAN, stale : BOOLEAN]]
  /\ stream \in [Streams ->
       [pc : {"idle", "run", "tool", "drop", "fail"}, msg : Messages \cup {0},
        cont : BOOLEAN, ticker : BOOLEAN, cancelled : BOOLEAN, flag : BOOLEAN]]
  /\ retiring \in Messages \cup {0}
  /\ resumes \in 0..MaxResumes
  /\ silent \in [Messages -> 0..MaxAttempts]
  /\ lost \in [Messages -> BOOLEAN]
  /\ taken \in BOOLEAN

-----------------------------------------------------------------------------
(* Reads and single-statement writes of the tables.                         *)

Present(m) == msg[m].status \notin {"none", "gone"}

\* A generator is at work on m as the continuation of a paused turn.
Continues(s, m) ==
  stream[s].cont /\ stream[s].msg = m /\ stream[s].pc \in {"run", "tool"}

\* A claim leaves `resuming` by the hand of `by`, while another stream lives on it.
Takes(by) ==
  /\ pts.status = "resuming"
  /\ \E s \in Streams \ by : Continues(s, pts.msg)

\* The two holes in the terminal gate of update_message_by_id.
Reclaimable(m) ==
  /\ msg[m].status = "failed"
  /\ \/ msg[m].err = "reconciler" /\ ~msg[m].cleared
     \/ msg[m].retry

\* Mutant: the gate forgets the rows that are complete.
Writable_complete(m, reclaim) ==
  msg[m].status \in {"open", "complete"} \/ (reclaim /\ Reclaimable(m))

Writable(m, reclaim) ==
  msg[m].status = "open" \/ (reclaim /\ Reclaimable(m))

\* The counters of the sweeps, which no statement reads once the row is terminal.
Settled(row) == [row EXCEPT !.attempts = 0, !.moved = FALSE, !.stale = FALSE]

\* finalize_message: the gated row update and, if it hit, the confirmation of
\* the executed tool calls in the same transaction.  A reclaim strips the
\* bookkeeping of the reconciler and of the failed resume.
Finalize(m, status, err, retry) ==
  IF Present(m) /\ Writable(m, status = "complete")
    THEN /\ msg' = [msg EXCEPT ![m] = [Settled(msg[m]) EXCEPT
                      !.status = status, !.err = err, !.retry = retry]]
         /\ tool' = IF tool[m].status = "executed"
                      THEN [tool EXCEPT ![m] = [NoTool EXCEPT !.status = "confirmed"]]
                      ELSE tool
         /\ silent' = [silent EXCEPT ![m] = 0]
    ELSE UNCHANGED <<msg, tool, silent>>

-----------------------------------------------------------------------------
(* The user: questions and resumes.                                         *)

\* complete_stream without a continuation: save_user_question, in one
\* transaction, truncates from the edited turn on (k <= the last turn) and
\* reserves the new row; then the generator starts.  Tombstones of the removed
\* rows are their status "gone".
Ask(s, k) ==
  \E n \in Messages :
    /\ stream[s] = Idle
    /\ msg[n].status = "none" /\ \A j \in 1..(n - 1) : msg[j].status # "none"
    /\ k <= n
    /\ k < n => Present(k)
    /\ msg' = [i \in Messages |->
                 IF i = n THEN [NoMsg EXCEPT !.status = "open"]
                 ELSE IF i >= k /\ Present(i) THEN [NoMsg EXCEPT !.status = "gone"]
                 ELSE msg[i]]
    /\ stream' = [stream EXCEPT ![s] = [Idle EXCEPT !.pc = "run", !.msg = n,
                                                    !.ticker = TRUE]]
    /\ silent' = [i \in Messages |-> IF i >= k THEN 0 ELSE silent[i]]
    /\ lost' = [i \in Messages |-> lost[i] /\ i < k]
    /\ UNCHANGED <<pts, tool, retiring, resumes, taken>>

\* Mutant: the claim takes the row whoever holds it.
Claimable_any == pts.status # "none" /\ ~pts.expired

\* claim_state: one live pending continuation, taken atomically.
Claimable == pts.status = "pending" /\ ~pts.expired

Claim ==
  /\ Claimable
  /\ resumes < MaxResumes
  /\ resumes' = resumes + 1
  /\ pts' = [pts EXCEPT !.status = "resuming", !.old = FALSE]

\* A resume request: the claim, and then complete_stream on the same row.
Resume(s) ==
  /\ stream[s] = Idle
  /\ Claim
  /\ stream' = [stream EXCEPT ![s] = [Idle EXCEPT !.pc = "run", !.msg = pts.msg,
                                        !.cont = TRUE, !.ticker = TRUE]]
  /\ UNCHANGED <<msg, tool, retiring, silent, lost, taken>>

\* The request ends after its claim without a stream: the agent cannot be
\* rebuilt, the token or the usage limit refuses it.  Nothing releases the claim.
ResumeRefused ==
  /\ Claim
  /\ UNCHANGED <<msg, tool, stream, retiring, silent, lost, taken>>

-----------------------------------------------------------------------------
(* The generator of a turn, complete_stream.                                *)

Ends(s) == stream' = [stream EXCEPT ![s] = Idle]

\* heartbeat_message_state: a row that is in flight is stamped.
Stamp(m) == msg[m].status = "open"

Stamped(m) == [msg[m] EXCEPT !.moved = TRUE, !.stale = FALSE]

\* One beat of the ticker, the seed when generation starts, or the stamp of the
\* first chunk (_mark_streaming_once, which makes a pending row streaming): a row that is
\* gone cancels the stream, a terminal one stops the ticker.
Heartbeat(s) ==
  LET m == stream[s].msg
  IN /\ stream[s].ticker
     /\ IF Stamp(m)
          THEN /\ msg' = [msg EXCEPT ![m] = Stamped(m)]
               /\ silent' = [silent EXCEPT ![m] = 0]
               /\ UNCHANGED stream
          ELSE /\ stream' = [stream EXCEPT ![s].ticker = FALSE,
                                           ![s].cancelled = ~Present(m)]
               /\ UNCHANGED <<msg, silent>>
     /\ UNCHANGED <<pts, tool, retiring, resumes, lost, taken>>

\* STREAM_HEARTBEAT_MAX_SECONDS: a stream that hangs stops being alive.
TickerCeiling(s) ==
  /\ stream[s].ticker
  /\ stream' = [stream EXCEPT ![s].ticker = FALSE]
  /\ UNCHANGED <<msg, pts, tool, retiring, resumes, silent, lost, taken>>

\* A tool call: record_proposed, with ON CONFLICT DO NOTHING; `flag` is its
\* result.  A row that is gone fails the foreign key and the tool runs all the same.
ToolStart(s) ==
  LET m == stream[s].msg
      new == tool[m].status = "none" /\ Present(m)
  IN /\ stream[s].pc = "run"
     /\ m \in ToolTurns
     /\ stream' = [stream EXCEPT ![s].pc = "tool", ![s].flag = new]
     /\ tool' = IF new THEN [tool EXCEPT ![m].status = "proposed"] ELSE tool
     /\ UNCHANGED <<msg, pts, retiring, resumes, silent, lost, taken>>

\* mark_executed and, when it hits nothing, upsert_executed: both upgrade a
\* proposed row only, and the upsert inserts a row that is missing.
Upgradable(m) == Present(m) /\ tool[m].status \in {"none", "proposed"}

\* The tool returned.
ToolReturn(s) ==
  LET m == stream[s].msg
  IN /\ stream[s].pc = "tool"
     /\ stream' = [stream EXCEPT ![s].pc = "run", ![s].flag = FALSE]
     /\ tool' = IF Upgradable(m)
                  THEN [tool EXCEPT ![m] = [NoTool EXCEPT !.status = "executed"]]
                  ELSE tool
     /\ UNCHANGED <<msg, pts, retiring, resumes, silent, lost, taken>>

\* The tool raised: mark_failed, if this call created the row.
ToolRaise(s) ==
  LET m == stream[s].msg
  IN /\ stream[s].pc = "tool"
     /\ stream' = [stream EXCEPT ![s].pc = "run", ![s].flag = FALSE]
     /\ tool' = IF stream[s].flag /\ tool[m].status = "proposed"
                  THEN [tool EXCEPT ![m] = [NoTool EXCEPT !.status = "failed"]]
                  ELSE tool
     /\ UNCHANGED <<msg, pts, retiring, resumes, silent, lost, taken>>

\* The agent paused on tool calls: the state is upserted, pending again and with
\* a fresh TTL whatever its row held, and the stream ends.  The message stays as it is.
Pause(s) ==
  LET m == stream[s].msg
  IN /\ stream[s].pc = "run"
     /\ pts' = [NoPts EXCEPT !.status = "pending", !.msg = m]
     /\ taken' = (taken \/ Takes({s}))
     /\ Ends(s)
     /\ UNCHANGED <<msg, tool, retiring, resumes, silent, lost>>

\* Saving the state fails: logged, and the stream ends as if it had been saved.
PauseUnsaved(s) ==
  /\ "save_fails" \in Faults
  /\ stream[s].pc = "run"
  /\ Ends(s)
  /\ UNCHANGED <<msg, pts, tool, retiring, resumes, silent, lost, taken>>

\* After its finalize a continuation still has to drop its state.
Finalized(s) ==
  IF stream[s].cont
    THEN stream' = [stream EXCEPT ![s].pc = "drop", ![s].ticker = FALSE]
    ELSE Ends(s)

\* The agent finished with an answer.
FinalizeAnswer(s) ==
  LET m == stream[s].msg
  IN /\ stream[s].pc = "run"
     /\ Finalize(m, "complete", "none", FALSE)
     /\ lost' = [lost EXCEPT ![m] = @ \/ (msg[m].status = "failed" /\ ~Reclaimable(m))]
     /\ Finalized(s)
     /\ UNCHANGED <<pts, retiring, resumes, taken>>

\* The agent reported an error and produced nothing (errored_empty).
FinalizeEmpty(s) ==
  /\ stream[s].pc = "run"
  /\ Finalize(stream[s].msg, "failed", "empty", FALSE)
  /\ Finalized(s)
  /\ UNCHANGED <<pts, retiring, resumes, lost, taken>>

\* delete_state of a continuation that finished, by conversation and user.
DropState(s) ==
  /\ stream[s].pc = "drop"
  /\ \/ pts' = NoPts /\ taken' = (taken \/ Takes({s}))
     \/ "delete_fails" \in Faults /\ UNCHANGED <<pts, taken>>
  /\ Ends(s)
  /\ UNCHANGED <<msg, tool, retiring, resumes, silent, lost>>

\* Mutant: the failed resume does not say that it handed the turn back.
Released_silent(s) == FALSE

\* release_claim hit a row: a claim of this conversation was handed back.
Released(s) == stream[s].cont /\ pts.status = "resuming"

\* An exception in the generator: the handler first releases the claim.
Raise(s) ==
  /\ stream[s].pc = "run"
  /\ stream' = [stream EXCEPT ![s].pc = "fail", ![s].flag = Released(s)]
  /\ IF stream[s].cont /\ pts.status = "resuming"
       THEN /\ pts' = [pts EXCEPT !.status = "pending", !.old = FALSE,
                                  !.expired = FALSE]
            /\ taken' = (taken \/ Takes({s}))
       ELSE UNCHANGED <<pts, taken>>
  /\ UNCHANGED <<msg, tool, retiring, resumes, silent, lost>>

\* ... and then fails the row, as retryable if a claim was released.
FinalizeError(s) ==
  /\ stream[s].pc = "fail"
  /\ Finalize(stream[s].msg, "failed", "raised", stream[s].flag)
  /\ Ends(s)
  /\ UNCHANGED <<pts, retiring, resumes, lost, taken>>

\* StreamSuperseded: the emit loop sees the cancel flag and abandons the turn.
Abandon(s) ==
  /\ stream[s].pc = "run"
  /\ stream[s].cancelled
  /\ Ends(s)
  /\ UNCHANGED <<msg, pts, tool, retiring, resumes, silent, lost, taken>>

\* The web process dies, and the ticker thread with it.
Crash(s) ==
  /\ "crash" \in Faults
  /\ stream[s] # Idle
  /\ Ends(s)
  /\ UNCHANGED <<msg, pts, tool, retiring, resumes, silent, lost, taken>>

-----------------------------------------------------------------------------
(* Time.                                                                    *)

\* Five minutes without a heartbeat, ten beats of the ticker: nobody stamps the
\* row, or its ticker is past the ceiling.
RowAges(m) ==
  /\ msg[m].status = "open"
  /\ ~msg[m].stale
  /\ \A s \in Streams : ~(stream[s].ticker /\ stream[s].msg = m)
  /\ msg' = [msg EXCEPT ![m].stale = TRUE]
  /\ UNCHANGED <<pts, tool, stream, retiring, resumes, silent, lost, taken>>

\* attempted_at passes 5 minutes, then updated_at passes 15 minutes.
ToolAges(m) ==
  /\ \/ /\ tool[m].status = "proposed" /\ ~tool[m].late
        /\ tool' = [tool EXCEPT ![m].late = TRUE]
     \/ /\ tool[m].late \/ tool[m].status = "executed"
        /\ ~tool[m].stale
        /\ tool' = [tool EXCEPT ![m].stale = TRUE]
  /\ UNCHANGED <<msg, pts, stream, retiring, resumes, silent, lost, taken>>

\* resumed_at passes 10 minutes; expires_at passes.
ClaimAges ==
  /\ pts.status = "resuming"
  /\ ~pts.old
  /\ pts' = [pts EXCEPT !.old = TRUE]
  /\ UNCHANGED <<msg, tool, stream, retiring, resumes, silent, lost, taken>>

StateExpires ==
  /\ pts.status # "none"
  /\ ~pts.expired
  /\ pts' = [pts EXCEPT !.expired = TRUE]
  /\ UNCHANGED <<msg, tool, stream, retiring, resumes, silent, lost, taken>>

-----------------------------------------------------------------------------
(* The reconciler and the janitor.                                          *)

\* find_and_lock_stuck_messages: a live pause or claim of the conversation, or a
\* recent tool call of the message, exempts the row.
Exempt(m) ==
  \/ pts.status = "pending" /\ ~pts.expired
  \/ pts.status = "resuming" /\ ~pts.old
  \/ tool[m].status \in {"proposed", "executed"} /\ ~tool[m].stale

\* Mutant: a plain accumulator, not a count of consecutive silent ticks.
Count_total(m) == msg[m].attempts + 1

\* Mutant: a heartbeat that was never stamped compares unequal to itself.
Count_alwaysNew(m) == 1

\* increment_message_reconcile_attempts.
Count(m) == IF msg[m].moved THEN 1 ELSE msg[m].attempts + 1

AtLimit(m) == Count(m) >= MaxAttempts

\* mark_message_approval_cleared, when delete_state removed a row.
Cleared(m) == msg[m].cleared \/ pts.status # "none"

\* Q1 on one stuck row: count, and at the limit fail it and revoke its prompt.
SweepMessage(m) ==
  /\ msg[m].status = "open"
  /\ msg[m].stale
  /\ ~Exempt(m)
  /\ silent' = [silent EXCEPT ![m] = IF @ < MaxAttempts THEN @ + 1 ELSE @]
  /\ IF AtLimit(m)
       THEN /\ msg' = [msg EXCEPT ![m] = [Settled(msg[m]) EXCEPT
                        !.status = "failed", !.err = "reconciler",
                        !.cleared = Cleared(m)]]
            /\ pts' = NoPts
            /\ taken' = (taken \/ Takes({}))
       ELSE /\ msg' = [msg EXCEPT ![m].attempts = Count(m), ![m].moved = FALSE]
            /\ UNCHANGED <<pts, taken>>
  /\ UNCHANGED <<tool, stream, retiring, resumes, lost>>

\* Q2 and Q3: a call that stayed proposed for 5, or executed for 15 minutes.
SweepTool(m) ==
  /\ \/ tool[m].status = "proposed" /\ tool[m].late
     \/ tool[m].status = "executed" /\ tool[m].stale
  /\ tool' = [tool EXCEPT ![m] = [NoTool EXCEPT !.status = "failed"]]
  /\ UNCHANGED <<msg, pts, stream, retiring, resumes, silent, lost, taken>>

\* Mutant: the tick only deletes what is expired, and spares what somebody has claimed.
Janitor_keepsClaims ==
  /\ retiring = 0
  /\ pts.status = "pending" /\ pts.expired
  /\ pts' = NoPts
  /\ retiring' = pts.msg
  /\ UNCHANGED <<msg, tool, stream, resumes, silent, lost, taken>>

\* cleanup_pending_tool_state, its transaction: an abandoned claim is handed back
\* with a new TTL, and what is expired then is deleted, whatever its status.
Janitor ==
  /\ retiring = 0
  /\ \/ /\ pts.status = "resuming" /\ pts.old
        /\ pts' = [pts EXCEPT !.status = "pending", !.old = FALSE, !.expired = FALSE]
        /\ UNCHANGED retiring
     \/ /\ pts.status # "none" /\ pts.expired
        /\ ~(pts.status = "resuming" /\ pts.old)
        /\ pts' = NoPts
        /\ retiring' = pts.msg
  /\ taken' = (taken \/ Takes({}))
  /\ UNCHANGED <<msg, tool, stream, resumes, silent, lost>>

\* ... and, after it, the message of the deleted state is failed.
Retire ==
  /\ retiring # 0
  /\ Finalize(retiring, "failed", "expired", FALSE)
  /\ retiring' = 0
  /\ UNCHANGED <<pts, stream, resumes, lost, taken>>

\* The worker that runs the janitor dies in between (acks_late is off).
JanitorCrash ==
  /\ "crash" \in Faults
  /\ retiring # 0
  /\ retiring' = 0
  /\ UNCHANGED <<msg, pts, tool, stream, resumes, silent, lost, taken>>

-----------------------------------------------------------------------------
Init ==
  /\ msg = [m \in Messages |-> NoMsg]
  /\ pts = NoPts
  /\ tool = [m \in Messages |-> NoTool]
  /\ stream = [s \in Streams |-> Idle]
  /\ retiring = 0
  /\ resumes = 0
  /\ silent = [m \in Messages |-> 0]
  /\ lost = [m \in Messages |-> FALSE]
  /\ taken = FALSE

StreamStep(s) ==
  \/ Heartbeat(s) \/ TickerCeiling(s)
  \/ ToolStart(s) \/ ToolReturn(s) \/ ToolRaise(s)
  \/ Pause(s) \/ PauseUnsaved(s)
  \/ FinalizeAnswer(s) \/ FinalizeEmpty(s) \/ DropState(s)
  \/ Raise(s) \/ FinalizeError(s) \/ Abandon(s) \/ Crash(s)

Time == \/ \E m \in Messages : RowAges(m) \/ ToolAges(m)
        \/ ClaimAges
        \/ StateExpires

Reconciler == \E m \in Messages : SweepMessage(m) \/ SweepTool(m)

Next ==
  \/ \E s \in Streams : StreamStep(s) \/ Resume(s) \/ \E k \in Messages : Ask(s, k)
  \/ ResumeRefused
  \/ Time
  \/ Reconciler
  \/ Janitor \/ Retire \/ JanitorCrash

Spec == Init /\ [][Next]_vars

(* Fairness: celery beat runs the reconciler every 30 s and the janitor     *)
(* every 60 s, time passes, and the ticker has its ceiling.  Nothing is     *)
(* assumed of a stream, a tool or the user: they may hang for ever.         *)
Fairness ==
  /\ \A s \in Streams : WF_vars(TickerCeiling(s))
  /\ \A m \in Messages : /\ WF_vars(RowAges(m)) /\ WF_vars(ToolAges(m))
                         /\ WF_vars(SweepMessage(m)) /\ WF_vars(SweepTool(m))
  /\ WF_vars(ClaimAges) /\ WF_vars(StateExpires)
  /\ WF_vars(Janitor) /\ WF_vars(Retire)

FairSpec == Spec /\ Fairness

-----------------------------------------------------------------------------
(* Properties.                                                              *)

\* "The counter means consecutive stale ticks": the reconciler fails a row only
\* after MaxAttempts sweeps in a row found it silent, with no heartbeat among them.
SweptOnlyWhenSilent ==
  \A m \in Messages :
    msg[m].status = "failed" /\ msg[m].err = "reconciler" => silent[m] = MaxAttempts

\* A finished answer is refused by its row only if the approval of the turn was
\* revoked, the janitor had retired it, an earlier attempt had ended it with an
\* empty error, or a claim was taken from a live stream: a false sweep, or a
\* resume that raised and is tried again, never costs an answer.
LostAnswerExplained ==
  \A m \in Messages :
    lost[m] => taken \/ msg[m].cleared \/ msg[m].err \in {"expired", "empty"}

\* A turn is resumed by one stream at a time; two run together only after an
\* unfenced write took the claim from a stream that still lived on it.
OneContinuation ==
  \A m \in Messages, s1, s2 \in Streams :
    Continues(s1, m) /\ Continues(s2, m) /\ s1 # s2 => taken

\* Whatever dies or hangs, every reserved answer ends: complete, failed or removed.
EveryTurnSettles ==
  \A m \in Messages :
    msg[m].status = "open" ~> msg[m].status # "open"

\* A claim that no stream lives on, because its request was refused after it or its
\* process died, does not lock the turn for ever (janitor, revert_stale_resuming).
ClaimReturns == pts.status = "resuming" ~> pts.status # "resuming"

-----------------------------------------------------------------------------
(* The promise of the tables, as a ledger.                                  *)

Ledger == INSTANCE AnswerLedger WITH
            Last    <- MaxMessage,
            answer  <- [m \in Messages |-> msg[m].status],
            revoked <- {m \in Messages : msg[m].cleared},
            call    <- [m \in Messages |-> tool[m].status]

\* Late failures, sweeps, janitors, second resumes and tools that return late do not
\* reopen what ended: an answer is completed once, never after its approval was revoked,
\* a tool call that is confirmed or failed stays so, and one is confirmed only by the
\* write that ends its message (update_message_by_id, confirm_executed_tool_calls).
ImplementsLedger == Ledger!Spec
=============================================================================
