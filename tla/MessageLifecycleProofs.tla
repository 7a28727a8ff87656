------------------------ MODULE MessageLifecycleProofs ------------------------
(***************************************************************************)
(* Theorems about MessageLifecycle, for any number of turns, streams,      *)
(* resumes and reconcile attempts, and any set of faults.                  *)
(***************************************************************************)
EXTENDS MessageLifecycle, TLAPS

RowType  == [status : {"none", "complete", "failed", "gone", "open"},
             err : Errors, retry : BOOLEAN, cleared : BOOLEAN,
             attempts : 0..(MaxAttempts - 1), moved : BOOLEAN, stale : BOOLEAN]
PtsType  == [status : {"none", "pending", "resuming"},
             msg : Messages \cup {0}, expired : BOOLEAN, old : BOOLEAN]
ToolType == [status : {"none", "proposed", "executed", "confirmed", "failed"},
             late : BOOLEAN, stale : BOOLEAN]
GenType  == [pc : {"idle", "run", "tool", "drop", "fail"}, msg : Messages \cup {0},
             cont : BOOLEAN, ticker : BOOLEAN, cancelled : BOOLEAN, flag : BOOLEAN]

\* TypeOK with a name for each kind of row.
LEMMA Types ==
  TypeOK <=> /\ msg \in [Messages -> RowType]
             /\ pts \in PtsType
             /\ tool \in [Messages -> ToolType]
             /\ stream \in [Streams -> GenType]
             /\ retiring \in Messages \cup {0}
             /\ resumes \in 0..MaxResumes
             /\ silent \in [Messages -> 0..MaxAttempts]
             /\ lost \in [Messages -> BOOLEAN]
             /\ taken \in BOOLEAN
BY Zenon DEF TypeOK, RowType, PtsType, ToolType, GenType

\* The empty rows have the types of the tables.
LEMMA EmptyTypes ==
  /\ NoMsg \in RowType /\ NoPts \in PtsType /\ NoTool \in ToolType /\ Idle \in GenType
  /\ 0 \in 0..(MaxAttempts - 1) /\ 0 \in 0..MaxAttempts
BY MessageLifecycleAssumption
DEF NoMsg, NoPts, NoTool, Idle, RowType, PtsType, ToolType, GenType, Errors

LEMMA SettledType ==
  ASSUME NEW row \in RowType PROVE Settled(row) \in RowType
BY EmptyTypes DEF Settled, RowType

\* What finalize_message leaves has the types of the tables.
LEMMA FinalizeType ==
  ASSUME TypeOK, NEW m \in Messages, NEW status \in {"complete", "failed"},
         NEW err \in Errors, NEW retry \in BOOLEAN, Finalize(m, status, err, retry)
  PROVE  /\ msg' \in [Messages -> RowType]
         /\ tool' \in [Messages -> ToolType]
         /\ silent' \in [Messages -> 0..MaxAttempts]
<1>1. msg[m] \in RowType
  BY Types
<1>2. Settled(msg[m]) \in RowType
  BY <1>1, SettledType
<1>3. [Settled(msg[m]) EXCEPT !.status = status, !.err = err, !.retry = retry] \in RowType
  BY <1>2 DEF RowType
<1>4. [NoTool EXCEPT !.status = "confirmed"] \in ToolType
  BY DEF NoTool, ToolType
<1> QED
  BY <1>3, <1>4, EmptyTypes, Types DEF Finalize

LEMMA InitType == Init => TypeOK
<1> SUFFICES ASSUME Init PROVE TypeOK
  OBVIOUS
<1>1. resumes \in 0..MaxResumes
  BY MessageLifecycleAssumption DEF Init
<1>2. lost \in [Messages -> BOOLEAN] /\ taken \in BOOLEAN
  BY DEF Init
<1>3. /\ msg \in [Messages -> RowType] /\ tool \in [Messages -> ToolType]
      /\ stream \in [Streams -> GenType] /\ silent \in [Messages -> 0..MaxAttempts]
  BY EmptyTypes DEF Init
<1> QED
  BY <1>1, <1>2, <1>3, EmptyTypes, Types DEF Init

\* What a step leaves of a stream is a stream.
LEMMA StreamTypes ==
  ASSUME TypeOK, NEW s \in Streams
  PROVE  /\ Ends(s) => stream' \in [Streams -> GenType]
         /\ Finalized(s) => stream' \in [Streams -> GenType]
         /\ \A p \in {"idle", "run", "tool", "drop", "fail"}, f \in BOOLEAN :
              [stream EXCEPT ![s].pc = p, ![s].flag = f] \in [Streams -> GenType]
         /\ \A c \in BOOLEAN :
              [stream EXCEPT ![s].ticker = FALSE, ![s].cancelled = c]
                \in [Streams -> GenType]
         /\ \A m \in Messages, c \in BOOLEAN :
              [stream EXCEPT ![s] = [Idle EXCEPT !.pc = "run", !.msg = m,
                                       !.cont = c, !.ticker = TRUE]]
                \in [Streams -> GenType]
<1>1. stream \in [Streams -> GenType]
  BY Types
<1>2. Ends(s) => stream' \in [Streams -> GenType]
  BY <1>1, EmptyTypes DEF Ends
<1>3. [stream EXCEPT ![s].pc = "drop", ![s].ticker = FALSE] \in [Streams -> GenType]
  BY <1>1 DEF GenType
<1>4. Finalized(s) => stream' \in [Streams -> GenType]
  BY <1>2, <1>3 DEF Finalized
<1>5. ASSUME NEW p \in {"idle", "run", "tool", "drop", "fail"}, NEW f \in BOOLEAN
      PROVE  [stream EXCEPT ![s].pc = p, ![s].flag = f] \in [Streams -> GenType]
  BY <1>1 DEF GenType
<1>6. ASSUME NEW c \in BOOLEAN
      PROVE  [stream EXCEPT ![s].ticker = FALSE, ![s].cancelled = c]
               \in [Streams -> GenType]
  BY <1>1 DEF GenType
<1>7. ASSUME NEW m \in Messages, NEW c \in BOOLEAN
      PROVE  [stream EXCEPT ![s] = [Idle EXCEPT !.pc = "run", !.msg = m,
                                      !.cont = c, !.ticker = TRUE]]
               \in [Streams -> GenType]
  <2>1. [Idle EXCEPT !.pc = "run", !.msg = m, !.cont = c, !.ticker = TRUE] \in GenType
    BY DEF Idle, GenType
  <2> QED
    BY <1>1, <2>1
<1> QED
  BY <1>2, <1>4, <1>5, <1>6, <1>7

\* A stream that is not idle belongs to a message, a state to the message it paused.
Assigned ==
  /\ \A s \in Streams : stream[s] # Idle => stream[s].msg \in Messages
  /\ \A s \in Streams : stream[s] # Idle <=> stream[s].pc # "idle"
  /\ pts.status # "none" => pts.msg \in Messages

-----------------------------------------------------------------------------
(* Type correctness, one step per action.                                   *)

LEMMA RowTypes ==
  ASSUME TypeOK, NEW m \in Messages
  PROVE  /\ [NoMsg EXCEPT !.status = "open"] \in RowType
         /\ [NoMsg EXCEPT !.status = "gone"] \in RowType
         /\ [NoTool EXCEPT !.status = "executed"] \in ToolType
         /\ [NoTool EXCEPT !.status = "failed"] \in ToolType
         /\ Stamped(m) \in RowType
         /\ [msg[m] EXCEPT !.stale = TRUE] \in RowType
<1>1. msg[m] \in RowType
  BY Types
<1>2. /\ [NoMsg EXCEPT !.status = "open"] \in RowType
      /\ [NoMsg EXCEPT !.status = "gone"] \in RowType
  BY EmptyTypes DEF NoMsg, RowType
<1>3. /\ [NoTool EXCEPT !.status = "executed"] \in ToolType
      /\ [NoTool EXCEPT !.status = "failed"] \in ToolType
  BY DEF NoTool, ToolType
<1>4. Stamped(m) \in RowType /\ [msg[m] EXCEPT !.stale = TRUE] \in RowType
  BY <1>1 DEF Stamped, RowType
<1> QED
  BY <1>2, <1>3, <1>4

\* Below its limit the reconciler's count fits the column, and it is positive.
LEMMA CountType ==
  ASSUME TypeOK, NEW m \in Messages
  PROVE  /\ Count(m) \in 1..MaxAttempts
         /\ ~AtLimit(m) => Count(m) \in 0..(MaxAttempts - 1)
<1>1. msg[m].attempts \in 0..(MaxAttempts - 1) /\ msg[m].moved \in BOOLEAN
  BY Types DEF RowType
<1> QED
  BY <1>1, MessageLifecycleAssumption DEF Count, AtLimit

LEMMA SweptTypes ==
  ASSUME TypeOK, NEW m \in Messages, SweepMessage(m)
  PROVE  msg' \in [Messages -> RowType] /\ silent' \in [Messages -> 0..MaxAttempts]
<1>1. msg[m] \in RowType /\ Settled(msg[m]) \in RowType
  BY Types, SettledType
<1>2. Cleared(m) \in BOOLEAN
  BY <1>1 DEF Cleared, RowType
<1>3. [Settled(msg[m]) EXCEPT !.status = "failed", !.err = "reconciler",
                              !.cleared = Cleared(m)] \in RowType
  BY <1>1, <1>2 DEF RowType, Errors
<1>4. ASSUME ~AtLimit(m)
      PROVE  [msg[m] EXCEPT !.attempts = Count(m), !.moved = FALSE] \in RowType
  BY <1>1, <1>4, CountType DEF RowType
<1>5. msg' \in [Messages -> RowType]
  <2>1. CASE AtLimit(m)
    BY <1>3, <2>1, Types DEF SweepMessage
  <2>2. CASE ~AtLimit(m)
    BY <1>4, <2>2, Types DEF SweepMessage
  <2> QED
    BY <2>1, <2>2
<1>6. silent' \in [Messages -> 0..MaxAttempts]
  BY Types, MessageLifecycleAssumption DEF SweepMessage
<1> QED
  BY <1>5, <1>6

LEMMA TypesNext ==
  TypeOK' <=> /\ msg' \in [Messages -> RowType]
              /\ pts' \in PtsType
              /\ tool' \in [Messages -> ToolType]
              /\ stream' \in [Streams -> GenType]
              /\ retiring' \in Messages \cup {0}
              /\ resumes' \in 0..MaxResumes
              /\ silent' \in [Messages -> 0..MaxAttempts]
              /\ lost' \in [Messages -> BOOLEAN]
              /\ taken' \in BOOLEAN
BY Zenon DEF TypeOK, RowType, PtsType, ToolType, GenType

\* A claim is taken from somebody, or not.
LEMMA TakesType == ASSUME NEW by PROVE Takes(by) \in BOOLEAN
BY DEF Takes

LEMMA ClaimType ==
  ASSUME TypeOK, Claim
  PROVE  pts' \in PtsType /\ resumes' \in 0..MaxResumes
<1>1. pts' \in PtsType
  BY Types DEF Claim, PtsType
<1>2. resumes \in 0..MaxResumes /\ resumes < MaxResumes /\ resumes' = resumes + 1
  BY Types DEF Claim
<1> QED
  BY <1>1, <1>2, MessageLifecycleAssumption

LEMMA TypeStep ==
  ASSUME TypeOK, Assigned, [Next]_vars
  PROVE  TypeOK'
<1>1. ASSUME NEW s \in Streams, NEW k \in Messages, Ask(s, k) PROVE TypeOK'
  <2>1. PICK n \in Messages :
          /\ msg' = [i \in Messages |->
                       IF i = n THEN [NoMsg EXCEPT !.status = "open"]
                       ELSE IF i >= k /\ Present(i) THEN [NoMsg EXCEPT !.status = "gone"]
                       ELSE msg[i]]
          /\ stream' = [stream EXCEPT ![s] = [Idle EXCEPT !.pc = "run", !.msg = n,
                                                          !.ticker = TRUE]]
    BY <1>1 DEF Ask
  <2>2. stream' \in [Streams -> GenType]
    <3>1. [Idle EXCEPT !.pc = "run", !.msg = n, !.ticker = TRUE] \in GenType
      BY <2>1 DEF Idle, GenType
    <3> QED
      BY <2>1, <3>1, Types
  <2>3. msg' \in [Messages -> RowType]
    BY <2>1, RowTypes, Types
  <2>4. silent' \in [Messages -> 0..MaxAttempts] /\ lost' \in [Messages -> BOOLEAN]
    BY <1>1, Types, EmptyTypes DEF Ask
  <2> QED
    BY <1>1, <2>2, <2>3, <2>4, Types, TypesNext DEF Ask
<1>2. ASSUME NEW s \in Streams, Resume(s) PROVE TypeOK'
  <2>1. pts' \in PtsType /\ resumes' \in 0..MaxResumes
    BY <1>2, ClaimType DEF Resume
  <2>2. pts.msg \in Messages
    BY <1>2 DEF Resume, Claim, Claimable, Assigned
  <2>3. stream' \in [Streams -> GenType]
    BY <1>2, <2>2, StreamTypes DEF Resume
  <2> QED
    BY <1>2, <2>1, <2>3, Types, TypesNext DEF Resume
<1>3. CASE ResumeRefused
  <2>1. pts' \in PtsType /\ resumes' \in 0..MaxResumes
    BY <1>3, ClaimType DEF ResumeRefused
  <2> QED
    BY <1>3, <2>1, Types, TypesNext DEF ResumeRefused
<1>4. ASSUME NEW s \in Streams, StreamStep(s) PROVE TypeOK'
  <2>0. stream[s].pc # "idle" \/ stream[s].ticker => stream[s].msg \in Messages
    BY DEF Assigned, Idle
  <2>1. CASE Heartbeat(s)
    <3>1. stream[s].msg \in Messages
      BY <2>0, <2>1 DEF Heartbeat
    <3>2. Present(stream[s].msg) \in BOOLEAN
      BY DEF Present
    <3>3. msg' \in [Messages -> RowType] /\ silent' \in [Messages -> 0..MaxAttempts]
      BY <2>1, <3>1, RowTypes, EmptyTypes, Types DEF Heartbeat
    <3>4. [stream EXCEPT ![s].ticker = FALSE, ![s].cancelled = ~Present(stream[s].msg)]
            \in [Streams -> GenType]
      BY <3>2, StreamTypes
    <3>5. stream' \in [Streams -> GenType]
      BY <2>1, <3>4, Types DEF Heartbeat
    <3> QED
      BY <2>1, <3>3, <3>5, Types, TypesNext DEF Heartbeat
  <2>2. CASE TickerCeiling(s)
    <3>1. stream' \in [Streams -> GenType]
      <4>1. stream[s] \in GenType
        BY Types
      <4>2. [stream[s] EXCEPT !.ticker = FALSE] \in GenType
        BY <4>1 DEF GenType
      <4> QED
        BY <2>2, <4>2, Types DEF TickerCeiling
    <3> QED
      BY <2>2, <3>1, Types, TypesNext DEF TickerCeiling
  <2>3. CASE ToolStart(s)
    <3>1. stream' \in [Streams -> GenType]
      BY <2>3, StreamTypes DEF ToolStart, Present
    <3>2. tool' \in [Messages -> ToolType]
      <4>1. stream[s].msg \in Messages
        BY <2>0, <2>3 DEF ToolStart
      <4>2. [tool[stream[s].msg] EXCEPT !.status = "proposed"] \in ToolType
        BY <4>1, Types DEF ToolType
      <4> QED
        BY <2>3, <4>2, Types DEF ToolStart
    <3> QED
      BY <2>3, <3>1, <3>2, Types, TypesNext DEF ToolStart
  <2>4. CASE ToolReturn(s) \/ ToolRaise(s)
    <3>1. stream' \in [Streams -> GenType]
      <4>1. [stream EXCEPT ![s].pc = "run", ![s].flag = FALSE] \in [Streams -> GenType]
        BY StreamTypes
      <4> QED
        BY <2>4, <4>1 DEF ToolReturn, ToolRaise
    <3>2. tool' \in [Messages -> ToolType]
      BY <2>0, <2>4, RowTypes, Types DEF ToolReturn, ToolRaise
    <3> QED
      BY <2>4, <3>1, <3>2, Types, TypesNext DEF ToolReturn, ToolRaise
  <2>5. CASE Pause(s)
    <3>1. pts' \in PtsType
      BY <2>0, <2>5 DEF Pause, NoPts, PtsType
    <3>2. taken' \in BOOLEAN /\ stream' \in [Streams -> GenType]
      BY <2>5, TakesType, StreamTypes, Types DEF Pause
    <3> QED
      BY <2>5, <3>1, <3>2, Types, TypesNext DEF Pause
  <2>6. CASE PauseUnsaved(s) \/ Abandon(s) \/ Crash(s)
    <3>1. stream' \in [Streams -> GenType]
      BY <2>6, StreamTypes DEF PauseUnsaved, Abandon, Crash
    <3> QED
      BY <2>6, <3>1, Types, TypesNext DEF PauseUnsaved, Abandon, Crash
  <2>7. CASE FinalizeAnswer(s) \/ FinalizeEmpty(s)
    <3>1. stream' \in [Streams -> GenType] /\ stream[s].msg \in Messages
      BY <2>0, <2>7, StreamTypes DEF FinalizeAnswer, FinalizeEmpty
    <3>2. /\ msg' \in [Messages -> RowType]
          /\ tool' \in [Messages -> ToolType]
          /\ silent' \in [Messages -> 0..MaxAttempts]
      BY <2>7, <3>1, FinalizeType DEF FinalizeAnswer, FinalizeEmpty, Errors
    <3>3. lost' \in [Messages -> BOOLEAN]
      BY <2>7, Types DEF FinalizeAnswer, FinalizeEmpty, Reclaimable
    <3> QED
      BY <2>7, <3>1, <3>2, <3>3, Types, TypesNext DEF FinalizeAnswer, FinalizeEmpty
  <2>8. CASE DropState(s)
    <3>1. stream' \in [Streams -> GenType] /\ pts' \in PtsType /\ taken' \in BOOLEAN
      BY <2>8, StreamTypes, EmptyTypes, TakesType, Types DEF DropState
    <3> QED
      BY <2>8, <3>1, Types, TypesNext DEF DropState
  <2>9. CASE Raise(s)
    <3>1. Released(s) \in BOOLEAN
      BY Types DEF Released, GenType
    <3>2. stream' \in [Streams -> GenType]
      BY <2>9, <3>1, StreamTypes DEF Raise
    <3>3. pts' \in PtsType
      BY <2>9, Types DEF Raise, PtsType
    <3>4. taken' \in BOOLEAN
      BY <2>9, TakesType, Types DEF Raise
    <3> QED
      BY <2>9, <3>2, <3>3, <3>4, Types, TypesNext DEF Raise
  <2>10. CASE FinalizeError(s)
    <3>1. /\ stream' \in [Streams -> GenType] /\ stream[s].msg \in Messages
          /\ stream[s].flag \in BOOLEAN
      BY <2>0, <2>10, StreamTypes, Types DEF FinalizeError, GenType
    <3>2. /\ msg' \in [Messages -> RowType]
          /\ tool' \in [Messages -> ToolType]
          /\ silent' \in [Messages -> 0..MaxAttempts]
      BY <2>10, <3>1, FinalizeType DEF FinalizeError, Errors
    <3> QED
      BY <2>10, <3>1, <3>2, Types, TypesNext DEF FinalizeError
  <2> QED
    BY <1>4, <2>1, <2>2, <2>3, <2>4, <2>5, <2>6, <2>7, <2>8, <2>9, <2>10
    DEF StreamStep
<1>5. ASSUME NEW m \in Messages, RowAges(m) PROVE TypeOK'
  <2>1. msg' \in [Messages -> RowType]
    <3>1. msg[m] \in RowType
      BY Types
    <3>2. [msg[m] EXCEPT !.stale = TRUE] \in RowType
      BY RowTypes
    <3> QED
      BY <1>5, <3>2, Types DEF RowAges
  <2> QED
    BY <1>5, <2>1, Types, TypesNext DEF RowAges
<1>6. ASSUME NEW m \in Messages, ToolAges(m) \/ SweepTool(m) PROVE TypeOK'
  <2>1. tool' \in [Messages -> ToolType]
    <3>1. CASE ToolAges(m)
      <4>1. tool[m] \in ToolType
        BY Types
      <4>2. /\ [tool[m] EXCEPT !.late = TRUE] \in ToolType
            /\ [tool[m] EXCEPT !.stale = TRUE] \in ToolType
        BY <4>1 DEF ToolType
      <4> QED
        BY <3>1, <4>2, Types DEF ToolAges
    <3>2. CASE SweepTool(m)
      BY <3>2, RowTypes, Types DEF SweepTool
    <3> QED
      BY <1>6, <3>1, <3>2
  <2> QED
    BY <1>6, <2>1, Types, TypesNext DEF ToolAges, SweepTool
<1>7. CASE ClaimAges \/ StateExpires
  <2>1. pts' \in PtsType
    BY <1>7, Types DEF ClaimAges, StateExpires, PtsType
  <2> QED
    BY <1>7, <2>1, Types, TypesNext DEF ClaimAges, StateExpires
<1>8. ASSUME NEW m \in Messages, SweepMessage(m) PROVE TypeOK'
  <2>1. pts' \in PtsType /\ taken' \in BOOLEAN
    BY <1>8, EmptyTypes, TakesType, Types DEF SweepMessage
  <2> QED
    BY <1>8, <2>1, SweptTypes, Types, TypesNext DEF SweepMessage
<1>9. CASE Janitor
  <2>1. pts' \in PtsType
    BY <1>9, EmptyTypes, Types DEF Janitor, PtsType
  <2>2. retiring' \in Messages \cup {0} /\ taken' \in BOOLEAN
    BY <1>9, TakesType, Types DEF Janitor, PtsType
  <2> QED
    BY <1>9, <2>1, <2>2, Types, TypesNext DEF Janitor
<1>10. CASE Retire
  <2>1. retiring \in Messages
    BY <1>10, Types DEF Retire
  <2>2. /\ msg' \in [Messages -> RowType]
        /\ tool' \in [Messages -> ToolType]
        /\ silent' \in [Messages -> 0..MaxAttempts]
    BY <1>10, <2>1, FinalizeType DEF Retire, Errors
  <2> QED
    BY <1>10, <2>2, Types, TypesNext DEF Retire
<1>11. CASE JanitorCrash \/ UNCHANGED vars
  BY <1>11, Types, TypesNext DEF JanitorCrash, vars
<1> QED
  BY <1>1, <1>2, <1>3, <1>4, <1>5, <1>6, <1>7, <1>8, <1>9, <1>10, <1>11
  DEF Next, Time, Reconciler

-----------------------------------------------------------------------------
(* What a step may do to one row of conversation_messages.                  *)

Kept(m) == msg'[m] = msg[m] /\ (silent'[m] = silent[m] \/ ~Present(m))

Beaten(m) == /\ msg[m].status = "open"
             /\ \/ msg'[m] = Stamped(m) /\ silent'[m] = 0
                \/ msg'[m] = [msg[m] EXCEPT !.stale = TRUE] /\ silent'[m] = silent[m]

Edited(m) ==
  \/ /\ msg[m].status = "none"
     /\ msg'[m] = [NoMsg EXCEPT !.status = "open"] /\ silent'[m] = 0
     /\ ~lost'[m]
  \/ Present(m) /\ msg'[m] = [NoMsg EXCEPT !.status = "gone"] /\ ~lost'[m]

Swept(m) ==
  /\ msg[m].status = "open"
  /\ silent'[m] = IF silent[m] < MaxAttempts THEN silent[m] + 1 ELSE silent[m]
  /\ msg'[m] = IF AtLimit(m)
                 THEN [Settled(msg[m]) EXCEPT !.status = "failed", !.err = "reconciler",
                                              !.cleared = Cleared(m)]
                 ELSE [msg[m] EXCEPT !.attempts = Count(m), !.moved = FALSE]

Ended(m, status, err, retry) ==
  /\ Present(m) /\ Writable(m, status = "complete")
  /\ msg'[m] = [Settled(msg[m]) EXCEPT !.status = status, !.err = err, !.retry = retry]
  /\ silent'[m] = 0

EndedSome(m) ==
  \/ Ended(m, "complete", "none", FALSE)
  \/ \E err \in {"expired", "empty"} : Ended(m, "failed", err, FALSE)
  \/ \E s \in Streams : /\ FinalizeError(s) /\ stream[s].msg = m
                        /\ Ended(m, "failed", "raised", stream[s].flag)

RowStep(m) == Kept(m) \/ Beaten(m) \/ Edited(m) \/ Swept(m) \/ EndedSome(m)

LEMMA FinalizeRow ==
  ASSUME TypeOK, NEW n \in Messages, NEW m \in Messages, NEW status, NEW err, NEW retry,
         Finalize(n, status, err, retry)
  PROVE  Kept(m) \/ (m = n /\ Ended(m, status, err, retry))
BY Types DEF Finalize, Kept, Ended

LEMMA RowSteps ==
  ASSUME TypeOK, Assigned, [Next]_vars, NEW m \in Messages
  PROVE  RowStep(m)
<1>1. ASSUME UNCHANGED <<msg, silent>> PROVE RowStep(m)
  BY <1>1 DEF RowStep, Kept
<1>2. ASSUME NEW s \in Streams, NEW k \in Messages, Ask(s, k) PROVE RowStep(m)
  <2>1. PICK n \in Messages :
          /\ msg[n].status = "none"
          /\ k <= n
          /\ msg' = [i \in Messages |->
                       IF i = n THEN [NoMsg EXCEPT !.status = "open"]
                       ELSE IF i >= k /\ Present(i) THEN [NoMsg EXCEPT !.status = "gone"]
                       ELSE msg[i]]
    BY <1>2 DEF Ask
  <2>2. /\ silent'[m] = IF m >= k THEN 0 ELSE silent[m]
        /\ m >= k => ~lost'[m]
    <3>1. silent'[m] = IF m >= k THEN 0 ELSE silent[m]
      BY <1>2 DEF Ask
    <3>2. lost'[m] = (lost[m] /\ m < k)
      BY <1>2, Zenon DEF Ask
    <3>3. m >= k => ~(m < k)
      BY DEF Messages
    <3> QED
      BY <3>1, <3>2, <3>3
  <2>3. CASE m = n
    BY <2>1, <2>2, <2>3 DEF RowStep, Edited
  <2>4. CASE m # n /\ m >= k /\ Present(m)
    BY <2>1, <2>2, <2>4 DEF RowStep, Edited
  <2>5. CASE m # n /\ ~(m >= k /\ Present(m))
    BY <2>1, <2>2, <2>5 DEF RowStep, Kept
  <2> QED
    BY <2>3, <2>4, <2>5
<1>3. ASSUME NEW s \in Streams, Heartbeat(s) PROVE RowStep(m)
  <2>1. CASE Stamp(stream[s].msg) /\ stream[s].msg = m
    BY <1>3, <2>1, Types DEF Heartbeat, Stamp, RowStep, Beaten
  <2>2. CASE Stamp(stream[s].msg) /\ stream[s].msg # m
    BY <1>3, <2>2, Types DEF Heartbeat, RowStep, Kept
  <2>3. CASE ~Stamp(stream[s].msg)
    BY <1>1, <1>3, <2>3 DEF Heartbeat
  <2> QED
    BY <2>1, <2>2, <2>3
<1>4. ASSUME NEW s \in Streams,
             FinalizeAnswer(s) \/ FinalizeEmpty(s) \/ FinalizeError(s)
      PROVE RowStep(m)
  <2>1. stream[s].msg \in Messages /\ stream[s].flag \in BOOLEAN
    <3>1. stream[s] \in GenType
      BY Types
    <3> QED
      BY <1>4, <3>1 DEF FinalizeAnswer, FinalizeEmpty, FinalizeError, Assigned, GenType
  <2>2. \/ Kept(m)
        \/ Ended(m, "complete", "none", FALSE)
        \/ Ended(m, "failed", "empty", FALSE)
        \/ /\ FinalizeError(s) /\ stream[s].msg = m
           /\ Ended(m, "failed", "raised", stream[s].flag)
    BY <1>4, <2>1, FinalizeRow DEF FinalizeAnswer, FinalizeEmpty, FinalizeError
  <2> QED
    BY <2>1, <2>2 DEF RowStep, EndedSome
<1>5. ASSUME NEW n \in Messages, RowAges(n) PROVE RowStep(m)
  BY <1>5, Types DEF RowAges, RowStep, Kept, Beaten
<1>6. ASSUME NEW n \in Messages, SweepMessage(n) PROVE RowStep(m)
  <2>1. CASE n = m
    BY <1>6, <2>1, Types DEF SweepMessage, RowStep, Swept
  <2>2. CASE n # m
    BY <1>6, <2>2, Types DEF SweepMessage, RowStep, Kept
  <2> QED
    BY <2>1, <2>2
<1>7. CASE Retire
  <2>1. retiring \in Messages
    BY <1>7, Types DEF Retire
  <2> QED
    BY <1>7, <2>1, FinalizeRow DEF Retire, RowStep, EndedSome
<1>8. CASE \/ ResumeRefused \/ ClaimAges \/ StateExpires \/ Janitor \/ JanitorCrash
           \/ UNCHANGED vars
           \/ \E n \in Messages : ToolAges(n) \/ SweepTool(n)
           \/ \E s \in Streams :
                \/ Resume(s) \/ TickerCeiling(s) \/ ToolStart(s) \/ ToolReturn(s)
                \/ ToolRaise(s) \/ Pause(s) \/ PauseUnsaved(s) \/ DropState(s)
                \/ Raise(s) \/ Abandon(s) \/ Crash(s)
  BY <1>1, <1>8
  DEF ResumeRefused, ClaimAges, StateExpires, Janitor, JanitorCrash, vars, ToolAges,
      SweepTool, Resume, TickerCeiling, ToolStart, ToolReturn, ToolRaise, Pause,
      PauseUnsaved, DropState, Raise, Abandon, Crash
<1> QED
  BY <1>2, <1>3, <1>4, <1>5, <1>6, <1>7, <1>8
  DEF Next, StreamStep, Time, Reconciler

-----------------------------------------------------------------------------
(* Two invariants of the rows: what their columns say together, and that    *)
(* the reconciler's counter never runs ahead of the sweeps that found the   *)
(* row silent.                                                              *)

RowTells(row) ==
  /\ row.status = "open" => ~row.retry
  /\ row.cleared => row.status = "failed" /\ row.err = "reconciler"
  /\ row.retry => row.status = "failed" /\ row.err = "raised"
  /\ row.status = "failed" <=> row.err # "none"

CountsSilence(row, sweeps) ==
  /\ row.status = "open" => row.moved \/ row.attempts <= sweeps
  /\ row.err = "reconciler" => sweeps = MaxAttempts

RowsTold ==
  \A m \in Messages : RowTells(msg[m]) /\ CountsSilence(msg[m], silent[m])

LEMMA RowsToldStep ==
  ASSUME TypeOK, Assigned, RowsTold, [Next]_vars
  PROVE  RowsTold'
<1> SUFFICES ASSUME NEW m \in Messages
             PROVE  RowTells(msg'[m]) /\ CountsSilence(msg'[m], silent'[m])
  BY DEF RowsTold
<1>1. msg[m] \in RowType /\ silent[m] \in 0..MaxAttempts /\ MaxAttempts \in Nat \ {0}
  BY Types, MessageLifecycleAssumption
<1>2. RowTells(msg[m]) /\ CountsSilence(msg[m], silent[m])
  BY DEF RowsTold
<1>3. RowStep(m)
  BY RowSteps
<1>4. CASE Kept(m)
  BY <1>2, <1>4 DEF Kept, Present, RowTells, CountsSilence
<1>5. CASE Beaten(m)
  BY <1>1, <1>2, <1>5 DEF Beaten, Stamped, RowTells, CountsSilence, RowType
<1>6. CASE Edited(m)
  BY <1>6 DEF Edited, NoMsg, RowTells, CountsSilence
<1>7. CASE Swept(m)
  <2>1. msg[m].err = "none" /\ ~msg[m].retry
    BY <1>2, <1>7 DEF Swept, RowTells
  <2>2. CASE AtLimit(m)
    <3>1. silent'[m] = MaxAttempts
      BY <1>1, <1>2, <1>7, <2>2 DEF Swept, AtLimit, Count, CountsSilence, RowType
    <3>2. /\ msg'[m].status = "failed" /\ msg'[m].err = "reconciler"
          /\ msg'[m].retry = msg[m].retry
      BY <1>1, <1>7, <2>2 DEF Swept, Settled, RowType
    <3> QED
      BY <2>1, <3>1, <3>2 DEF RowTells, CountsSilence
  <2>3. CASE ~AtLimit(m)
    <3>1. /\ msg'[m].status = "open" /\ msg'[m].err = "none"
          /\ msg'[m].retry = msg[m].retry /\ msg'[m].cleared = msg[m].cleared
          /\ msg'[m].attempts = Count(m)
      BY <1>1, <1>7, <2>1, <2>3 DEF Swept, RowType
    <3>2. Count(m) <= silent'[m]
      BY <1>1, <1>2, <1>7, <2>3 DEF Swept, AtLimit, Count, CountsSilence, RowType
    <3> QED
      BY <1>2, <1>7, <2>1, <3>1, <3>2 DEF Swept, RowTells, CountsSilence
  <2> QED
    BY <2>2, <2>3
<1>8. CASE EndedSome(m)
  <2>1. ASSUME NEW status \in {"complete", "failed"}, NEW err \in Errors,
               NEW retry \in BOOLEAN, Ended(m, status, err, retry)
        PROVE  /\ msg'[m].status = status /\ msg'[m].err = err
               /\ msg'[m].retry = retry /\ msg'[m].cleared = msg[m].cleared
               /\ ~msg[m].cleared
    BY <1>1, <1>2, <2>1
    DEF Ended, Writable, Reclaimable, Settled, RowTells, RowType
  <2>2. \A s \in Streams : stream[s].flag \in BOOLEAN
    BY Types DEF GenType
  <2> QED
    BY <1>8, <2>1, <2>2 DEF EndedSome, Errors, RowTells, CountsSilence
<1> QED
  BY <1>3, <1>4, <1>5, <1>6, <1>7, <1>8 DEF RowStep

-----------------------------------------------------------------------------
(* Who works on a turn.  Most steps are quiet: they leave the claim alone   *)
(* and let streams stay, advance or end.                                    *)

Active(s, m) == stream[s].pc # "idle" /\ stream[s].msg = m
Paused(m)    == pts.status # "none" /\ pts.msg = m

Stays(q) ==
  \/ stream'[q] = stream[q]
  \/ /\ stream[q].pc # "idle" /\ stream'[q].pc = stream[q].pc
     /\ stream'[q].msg = stream[q].msg /\ stream'[q].cont = stream[q].cont
     /\ stream'[q].flag = stream[q].flag

Advances(q) ==
  /\ stream[q].pc \in {"run", "tool"}
  /\ stream'[q].msg = stream[q].msg /\ stream'[q].cont = stream[q].cont
  /\ \/ stream'[q].pc \in {"run", "tool"}
     \/ stream'[q].pc = "drop" /\ stream[q].cont

Goes(q) == Stays(q) \/ Advances(q) \/ stream'[q] = Idle

SamePts == pts'.status = pts.status /\ pts'.msg = pts.msg /\ taken' = taken

Quiet == SamePts /\ \A q \in Streams : Goes(q)

LEMMA FinalizedGoes ==
  ASSUME TypeOK, NEW s \in Streams, stream[s].pc = "run", Finalized(s)
  PROVE  \A q \in Streams : Goes(q)
<1> SUFFICES ASSUME NEW q \in Streams PROVE Goes(q)
  OBVIOUS
<1>1. stream \in [Streams -> GenType] /\ stream[s] \in GenType
  BY Types
<1>2. CASE q # s
  BY <1>1, <1>2 DEF Finalized, Ends, Goes, Stays
<1>3. CASE q = s /\ stream[s].cont
  BY <1>1, <1>3 DEF Finalized, Goes, Advances, GenType
<1>4. CASE q = s /\ ~stream[s].cont
  BY <1>1, <1>4 DEF Finalized, Ends, Goes
<1> QED
  BY <1>2, <1>3, <1>4

LEMMA EndsGoes ==
  ASSUME TypeOK, NEW s \in Streams, Ends(s)
  PROVE  \A q \in Streams : (q # s => stream'[q] = stream[q]) /\ Goes(q)
BY Types DEF Ends, Goes, Stays

LEMMA QuietStreamStep ==
  ASSUME TypeOK, Assigned, NEW s \in Streams, StreamStep(s)
  PROVE  Quiet \/ Pause(s) \/ DropState(s) \/ Raise(s)
<1>1. stream \in [Streams -> GenType] /\ stream[s] \in GenType
  BY Types
<1>2. stream[s].ticker => stream[s].pc # "idle"
  BY DEF Assigned, Idle
<1>3. CASE Heartbeat(s) \/ TickerCeiling(s)
  <2>1. \A q \in Streams : Stays(q)
    BY <1>1, <1>2, <1>3 DEF Heartbeat, TickerCeiling, Stays, GenType
  <2> QED
    BY <1>3, <2>1 DEF Heartbeat, TickerCeiling, Quiet, SamePts, Goes
<1>4. CASE ToolStart(s) \/ ToolReturn(s) \/ ToolRaise(s)
  <2>1. \A q \in Streams : Stays(q) \/ Advances(q)
    BY <1>1, <1>4 DEF ToolStart, ToolReturn, ToolRaise, Stays, Advances, GenType
  <2> QED
    BY <1>4, <2>1 DEF ToolStart, ToolReturn, ToolRaise, Quiet, SamePts, Goes
<1>5. CASE FinalizeAnswer(s) \/ FinalizeEmpty(s)
  BY <1>5, FinalizedGoes DEF FinalizeAnswer, FinalizeEmpty, Quiet, SamePts
<1>6. CASE PauseUnsaved(s) \/ FinalizeError(s) \/ Abandon(s) \/ Crash(s)
  BY <1>6, EndsGoes DEF PauseUnsaved, FinalizeError, Abandon, Crash, Quiet, SamePts
<1> QED
  BY <1>3, <1>4, <1>5, <1>6 DEF StreamStep

\* Every step is quiet or one of these eight.
LEMMA Steps ==
  ASSUME TypeOK, Assigned, [Next]_vars
  PROVE  \/ Quiet
         \/ \E s \in Streams : \/ Pause(s) \/ DropState(s) \/ Raise(s) \/ Resume(s)
                               \/ \E k \in Messages : Ask(s, k)
         \/ ResumeRefused \/ Janitor
         \/ \E m \in Messages : SweepMessage(m) /\ AtLimit(m)
<1>1. ASSUME UNCHANGED stream, SamePts PROVE Quiet
  BY <1>1 DEF Quiet, Goes, Stays
<1>2. CASE ClaimAges \/ StateExpires
  <2>1. pts \in PtsType
    BY Types
  <2> QED
    BY <1>1, <1>2, <2>1 DEF ClaimAges, StateExpires, SamePts, PtsType
<1>3. CASE \/ Retire \/ JanitorCrash \/ UNCHANGED vars
           \/ \E m \in Messages : RowAges(m) \/ ToolAges(m) \/ SweepTool(m)
           \/ \E m \in Messages : SweepMessage(m) /\ ~AtLimit(m)
  BY <1>1, <1>3
  DEF Retire, JanitorCrash, vars, RowAges, ToolAges, SweepTool, SweepMessage, SamePts
<1>4. ASSUME NEW s \in Streams, StreamStep(s)
      PROVE  Quiet \/ Pause(s) \/ DropState(s) \/ Raise(s)
  BY <1>4, QuietStreamStep
<1> QED
  BY <1>2, <1>3, <1>4 DEF Next, Time, Reconciler

\* The effects of the loud steps on streams and state.
LEMMA AskEffect ==
  ASSUME TypeOK, NEW s \in Streams, NEW k \in Messages, Ask(s, k)
  PROVE  \E n \in Messages :
           /\ msg[n].status = "none" /\ msg'[n].status = "open" /\ msg'[n].err = "none"
           /\ stream'[s].pc = "run" /\ stream'[s].msg = n
           /\ ~stream'[s].cont /\ ~stream'[s].flag
           /\ \A q \in Streams : q # s => stream'[q] = stream[q]
           /\ SamePts
<1>1. PICK n \in Messages :
        /\ msg[n].status = "none"
        /\ msg' = [i \in Messages |->
                     IF i = n THEN [NoMsg EXCEPT !.status = "open"]
                     ELSE IF i >= k /\ Present(i) THEN [NoMsg EXCEPT !.status = "gone"]
                     ELSE msg[i]]
        /\ stream' = [stream EXCEPT ![s] = [Idle EXCEPT !.pc = "run", !.msg = n,
                                                        !.ticker = TRUE]]
  BY DEF Ask
<1>2. stream \in [Streams -> GenType]
  BY Types
<1>3. /\ stream'[s].pc = "run" /\ stream'[s].msg = n
      /\ ~stream'[s].cont /\ ~stream'[s].flag
      /\ \A q \in Streams : q # s => stream'[q] = stream[q]
  BY <1>1, <1>2 DEF Idle
<1>4. msg'[n].status = "open" /\ msg'[n].err = "none"
  BY <1>1 DEF NoMsg
<1>5. SamePts
  BY DEF Ask, SamePts
<1> QED
  BY <1>1, <1>3, <1>4, <1>5

LEMMA ClaimEffect ==
  ASSUME TypeOK, Claim
  PROVE  /\ pts.status = "pending" /\ pts'.status = "resuming" /\ pts'.msg = pts.msg
BY Types DEF Claim, Claimable, PtsType

LEMMA ResumeEffect ==
  ASSUME TypeOK, NEW s \in Streams, Resume(s)
  PROVE  /\ pts.status = "pending" /\ pts'.status = "resuming" /\ pts'.msg = pts.msg
         /\ taken' = taken
         /\ stream'[s].pc = "run" /\ stream'[s].msg = pts.msg
         /\ stream'[s].cont /\ ~stream'[s].flag
         /\ \A q \in Streams : q # s => stream'[q] = stream[q]
BY ClaimEffect, Types DEF Resume, Idle

LEMMA PauseEffect ==
  ASSUME TypeOK, NEW s \in Streams, Pause(s)
  PROVE  /\ stream[s].pc = "run" /\ pts'.status = "pending" /\ pts'.msg = stream[s].msg
         /\ taken' = (taken \/ Takes({s}))
         /\ stream'[s] = Idle
         /\ \A q \in Streams : q # s => stream'[q] = stream[q]
BY Types DEF Pause, Ends, NoPts

LEMMA DropEffect ==
  ASSUME TypeOK, NEW s \in Streams, DropState(s)
  PROVE  /\ \/ SamePts
            \/ pts' = NoPts /\ taken' = (taken \/ Takes({s}))
         /\ stream'[s] = Idle
         /\ \A q \in Streams : q # s => stream'[q] = stream[q]
BY Types DEF DropState, Ends, SamePts

LEMMA RaiseEffect ==
  ASSUME TypeOK, NEW s \in Streams, Raise(s)
  PROVE  /\ \/ SamePts /\ ~(stream[s].cont /\ pts.status = "resuming")
            \/ /\ stream[s].cont /\ pts.status = "resuming"
               /\ pts'.status = "pending" /\ pts'.msg = pts.msg
               /\ taken' = (taken \/ Takes({s}))
         /\ stream[s].pc = "run" /\ stream'[s].pc = "fail"
         /\ stream'[s].msg = stream[s].msg /\ stream'[s].cont = stream[s].cont
         /\ stream'[s].flag = (stream[s].cont /\ pts.status = "resuming")
         /\ \A q \in Streams : q # s => stream'[q] = stream[q]
<1>1. stream \in [Streams -> GenType] /\ stream[s] \in GenType /\ pts \in PtsType
  BY Types
<1>2. /\ stream[s].pc = "run" /\ stream'[s].pc = "fail"
      /\ stream'[s].msg = stream[s].msg /\ stream'[s].cont = stream[s].cont
      /\ stream'[s].flag = (stream[s].cont /\ pts.status = "resuming")
      /\ \A q \in Streams : q # s => stream'[q] = stream[q]
  BY <1>1 DEF Raise, Released, GenType
<1>3. CASE stream[s].cont /\ pts.status = "resuming"
  BY <1>1, <1>2, <1>3 DEF Raise, PtsType
<1>4. CASE ~(stream[s].cont /\ pts.status = "resuming")
  BY <1>2, <1>4 DEF Raise, SamePts
<1> QED
  BY <1>2, <1>3, <1>4

\* The janitor and the sweep: the state is handed back or deleted, no stream moves.
LEMMA SweeperEffect ==
  ASSUME TypeOK, Janitor \/ \E m \in Messages : SweepMessage(m) /\ AtLimit(m)
  PROVE  /\ stream' = stream
         /\ taken' = (taken \/ Takes({}))
         /\ pts'.status # "none" => pts.status # "none" /\ pts'.msg = pts.msg
<1>1. pts \in PtsType
  BY Types
<1>2. NoPts.status = "none"
  BY DEF NoPts
<1>3. CASE Janitor
  BY <1>1, <1>2, <1>3 DEF Janitor, PtsType
<1>4. ASSUME NEW m \in Messages, SweepMessage(m), AtLimit(m)
      PROVE  stream' = stream /\ taken' = (taken \/ Takes({})) /\ pts' = NoPts
  BY <1>4 DEF SweepMessage
<1> QED
  BY <1>2, <1>3, <1>4

-----------------------------------------------------------------------------
\* Streams and states stay assigned to messages that were reserved.
Reserved ==
  /\ \A s \in Streams : stream[s].pc # "idle" => msg[stream[s].msg].status # "none"
  /\ pts.status # "none" => msg[pts.msg].status # "none"

LEMMA StaysReserved ==
  ASSUME TypeOK, Assigned, [Next]_vars, NEW m \in Messages, msg[m].status # "none"
  PROVE  msg'[m].status # "none"
<1>1. RowStep(m) /\ msg[m] \in RowType /\ Settled(msg[m]) \in RowType
  BY RowSteps, Types, SettledType
<1> QED
  BY <1>1
  DEF RowStep, Kept, Beaten, Stamped, Edited, NoMsg, Swept, EndedSome, Ended, RowType

LEMMA IdleIsIdle == Idle.pc = "idle" /\ NoPts.status = "none"
BY DEF Idle, NoPts

LEMMA AssignedStep ==
  ASSUME TypeOK, Assigned, [Next]_vars
  PROVE  Assigned'
<1> SUFFICES /\ \A q \in Streams : /\ stream'[q] # Idle => stream'[q].msg \in Messages
                                   /\ stream'[q] # Idle <=> stream'[q].pc # "idle"
             /\ pts'.status # "none" => pts'.msg \in Messages
  BY DEF Assigned
<1>1. ASSUME NEW q \in Streams, Goes(q)
      PROVE  /\ stream'[q] # Idle => stream'[q].msg \in Messages
             /\ stream'[q] # Idle <=> stream'[q].pc # "idle"
  BY <1>1, IdleIsIdle DEF Goes, Stays, Advances, Assigned
<1>2. SamePts => (pts'.status # "none" => pts'.msg \in Messages)
  BY DEF SamePts, Assigned
<1>3. ASSUME NEW s \in Streams, Pause(s) \/ DropState(s) \/ Raise(s) \/ Resume(s)
      PROVE  /\ \A q \in Streams : /\ stream'[q] # Idle => stream'[q].msg \in Messages
                                   /\ stream'[q] # Idle <=> stream'[q].pc # "idle"
             /\ pts'.status # "none" => pts'.msg \in Messages
  <2>1. CASE Pause(s)
    BY <2>1, PauseEffect, IdleIsIdle DEF Assigned
  <2>2. CASE DropState(s)
    BY <1>2, <2>2, DropEffect, IdleIsIdle DEF Assigned
  <2>3. CASE Raise(s)
    BY <1>2, <2>3, RaiseEffect, IdleIsIdle DEF Assigned
  <2>4. CASE Resume(s)
    BY <2>4, ResumeEffect, IdleIsIdle DEF Assigned
  <2> QED
    BY <1>3, <2>1, <2>2, <2>3, <2>4
<1>4. ASSUME NEW s \in Streams, NEW k \in Messages, Ask(s, k)
      PROVE  /\ \A q \in Streams : /\ stream'[q] # Idle => stream'[q].msg \in Messages
                                   /\ stream'[q] # Idle <=> stream'[q].pc # "idle"
             /\ pts'.status # "none" => pts'.msg \in Messages
  BY <1>2, <1>4, AskEffect, IdleIsIdle DEF Assigned
<1>5. CASE ResumeRefused
  BY <1>5, ClaimEffect DEF ResumeRefused, Assigned
<1>6. CASE Janitor \/ \E m \in Messages : SweepMessage(m) /\ AtLimit(m)
  BY <1>6, SweeperEffect DEF Assigned
<1> QED
  BY <1>1, <1>2, <1>3, <1>4, <1>5, <1>6, Steps DEF Quiet

LEMMA ReservedStep ==
  ASSUME TypeOK, Assigned, Reserved, [Next]_vars
  PROVE  Reserved'
<1> SUFFICES /\ \A q \in Streams : stream'[q].pc # "idle" => msg'[stream'[q].msg].status # "none"
             /\ pts'.status # "none" => msg'[pts'.msg].status # "none"
  BY DEF Reserved
<1>1. \A m \in Messages : msg[m].status # "none" => msg'[m].status # "none"
  BY StaysReserved
<1>2. \A q \in Streams : stream[q].pc # "idle" =>
        stream[q].msg \in Messages /\ msg'[stream[q].msg].status # "none"
  BY <1>1 DEF Assigned, Reserved
<1>3. pts.status # "none" => pts.msg \in Messages /\ msg'[pts.msg].status # "none"
  BY <1>1 DEF Assigned, Reserved
<1>4. CASE Quiet
  BY <1>2, <1>3, <1>4, IdleIsIdle DEF Quiet, SamePts, Goes, Stays, Advances
<1>5. ASSUME NEW s \in Streams, Pause(s) PROVE Reserved'
  BY <1>2, <1>5, PauseEffect, IdleIsIdle DEF Reserved
<1>6. ASSUME NEW s \in Streams, DropState(s) PROVE Reserved'
  BY <1>2, <1>3, <1>6, DropEffect, IdleIsIdle DEF Reserved, SamePts
<1>7. ASSUME NEW s \in Streams, Raise(s) PROVE Reserved'
  BY <1>2, <1>3, <1>7, RaiseEffect DEF Reserved, SamePts
<1>8. ASSUME NEW s \in Streams, Resume(s) PROVE Reserved'
  BY <1>2, <1>3, <1>8, ResumeEffect DEF Reserved
<1>9. ASSUME NEW s \in Streams, NEW k \in Messages, Ask(s, k) PROVE Reserved'
  BY <1>2, <1>3, <1>9, AskEffect DEF Reserved, SamePts
<1>10. CASE ResumeRefused
  BY <1>2, <1>3, <1>10, ClaimEffect DEF ResumeRefused, Reserved
<1>11. CASE Janitor \/ \E m \in Messages : SweepMessage(m) /\ AtLimit(m)
  BY <1>2, <1>3, <1>11, SweeperEffect
<1> QED
  BY <1>4, <1>5, <1>6, <1>7, <1>8, <1>9, <1>10, <1>11, Steps DEF Reserved

-----------------------------------------------------------------------------
\* While nobody took a claim from a live holder, a stream that continues a turn is
\* the only one and the state it resumed is still claimed.
ClaimHeld ==
  \/ taken
  \/ /\ \A s \in Streams, m \in Messages :
          Continues(s, m) => pts.status = "resuming" /\ pts.msg = m
     /\ \A s1, s2 \in Streams, m \in Messages :
          Continues(s1, m) /\ Continues(s2, m) => s1 = s2

\* A write that is not fenced by its owner: it is noted, or nobody continues then.
LEMMA Unfenced ==
  ASSUME ClaimHeld, NEW by \in SUBSET Streams, taken' = (taken \/ Takes(by)),
         \A q \in Streams \ by : stream'[q] = stream[q],
         \A q \in by : stream'[q].pc \notin {"run", "tool"}
  PROVE  ClaimHeld'
<1>1. CASE taken \/ Takes(by)
  BY <1>1 DEF ClaimHeld
<1>2. CASE ~taken /\ ~Takes(by)
  <2>1. ASSUME NEW q \in Streams, NEW m \in Messages,
               stream'[q].cont, stream'[q].msg = m, stream'[q].pc \in {"run", "tool"}
        PROVE  FALSE
    <3>1. q \in Streams \ by /\ Continues(q, m)
      BY <2>1 DEF Continues
    <3>2. pts.status = "resuming" /\ pts.msg = m
      BY <1>2, <3>1 DEF ClaimHeld
    <3> QED
      BY <1>2, <3>1, <3>2 DEF Takes
  <2> QED
    BY <2>1 DEF ClaimHeld, Continues
<1> QED
  BY <1>1, <1>2

LEMMA ClaimHeldStep ==
  ASSUME TypeOK, Assigned, ClaimHeld, [Next]_vars
  PROVE  ClaimHeld'
<1>1. ASSUME SamePts,
             \A q \in Streams, m \in Messages :
               stream'[q].cont /\ stream'[q].msg = m /\ stream'[q].pc \in {"run", "tool"}
                 => Continues(q, m)
      PROVE  ClaimHeld'
  BY <1>1 DEF SamePts, ClaimHeld, Continues
<1>2. CASE Quiet
  BY <1>1, <1>2, IdleIsIdle DEF Quiet, Goes, Stays, Advances, Continues
<1>3. ASSUME NEW s \in Streams, Pause(s) PROVE ClaimHeld'
  <2>1. /\ taken' = (taken \/ Takes({s})) /\ stream'[s] = Idle
        /\ \A q \in Streams \ {s} : stream'[q] = stream[q]
    BY <1>3, PauseEffect
  <2> QED
    BY <2>1, Unfenced, IdleIsIdle
<1>4. ASSUME NEW s \in Streams, DropState(s) PROVE ClaimHeld'
  <2>1. CASE SamePts
    BY <1>1, <1>4, <2>1, DropEffect, IdleIsIdle DEF Continues
  <2>2. CASE pts' = NoPts /\ taken' = (taken \/ Takes({s}))
    BY <1>4, <2>2, DropEffect, Unfenced, IdleIsIdle
  <2> QED
    BY <1>4, <2>1, <2>2, DropEffect
<1>5. ASSUME NEW s \in Streams, Raise(s) PROVE ClaimHeld'
  <2>1. CASE SamePts
    BY <1>1, <1>5, <2>1, RaiseEffect DEF Continues
  <2>2. CASE taken' = (taken \/ Takes({s}))
    BY <1>5, <2>2, RaiseEffect, Unfenced
  <2> QED
    BY <1>5, <2>1, <2>2, RaiseEffect
<1>6. ASSUME NEW s \in Streams, Resume(s) PROVE ClaimHeld'
  <2>1. ~taken => \A q \in Streams, m \in Messages : ~Continues(q, m)
    BY <1>6, ResumeEffect DEF ClaimHeld
  <2> QED
    BY <1>6, <2>1, ResumeEffect DEF ClaimHeld, Continues
<1>7. ASSUME NEW s \in Streams, NEW k \in Messages, Ask(s, k) PROVE ClaimHeld'
  BY <1>1, <1>7, AskEffect DEF Continues
<1>8. CASE ResumeRefused
  <2>1. ~taken => \A q \in Streams, m \in Messages : ~Continues(q, m)
    BY <1>8, ClaimEffect DEF ResumeRefused, ClaimHeld
  <2> QED
    BY <1>8, <2>1 DEF ResumeRefused, ClaimHeld, Continues
<1>9. CASE Janitor \/ \E m \in Messages : SweepMessage(m) /\ AtLimit(m)
  BY <1>9, SweeperEffect, Unfenced
<1> QED
  BY <1>2, <1>3, <1>4, <1>5, <1>6, <1>7, <1>8, <1>9, Steps

-----------------------------------------------------------------------------
\* The stream that reserved a turn is alone on it until it pauses.
FreshAlone ==
  \A s \in Streams, m \in Messages :
    Active(s, m) /\ ~stream[s].cont =>
      ~Paused(m) /\ \A q \in Streams : Active(q, m) => q = s

LEMMA FreshAloneStep ==
  ASSUME TypeOK, Assigned, Reserved, FreshAlone, [Next]_vars
  PROVE  FreshAlone'
<1>1. ASSUME \A q \in Streams, m \in Messages :
               stream'[q].pc # "idle" /\ stream'[q].msg = m
                 => Active(q, m) /\ stream'[q].cont = stream[q].cont,
             \A m \in Messages :
               pts'.status # "none" /\ pts'.msg = m
                 => Paused(m) \/ \E s \in Streams : Active(s, m) /\ stream'[s].pc = "idle"
      PROVE  FreshAlone'
  BY <1>1 DEF FreshAlone, Active, Paused
<1>2. CASE Quiet
  BY <1>1, <1>2, IdleIsIdle DEF Quiet, SamePts, Goes, Stays, Advances, Active, Paused
<1>3. ASSUME NEW s \in Streams, Pause(s) PROVE FreshAlone'
  BY <1>1, <1>3, PauseEffect, IdleIsIdle DEF Active
<1>4. ASSUME NEW s \in Streams, DropState(s) PROVE FreshAlone'
  BY <1>1, <1>4, DropEffect, IdleIsIdle DEF Active, Paused, SamePts
<1>5. ASSUME NEW s \in Streams, Raise(s) PROVE FreshAlone'
  BY <1>1, <1>5, RaiseEffect DEF Active, Paused, SamePts
<1>6. ASSUME NEW s \in Streams, Resume(s) PROVE FreshAlone'
  <2>1. pts.msg \in Messages /\ Paused(pts.msg)
    BY <1>6, ResumeEffect DEF Assigned, Paused
  <2>2. \A q \in Streams : Active(q, pts.msg) => stream[q].cont
    BY <2>1 DEF FreshAlone
  <2> QED
    BY <1>6, <2>1, <2>2, ResumeEffect DEF FreshAlone, Active, Paused
<1>7. ASSUME NEW s \in Streams, NEW k \in Messages, Ask(s, k) PROVE FreshAlone'
  <2>1. PICK n \in Messages :
          /\ msg[n].status = "none"
          /\ stream'[s].pc = "run" /\ stream'[s].msg = n /\ ~stream'[s].cont
          /\ \A q \in Streams : q # s => stream'[q] = stream[q]
          /\ SamePts
    BY <1>7, AskEffect
  <2>2. ~Paused(n) /\ \A q \in Streams : ~Active(q, n)
    BY <2>1 DEF Reserved, Active, Paused
  <2> QED
    BY <2>1, <2>2 DEF FreshAlone, Active, Paused, SamePts
<1>8. CASE ResumeRefused
  BY <1>1, <1>8, ClaimEffect DEF ResumeRefused, Active, Paused
<1>9. CASE Janitor \/ \E m \in Messages : SweepMessage(m) /\ AtLimit(m)
  BY <1>1, <1>9, SweeperEffect DEF Active, Paused
<1> QED
  BY <1>2, <1>3, <1>4, <1>5, <1>6, <1>7, <1>8, <1>9, Steps

-----------------------------------------------------------------------------
\* Why a stream or a row ended with a failure that cannot be tried again.
FailuresTold ==
  /\ \A s \in Streams :
       stream[s].pc = "fail" /\ stream[s].cont /\ ~stream[s].flag => taken
  /\ \A m \in Messages :
       msg[m].err = "raised" /\ ~msg[m].retry =>
         taken \/ (~Paused(m) /\ \A s \in Streams : ~Active(s, m))

\* A finished answer that was lost has its explanation, and keeps it.
LostTold ==
  \A m \in Messages :
    lost[m] => \/ taken
               \/ /\ msg[m].status = "failed"
                  /\ msg[m].cleared \/ msg[m].err \in {"expired", "empty"}

LEMMA TakenStays ==
  ASSUME TypeOK, Assigned, [Next]_vars, taken
  PROVE  taken'
<1>1. ASSUME NEW s \in Streams,
             Pause(s) \/ DropState(s) \/ Raise(s) \/ Resume(s) \/ \E k \in Messages : Ask(s, k)
      PROVE  taken'
  BY <1>1, PauseEffect, DropEffect, RaiseEffect, ResumeEffect, AskEffect DEF SamePts
<1>2. ResumeRefused => taken'
  BY DEF ResumeRefused
<1>3. Janitor \/ (\E m \in Messages : SweepMessage(m) /\ AtLimit(m)) => taken'
  BY SweeperEffect
<1> QED
  BY <1>1, <1>2, <1>3, Steps DEF Quiet, SamePts

\* No stream and no state comes to a turn that has neither, once it is reserved.
LEMMA NobodyComes ==
  ASSUME TypeOK, Assigned, Reserved, [Next]_vars, NEW m \in Messages,
         msg[m].status # "none", ~Paused(m), \A s \in Streams : ~Active(s, m)
  PROVE  /\ ~(pts'.status # "none" /\ pts'.msg = m)
         /\ \A s \in Streams : ~(stream'[s].pc # "idle" /\ stream'[s].msg = m)
<1> DEFINE Nobody == /\ ~(pts'.status # "none" /\ pts'.msg = m)
                     /\ \A s \in Streams : ~(stream'[s].pc # "idle" /\ stream'[s].msg = m)
<1>1. Quiet => Nobody
  BY IdleIsIdle DEF Quiet, SamePts, Goes, Stays, Advances, Active, Paused
<1>2. ASSUME NEW s \in Streams, Pause(s) PROVE Nobody
  BY <1>2, PauseEffect, IdleIsIdle DEF Active
<1>3. ASSUME NEW s \in Streams, DropState(s) PROVE Nobody
  BY <1>3, DropEffect, IdleIsIdle DEF Active, Paused, SamePts
<1>4. ASSUME NEW s \in Streams, Raise(s) PROVE Nobody
  BY <1>4, RaiseEffect DEF Active, Paused, SamePts
<1>5. ASSUME NEW s \in Streams, Resume(s) PROVE Nobody
  BY <1>5, ResumeEffect DEF Active, Paused
<1>6. ASSUME NEW s \in Streams, NEW k \in Messages, Ask(s, k) PROVE Nobody
  BY <1>6, AskEffect DEF Active, Paused, SamePts
<1>7. ResumeRefused => Nobody
  BY ClaimEffect DEF ResumeRefused, Active, Paused
<1>8. Janitor \/ (\E n \in Messages : SweepMessage(n) /\ AtLimit(n)) => Nobody
  BY SweeperEffect DEF Active, Paused
<1> HIDE DEF Nobody
<1>9. Nobody
  BY <1>1, <1>2, <1>3, <1>4, <1>5, <1>6, <1>7, <1>8, Steps
<1> QED
  BY <1>9 DEF Nobody

LEMMA FailedStreamStep ==
  ASSUME TypeOK, Assigned, ClaimHeld, FailuresTold, [Next]_vars, NEW q \in Streams,
         stream'[q].pc = "fail", stream'[q].cont, ~stream'[q].flag
  PROVE  taken'
<1>1. CASE stream[q].pc = "fail" /\ stream[q].cont /\ ~stream[q].flag
  BY <1>1, TakenStays DEF FailuresTold
<1>2. CASE ~(stream[q].pc = "fail" /\ stream[q].cont /\ ~stream[q].flag)
  <2>1. ~Quiet
    BY <1>2, IdleIsIdle DEF Quiet, Goes, Stays, Advances
  <2>2. \A s \in Streams, k \in Messages : ~Ask(s, k)
    BY <1>2, AskEffect
  <2>3. \A s \in Streams : ~Pause(s) /\ ~DropState(s) /\ ~Resume(s)
    BY <1>2, PauseEffect, DropEffect, ResumeEffect, IdleIsIdle
  <2>4. ~ResumeRefused
    BY <1>2 DEF ResumeRefused
  <2>5. ~Janitor /\ ~(\E m \in Messages : SweepMessage(m) /\ AtLimit(m))
    BY <1>2, SweeperEffect
  <2>6. PICK s \in Streams : Raise(s)
    BY <2>1, <2>2, <2>3, <2>4, <2>5, Steps
  <2>7. q = s /\ stream[s].pc = "run" /\ stream[s].cont /\ pts.status # "resuming"
    BY <1>2, <2>6, RaiseEffect
  <2>8. stream[s].msg \in Messages
    BY <2>7, IdleIsIdle DEF Assigned
  <2>9. taken
    BY <2>7, <2>8 DEF ClaimHeld, Continues
  <2> QED
    BY <2>9, TakenStays
<1> QED
  BY <1>1, <1>2

LEMMA FailedRowStep ==
  ASSUME TypeOK, Assigned, Reserved, RowsTold, FreshAlone, FailuresTold, [Next]_vars,
         NEW m \in Messages, msg'[m].err = "raised", ~msg'[m].retry
  PROVE  \/ taken'
         \/ /\ ~(pts'.status # "none" /\ pts'.msg = m)
            /\ \A s \in Streams : ~(stream'[s].pc # "idle" /\ stream'[s].msg = m)
<1>1. msg[m] \in RowType /\ Settled(msg[m]) \in RowType /\ RowTells(msg[m]) /\ RowStep(m)
  BY Types, SettledType, RowSteps DEF RowsTold
<1>2. CASE msg[m].err = "raised" /\ ~msg[m].retry
  <2>1. msg[m].status # "none"
    BY <1>1, <1>2 DEF RowTells
  <2> QED
    BY <1>2, <2>1, TakenStays, NobodyComes DEF FailuresTold
<1>3. CASE ~(msg[m].err = "raised" /\ ~msg[m].retry)
  <2>1. ~Kept(m) /\ ~Beaten(m)
    BY <1>1, <1>3 DEF Kept, Beaten, Stamped, RowType
  <2>2. ~Edited(m)
    BY DEF Edited, NoMsg
  <2>3. ~Swept(m)
    BY <1>1, <1>3 DEF Swept, RowType
  <2>4. PICK s \in Streams : /\ FinalizeError(s) /\ stream[s].msg = m
                             /\ Ended(m, "failed", "raised", stream[s].flag)
    <3>1. \A err \in {"none", "expired", "empty"}, st \in {"complete", "failed"} :
            ~Ended(m, st, err, FALSE)
      BY <1>1 DEF Ended, RowType
    <3> QED
      BY <1>1, <2>1, <2>2, <2>3, <3>1 DEF RowStep, EndedSome
  <2>5. ~stream[s].flag /\ stream[s].pc = "fail"
    BY <1>1, <2>4 DEF Ended, RowType, FinalizeError
  <2>6. CASE stream[s].cont
    BY <2>5, <2>6, TakenStays DEF FailuresTold
  <2>7. CASE ~stream[s].cont
    <3>1. Active(s, m)
      BY <2>4, <2>5 DEF Active
    <3>2. ~Paused(m) /\ \A q \in Streams : Active(q, m) => q = s
      BY <2>7, <3>1 DEF FreshAlone
    <3>3. stream'[s] = Idle /\ \A q \in Streams : q # s => stream'[q] = stream[q]
      BY <2>4, Types DEF FinalizeError, Ends
    <3>4. pts' = pts
      BY <2>4 DEF FinalizeError
    <3> QED
      BY <3>2, <3>3, <3>4, IdleIsIdle DEF Active, Paused
  <2> QED
    BY <2>6, <2>7
<1> QED
  BY <1>2, <1>3

LEMMA FailuresToldStep ==
  ASSUME TypeOK, Assigned, Reserved, RowsTold, ClaimHeld, FreshAlone, FailuresTold,
         [Next]_vars
  PROVE  FailuresTold'
BY FailedStreamStep, FailedRowStep DEF FailuresTold, Active, Paused

LEMMA NewlyLost ==
  ASSUME TypeOK, Assigned, [Next]_vars, NEW m \in Messages, lost'[m], ~lost[m]
  PROVE  \E s \in Streams : /\ FinalizeAnswer(s) /\ stream[s].msg = m
                            /\ msg[m].status = "failed" /\ ~Reclaimable(m)
<1>1. lost' # lost
  OBVIOUS
<1>2. \A s \in Streams, k \in Messages : ~Ask(s, k)
  <2> SUFFICES ASSUME NEW s \in Streams, NEW k \in Messages, Ask(s, k) PROVE FALSE
    OBVIOUS
  <2>1. lost'[m] = (lost[m] /\ m < k)
    BY Zenon DEF Ask
  <2> QED
    BY <2>1
<1>3. PICK s \in Streams : FinalizeAnswer(s)
  BY <1>1, <1>2
  DEF Next, StreamStep, Time, Reconciler, Resume, ResumeRefused, Heartbeat,
      TickerCeiling, ToolStart, ToolReturn, ToolRaise, Pause, PauseUnsaved, FinalizeEmpty,
      DropState, Raise, FinalizeError, Abandon, Crash, RowAges, ToolAges, ClaimAges,
      StateExpires, SweepMessage, SweepTool, Janitor, Retire, JanitorCrash, vars
<1>4. lost \in [Messages -> BOOLEAN]
  BY Types
<1>5. lost' = [lost EXCEPT ![stream[s].msg] =
                 @ \/ (msg[stream[s].msg].status = "failed" /\ ~Reclaimable(stream[s].msg))]
  BY <1>3 DEF FinalizeAnswer
<1>6. stream[s].msg = m
  BY <1>4, <1>5
<1> QED
  BY <1>3, <1>4, <1>5, <1>6

LEMMA LostToldStep ==
  ASSUME TypeOK, Assigned, RowsTold, FailuresTold, LostTold, [Next]_vars
  PROVE  LostTold'
<1> SUFFICES ASSUME NEW m \in Messages, lost'[m], ~taken'
             PROVE  /\ msg'[m].status = "failed"
                    /\ msg'[m].cleared \/ msg'[m].err \in {"expired", "empty"}
  BY DEF LostTold
<1>1. msg[m] \in RowType /\ RowTells(msg[m]) /\ RowStep(m) /\ ~taken
  BY Types, RowSteps, TakenStays DEF RowsTold
<1>2. /\ msg[m].status = "failed"
      /\ msg[m].cleared \/ msg[m].err \in {"expired", "empty"}
  <2>1. CASE lost[m]
    BY <1>1, <2>1 DEF LostTold
  <2>2. CASE ~lost[m]
    <3>1. PICK s \in Streams : /\ FinalizeAnswer(s) /\ stream[s].msg = m
                               /\ msg[m].status = "failed" /\ ~Reclaimable(m)
      BY <2>2, NewlyLost
    <3>2. Active(s, m)
      BY <3>1 DEF FinalizeAnswer, Active
    <3>3. ~(msg[m].err = "raised" /\ ~msg[m].retry)
      BY <1>1, <3>2 DEF FailuresTold
    <3>4. msg[m].err \in {"reconciler", "expired", "raised", "empty"}
      BY <1>1, <3>1 DEF RowTells, RowType, Errors
    <3> QED
      BY <3>1, <3>3, <3>4 DEF Reclaimable
  <2> QED
    BY <2>1, <2>2
<1>3. ~Beaten(m) /\ ~Swept(m) /\ ~Edited(m)
  BY <1>2 DEF Beaten, Swept, Edited
<1>4. ~EndedSome(m)
  BY <1>1, <1>2 DEF EndedSome, Ended, Writable, Reclaimable, RowTells
<1> QED
  BY <1>1, <1>2, <1>3, <1>4 DEF RowStep, Kept

-----------------------------------------------------------------------------
(* The theorems.  The inductive invariant is the conjunction of the parts.  *)

LifecycleInv ==
  /\ TypeOK
  /\ Assigned
  /\ Reserved
  /\ RowsTold
  /\ ClaimHeld
  /\ FreshAlone
  /\ FailuresTold
  /\ LostTold

LEMMA LifecycleInit == Init => LifecycleInv
<1> SUFFICES ASSUME Init PROVE LifecycleInv
  OBVIOUS
<1>1. TypeOK
  BY InitType
<1>2. \A s \in Streams : stream[s] = Idle
  BY DEF Init
<1>3. pts.status = "none" /\ Idle.pc = "idle" /\ ~Idle.cont
  BY DEF Init, NoPts, Idle
<1>4. Assigned /\ Reserved /\ ClaimHeld /\ FreshAlone
  BY <1>2, <1>3 DEF Assigned, Reserved, ClaimHeld, Continues, FreshAlone, Active
<1>5. RowsTold
  BY DEF Init, RowsTold, RowTells, CountsSilence, NoMsg
<1>6. FailuresTold /\ LostTold
  BY <1>2, <1>3 DEF Init, FailuresTold, LostTold, NoMsg
<1> QED
  BY <1>1, <1>4, <1>5, <1>6 DEF LifecycleInv

LEMMA LifecycleStep == LifecycleInv /\ [Next]_vars => LifecycleInv'
BY TypeStep, AssignedStep, ReservedStep, RowsToldStep, ClaimHeldStep, FreshAloneStep,
   FailuresToldStep, LostToldStep
DEF LifecycleInv

LEMMA LifecycleHolds == Spec => []LifecycleInv
BY LifecycleInit, LifecycleStep, PTL DEF Spec

\* Every row, state, tool call and stream keeps its type.
THEOREM TypeCorrect == Spec => []TypeOK
<1>1. LifecycleInv => TypeOK
  BY DEF LifecycleInv
<1> QED
  BY <1>1, LifecycleHolds, PTL

\* The reconciler fails a row only after MaxAttempts sweeps in a row, with no
\* heartbeat among them.
THEOREM SweptOnlyWhenSilentHolds == Spec => []SweptOnlyWhenSilent
<1>1. LifecycleInv => SweptOnlyWhenSilent
  BY DEF LifecycleInv, RowsTold, CountsSilence, SweptOnlyWhenSilent
<1> QED
  BY <1>1, LifecycleHolds, PTL

\* Two streams continue one turn only after an unfenced write took the claim.
THEOREM OneContinuationHolds == Spec => []OneContinuation
<1>1. LifecycleInv => OneContinuation
  BY DEF LifecycleInv, ClaimHeld, OneContinuation
<1> QED
  BY <1>1, LifecycleHolds, PTL

\* A finished answer is lost for one of the named reasons only.
THEOREM LostAnswerExplainedHolds == Spec => []LostAnswerExplained
<1>1. LifecycleInv => LostAnswerExplained
  BY DEF LifecycleInv, LostTold, LostAnswerExplained
<1> QED
  BY <1>1, LifecycleHolds, PTL

-----------------------------------------------------------------------------
(* The ledger: a status, a revocation and a tool call for each turn.        *)

\* What the ledger shows of a turn does not change.
LEMMA LedgerRests ==
  ASSUME \A m \in Messages : /\ msg'[m].status = msg[m].status
                             /\ msg'[m].cleared = msg[m].cleared
                             /\ tool'[m].status = tool[m].status
  PROVE  UNCHANGED Ledger!vars
BY DEF Ledger!vars

\* What a row tells is enough to know when it may still be completed.
LEMMA WritableTold ==
  ASSUME RowsTold, NEW m \in Messages, NEW reclaim \in BOOLEAN, Writable(m, reclaim)
  PROVE  \/ msg[m].status = "open"
         \/ reclaim /\ msg[m].status = "failed" /\ ~msg[m].cleared
BY DEF RowsTold, RowTells, Writable, Reclaimable

\* finalize_message settles the turn and its call together, or does nothing.
LEMMA FinalizeLedger ==
  ASSUME TypeOK, RowsTold, NEW n \in Messages, NEW status \in {"complete", "failed"},
         NEW err, NEW retry, Finalize(n, status, err, retry)
  PROVE  [Ledger!Next]_Ledger!vars
<1>1. msg \in [Messages -> RowType] /\ tool \in [Messages -> ToolType]
  BY Types
<1>2. CASE Present(n) /\ Writable(n, status = "complete")
  <2>1. /\ msg' = [msg EXCEPT ![n] = [Settled(msg[n]) EXCEPT
                     !.status = status, !.err = err, !.retry = retry]]
        /\ tool' = IF tool[n].status = "executed"
                     THEN [tool EXCEPT ![n] = [NoTool EXCEPT !.status = "confirmed"]]
                     ELSE tool
    BY <1>2 DEF Finalize
  <2>2. msg'[n].status = status /\ msg'[n].cleared = msg[n].cleared
    BY <1>1, <2>1 DEF Settled, RowType
  <2>3. \A i \in Messages : i # n => msg'[i] = msg[i] /\ tool'[i] = tool[i]
    BY <1>1, <2>1
  <2>4. tool'[n].status = IF tool[n].status = "executed" THEN "confirmed" ELSE tool[n].status
    <3>1. [NoTool EXCEPT !.status = "confirmed"].status = "confirmed"
      BY DEF NoTool
    <3> QED
      BY <1>1, <2>1, <3>1
  <2>5. \/ msg[n].status = "open"
        \/ status = "complete" /\ msg[n].status = "failed" /\ ~msg[n].cleared
    BY <1>2, WritableTold
  <2>6. Ledger!Settle(n)
    BY <2>2, <2>3, <2>4, <2>5 DEF Ledger!Settle, Ledger!Ends
  <2> QED
    BY <2>6 DEF Ledger!Next, Ledger!Turns, Messages
<1>3. CASE ~(Present(n) /\ Writable(n, status = "complete"))
  BY <1>3, LedgerRests DEF Finalize
<1> QED
  BY <1>2, <1>3

\* A question opens the next turn, and an edit removes the turns it replaces.
LEMMA AskLedger ==
  ASSUME TypeOK, RowsTold, NEW s \in Streams, NEW k \in Messages, Ask(s, k)
  PROVE  Ledger!Next
<1>1. PICK n \in Messages :
        /\ msg[n].status = "none" /\ \A j \in 1..(n - 1) : msg[j].status # "none"
        /\ k <= n
        /\ msg' = [i \in Messages |->
                     IF i = n THEN [NoMsg EXCEPT !.status = "open"]
                     ELSE IF i >= k /\ Present(i) THEN [NoMsg EXCEPT !.status = "gone"]
                     ELSE msg[i]]
        /\ tool' = tool
  BY DEF Ask
<1>2. \A i \in Messages :
        /\ msg'[i].status = IF i = n THEN "open"
                            ELSE IF i >= k /\ Present(i) THEN "gone" ELSE msg[i].status
        /\ msg'[i].cleared <=> msg[i].cleared /\ i < k
  <2> SUFFICES ASSUME NEW i \in Messages
               PROVE  /\ msg'[i].status = IF i = n THEN "open"
                            ELSE IF i >= k /\ Present(i) THEN "gone" ELSE msg[i].status
                      /\ msg'[i].cleared <=> msg[i].cleared /\ i < k
    OBVIOUS
  <2>1. i \in Int /\ k \in Int /\ n \in Int
    BY DEF Messages
  <2>2. RowTells(msg[i])
    BY DEF RowsTold
  <2>3. CASE i = n
    BY <1>1, <2>1, <2>2, <2>3 DEF NoMsg, RowTells
  <2>4. CASE i # n /\ i >= k /\ Present(i)
    BY <1>1, <2>1, <2>4 DEF NoMsg
  <2>5. CASE i # n /\ ~(i >= k /\ Present(i))
    BY <1>1, <2>1, <2>2, <2>5 DEF RowTells, Present
  <2> QED
    BY <2>3, <2>4, <2>5
<1>3. /\ n \in Ledger!Turns /\ Ledger!Turns = Messages /\ k \in 1..n
      /\ 1..(n - 1) \subseteq Messages
  BY <1>1, MessageLifecycleAssumption DEF Ledger!Turns, Messages
<1>4. \A i \in Messages : Ledger!There(i) <=> Present(i)
  BY DEF Ledger!There, Present
<1>5. Ledger!Open(n)
  <2>1. /\ [m \in Messages |-> msg'[m].status] =
             [i \in Messages |-> IF i = n THEN "open"
                                 ELSE IF i >= k /\ Ledger!There(i) THEN "gone"
                                 ELSE [m \in Messages |-> msg[m].status][i]]
        /\ {m \in Messages : msg'[m].cleared} =
             {i \in {m \in Messages : msg[m].cleared} : i < k}
    BY <1>2, <1>4
  <2>2. /\ [m \in Messages |-> msg[m].status][n] = "none"
        /\ [m \in Messages |-> msg'[m].status][n] = "open"
        /\ \A i \in 1..(n - 1) : [m \in Messages |-> msg[m].status][i] # "none"
    BY <1>1, <1>2, <1>3
  <2> QED
    BY <1>1, <1>3, <2>1, <2>2 DEF Ledger!Open
<1> QED
  BY <1>3, <1>5 DEF Ledger!Next

\* A sweep gives the turn up and withdraws the approval that waits, or only counts.
LEMMA SweepLedger ==
  ASSUME TypeOK, RowsTold, NEW n \in Messages, SweepMessage(n)
  PROVE  [Ledger!Next]_Ledger!vars
<1>1. msg \in [Messages -> RowType] /\ tool' = tool /\ msg[n].status = "open"
      /\ RowTells(msg[n])
  BY Types DEF SweepMessage, RowsTold
<1>2. \A i \in Messages : i # n => msg'[i] = msg[i]
  BY <1>1 DEF SweepMessage
<1>3. CASE AtLimit(n)
  <2>1. /\ msg'[n] = [Settled(msg[n]) EXCEPT !.status = "failed", !.err = "reconciler",
                                             !.cleared = Cleared(n)]
        /\ Settled(msg[n]) \in RowType
    BY <1>1, <1>3, SettledType DEF SweepMessage
  <2>2. msg'[n].status = "failed" /\ msg'[n].cleared = Cleared(n)
    BY <2>1 DEF RowType
  <2>3. Cleared(n) \in BOOLEAN
    BY <1>1 DEF Cleared, RowType
  <2>4. {m \in Messages : msg'[m].cleared} \in
          {{m \in Messages : msg[m].cleared}, {m \in Messages : msg[m].cleared} \cup {n}}
    <3>1. ~msg[n].cleared
      BY <1>1 DEF RowTells
    <3>2. CASE Cleared(n)
      BY <1>2, <2>2, <3>2
    <3>3. CASE ~Cleared(n)
      BY <1>2, <2>2, <3>1, <3>3
    <3> QED
      BY <2>3, <3>2, <3>3
  <2>5. Ledger!GiveUp(n)
    BY <1>1, <1>2, <2>2, <2>4 DEF Ledger!GiveUp, Ledger!Ends
  <2> QED
    BY <2>5 DEF Ledger!Next, Ledger!Turns, Messages
<1>4. CASE ~AtLimit(n)
  <2>1. msg'[n].status = msg[n].status /\ msg'[n].cleared = msg[n].cleared
    BY <1>1, <1>4 DEF SweepMessage, RowType
  <2> QED
    BY <1>1, <1>2, <2>1, LedgerRests
<1> QED
  BY <1>3, <1>4

\* A heartbeat, or the lack of one, changes nothing that the ledger shows.
LEMMA BeatLedger ==
  ASSUME TypeOK,
         \/ \E s \in Streams : Heartbeat(s) /\ stream[s].msg \in Messages
         \/ \E n \in Messages : RowAges(n)
  PROVE  UNCHANGED Ledger!vars
<1>1. msg \in [Messages -> RowType]
  BY Types
<1>2. CASE UNCHANGED <<msg, tool>>
  BY <1>2, LedgerRests
<1>3. ASSUME NEW n \in Messages, NEW row \in {Stamped(n), [msg[n] EXCEPT !.stale = TRUE]},
             tool' = tool, msg' = [msg EXCEPT ![n] = row]
      PROVE  UNCHANGED Ledger!vars
  <2>1. row.status = msg[n].status /\ row.cleared = msg[n].cleared
    BY <1>1, <1>3 DEF Stamped, RowType
  <2>2. \A i \in Messages : msg'[i] = IF i = n THEN row ELSE msg[i]
    BY <1>1, <1>3
  <2> QED
    BY <1>3, <2>1, <2>2, LedgerRests
<1>4. ASSUME NEW n \in Messages, RowAges(n) PROVE UNCHANGED Ledger!vars
  <2>1. msg' = [msg EXCEPT ![n] = [msg[n] EXCEPT !.stale = TRUE]]
    BY <1>4 DEF RowAges
  <2> QED
    BY <1>3, <1>4, <2>1 DEF RowAges
<1>5. ASSUME NEW s \in Streams, Heartbeat(s), stream[s].msg \in Messages
      PROVE  UNCHANGED Ledger!vars
  BY <1>2, <1>3, <1>5 DEF Heartbeat
<1> QED
  BY <1>4, <1>5

\* The journal of tool calls.
LEMMA ToolLedger ==
  ASSUME TypeOK,
         \/ \E s \in Streams : /\ ToolStart(s) \/ ToolReturn(s) \/ ToolRaise(s)
                               /\ stream[s].msg \in Messages
         \/ \E n \in Messages : ToolAges(n) \/ SweepTool(n)
  PROVE  [Ledger!Next]_Ledger!vars
<1>1. tool \in [Messages -> ToolType] /\ msg' = msg
  BY Types DEF ToolStart, ToolReturn, ToolRaise, ToolAges, SweepTool
<1>2. ASSUME NEW n \in Messages, NEW to, \A i \in Messages : i # n => tool'[i] = tool[i],
             tool'[n].status = to,
             \/ /\ Present(n)
                /\ \/ tool[n].status = "none" /\ to \in {"proposed", "executed"}
                   \/ tool[n].status = "proposed" /\ to = "executed"
             \/ tool[n].status \in {"proposed", "executed"} /\ to = "failed"
      PROVE  [Ledger!Next]_Ledger!vars
  <2>1. Ledger!Call(n)
    BY <1>1, <1>2 DEF Ledger!Call, Ledger!There, Present
  <2> QED
    BY <2>1 DEF Ledger!Next, Ledger!Turns, Messages
<1>3. ASSUME \A i \in Messages : tool'[i].status = tool[i].status
      PROVE  [Ledger!Next]_Ledger!vars
  BY <1>1, <1>3, LedgerRests
<1>4. /\ [NoTool EXCEPT !.status = "executed"].status = "executed"
      /\ [NoTool EXCEPT !.status = "failed"].status = "failed"
  BY DEF NoTool
<1>5. ASSUME NEW s \in Streams, ToolStart(s), stream[s].msg \in Messages
      PROVE  [Ledger!Next]_Ledger!vars
  <2>1. PICK n \in Messages : n = stream[s].msg
    BY <1>5
  <2>2. CASE tool[n].status = "none" /\ Present(n)
    <3>1. tool' = [tool EXCEPT ![n].status = "proposed"]
      BY <1>5, <2>1, <2>2 DEF ToolStart
    <3>2. tool'[n].status = "proposed" /\ \A i \in Messages : i # n => tool'[i] = tool[i]
      BY <1>1, <3>1 DEF ToolType
    <3> QED
      BY <1>2, <2>2, <3>2
  <2>3. CASE ~(tool[n].status = "none" /\ Present(n))
    BY <1>3, <1>5, <2>1, <2>3 DEF ToolStart
  <2> QED
    BY <2>2, <2>3
<1>6. ASSUME NEW s \in Streams, ToolReturn(s), stream[s].msg \in Messages
      PROVE  [Ledger!Next]_Ledger!vars
  <2>1. PICK n \in Messages : n = stream[s].msg
    BY <1>6
  <2>2. CASE Upgradable(n)
    <3>1. tool' = [tool EXCEPT ![n] = [NoTool EXCEPT !.status = "executed"]]
      BY <1>6, <2>1, <2>2 DEF ToolReturn
    <3>2. tool'[n].status = "executed" /\ \A i \in Messages : i # n => tool'[i] = tool[i]
      BY <1>1, <1>4, <3>1
    <3> QED
      BY <1>2, <2>2, <3>2 DEF Upgradable
  <2>3. CASE ~Upgradable(n)
    BY <1>3, <1>6, <2>1, <2>3 DEF ToolReturn
  <2> QED
    BY <2>2, <2>3
<1>7. ASSUME NEW n \in Messages, tool[n].status \in {"proposed", "executed"},
             tool' = [tool EXCEPT ![n] = [NoTool EXCEPT !.status = "failed"]]
      PROVE  [Ledger!Next]_Ledger!vars
  <2>1. tool'[n].status = "failed" /\ \A i \in Messages : i # n => tool'[i] = tool[i]
    BY <1>1, <1>4, <1>7
  <2> QED
    BY <1>2, <1>7, <2>1
<1>8. ASSUME NEW s \in Streams, ToolRaise(s), stream[s].msg \in Messages
      PROVE  [Ledger!Next]_Ledger!vars
  BY <1>3, <1>7, <1>8 DEF ToolRaise
<1>9. ASSUME NEW n \in Messages, SweepTool(n) PROVE [Ledger!Next]_Ledger!vars
  BY <1>7, <1>9 DEF SweepTool
<1>10. ASSUME NEW n \in Messages, ToolAges(n) PROVE [Ledger!Next]_Ledger!vars
  <2>1. \A i \in Messages : tool'[i].status = tool[i].status
    BY <1>1, <1>10 DEF ToolAges, ToolType
  <2> QED
    BY <1>3, <2>1
<1> QED
  BY <1>5, <1>6, <1>8, <1>9, <1>10

\* Each step is a step of the ledger, or none.
LEMMA LedgerStep ==
  ASSUME LifecycleInv, [Next]_vars PROVE [Ledger!Next]_Ledger!vars
<1>1. TypeOK /\ RowsTold /\ Assigned
  BY DEF LifecycleInv
<1>2. ASSUME NEW s \in Streams, NEW k \in Messages, Ask(s, k)
      PROVE  [Ledger!Next]_Ledger!vars
  BY <1>1, <1>2, AskLedger
<1>3. ASSUME NEW s \in Streams, StreamStep(s) PROVE [Ledger!Next]_Ledger!vars
  <2>1. stream[s].pc # "idle" \/ stream[s].ticker => stream[s].msg \in Messages
    BY <1>1 DEF Assigned, Idle
  <2>2. CASE FinalizeAnswer(s) \/ FinalizeEmpty(s) \/ FinalizeError(s)
    BY <1>1, <2>1, <2>2, FinalizeLedger DEF FinalizeAnswer, FinalizeEmpty, FinalizeError
  <2>3. CASE Heartbeat(s)
    BY <1>1, <2>1, <2>3, BeatLedger DEF Heartbeat
  <2>4. CASE ToolStart(s) \/ ToolReturn(s) \/ ToolRaise(s)
    <3>1. stream[s].msg \in Messages
      BY <2>1, <2>4 DEF ToolStart, ToolReturn, ToolRaise
    <3> QED
      BY <1>1, <2>4, <3>1, ToolLedger
  <2>5. CASE \/ TickerCeiling(s) \/ Pause(s) \/ PauseUnsaved(s) \/ DropState(s)
             \/ Raise(s) \/ Abandon(s) \/ Crash(s)
    BY <2>5, LedgerRests
    DEF TickerCeiling, Pause, PauseUnsaved, DropState, Raise, Abandon, Crash
  <2> QED
    BY <1>3, <2>2, <2>3, <2>4, <2>5 DEF StreamStep
<1>4. ASSUME NEW n \in Messages, SweepMessage(n) PROVE [Ledger!Next]_Ledger!vars
  BY <1>1, <1>4, SweepLedger
<1>5. CASE \E n \in Messages : ToolAges(n) \/ SweepTool(n)
  BY <1>1, <1>5, ToolLedger
<1>6. CASE \E n \in Messages : RowAges(n)
  BY <1>1, <1>6, BeatLedger
<1>7. CASE Retire
  <2>1. retiring \in Messages
    BY <1>1, <1>7, Types DEF Retire
  <2> QED
    BY <1>1, <1>7, <2>1, FinalizeLedger DEF Retire
<1>8. CASE \/ ResumeRefused \/ ClaimAges \/ StateExpires \/ Janitor \/ JanitorCrash
           \/ UNCHANGED vars \/ \E s \in Streams : Resume(s)
  BY <1>8, LedgerRests
  DEF ResumeRefused, ClaimAges, StateExpires, Janitor, JanitorCrash, vars, Resume
<1> QED
  BY <1>2, <1>3, <1>4, <1>5, <1>6, <1>7, <1>8 DEF Next, Time, Reconciler

\* Whatever is late, resumed twice, swept or retired, the tables implement the ledger: a
\* complete answer is not overwritten, a revoked turn not completed, a tool call that ended
\* not reopened, and one confirmed only by the write that ends its message.
THEOREM ImplementsLedgerHolds == Spec => ImplementsLedger
<1>1. Init => Ledger!Init
  BY DEF Init, NoMsg, NoTool, Ledger!Init, Ledger!Turns, Messages
<1>2. LifecycleInv /\ [Next]_vars => [Ledger!Next]_Ledger!vars
  BY LedgerStep
<1> QED
  BY <1>1, <1>2, LifecycleHolds, PTL DEF Spec, ImplementsLedger, Ledger!Spec
=============================================================================
